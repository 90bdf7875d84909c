-------------------------- MODULE SupervisorProofs --------------------------
(***************************************************************************)
(* What TwoTicks and FeedsProgress check of some issues, messages, pull    *)
(* requests and ticks, proved for every number of them.                    *)
(***************************************************************************)
EXTENDS Supervisor, SequenceTheorems, FiniteSetTheorems, WellFoundedInduction,
        TLAPS

-----------------------------------------------------------------------------
(* Sequences and times.                                                     *)

Elements(s) == {s[i] : i \in DOMAIN s}

(* A set of numbers that is not empty and has a bound has a greatest.       *)
LEMMA SomeIsGreatest ==
  ASSUME NEW m \in Nat, NEW S \in SUBSET (0 .. m), S # {}
  PROVE  \E x \in S : \A y \in S : y <= x
<1> DEFINE T == {n \in Nat : m - n \in S}
<1>1. T \subseteq Nat /\ T # {}
  <2>1. PICK x \in S : TRUE
    OBVIOUS
  <2>2. m - x \in Nat /\ m - (m - x) = x
    OBVIOUS
  <2>3. QED
    BY <2>1, <2>2
<1>2. PICK n \in T : \A k \in T : ~(<<k, n>> \in OpToRel(<, Nat))
  <2> HIDE DEF T
  <2> QED
    BY <1>1, NatLessThanWellFounded, WFMin
<1>3. ASSUME NEW k \in T PROVE ~(k < n)
  BY <1>1, <1>2, <1>3 DEF OpToRel
<1>4. ASSUME NEW y \in S PROVE y <= m - n
  <2>1. m - y \in Nat /\ m - (m - y) = y /\ m - y \in T
    OBVIOUS
  <2>2. ~(m - y < n)
    BY <2>1, <1>3
  <2>3. n \in Nat
    BY <1>1
  <2>4. QED
    BY <2>2, <2>3
<1>5. QED
  BY <1>2, <1>4

LEMMA ElementsAreOf ==
  ASSUME NEW S, NEW s \in Seq(S)
  PROVE  /\ Elements(s) \subseteq S
         /\ \A x \in Elements(s) : \E i \in 1 .. Len(s) : s[i] = x
         /\ \A i \in 1 .. Len(s) : s[i] \in Elements(s)
<1>1. Len(s) \in Nat /\ DOMAIN s = 1 .. Len(s) /\ \A i \in 1 .. Len(s) : s[i] \in S
  BY LenProperties, ElementOfSeq
<1>2. QED
  BY <1>1 DEF Elements

LEMMA ElementsOfBoth ==
  ASSUME NEW S, NEW s \in Seq(S), NEW t \in Seq(S)
  PROVE  s \o t \in Seq(S) /\ Elements(s \o t) = Elements(s) \cup Elements(t)
<1>1. /\ s \o t \in Seq(S) /\ Len(s \o t) = Len(s) + Len(t)
      /\ \A i \in 1 .. Len(s) + Len(t) :
           (s \o t)[i] = IF i <= Len(s) THEN s[i] ELSE t[i - Len(s)]
  BY ConcatProperties
<1>2. /\ Len(s) \in Nat /\ DOMAIN s = 1 .. Len(s)
      /\ Len(t) \in Nat /\ DOMAIN t = 1 .. Len(t)
      /\ DOMAIN (s \o t) = 1 .. Len(s) + Len(t)
  BY <1>1, LenProperties
<1>3. ASSUME NEW i \in 1 .. Len(s) + Len(t)
      PROVE  (s \o t)[i] \in Elements(s) \cup Elements(t)
  <2>1. CASE i <= Len(s)
    <3>1. i \in 1 .. Len(s) /\ (s \o t)[i] = s[i]
      BY <1>1, <1>2, <2>1
    <3>2. QED
      BY <1>2, <3>1 DEF Elements
  <2>2. CASE ~(i <= Len(s))
    <3>1. i - Len(s) \in 1 .. Len(t) /\ (s \o t)[i] = t[i - Len(s)]
      BY <1>1, <1>2, <2>2
    <3>2. QED
      BY <1>2, <3>1 DEF Elements
  <2>3. QED
    BY <2>1, <2>2
<1>4. ASSUME NEW i \in 1 .. Len(s) PROVE s[i] \in Elements(s \o t)
  <2>1. i \in 1 .. Len(s) + Len(t) /\ i <= Len(s)
    BY <1>2
  <2>2. (s \o t)[i] = s[i]
    BY <1>1, <2>1
  <2>3. QED
    BY <1>2, <2>1, <2>2 DEF Elements
<1>5. ASSUME NEW i \in 1 .. Len(t) PROVE t[i] \in Elements(s \o t)
  <2>1. /\ Len(s) + i \in 1 .. Len(s) + Len(t) /\ ~(Len(s) + i <= Len(s))
        /\ (Len(s) + i) - Len(s) = i
    BY <1>2
  <2>2. (s \o t)[Len(s) + i] = t[i]
    BY <1>1, <2>1
  <2>3. QED
    BY <1>2, <2>1, <2>2 DEF Elements
<1>6. QED
  BY <1>1, <1>2, <1>3, <1>4, <1>5 DEF Elements

LEMMA HeadAndTail ==
  ASSUME NEW S, NEW s \in Seq(S), s # <<>>
  PROVE  /\ Head(s) \in S /\ Tail(s) \in Seq(S) /\ Head(s) \in Elements(s)
         /\ Elements(s) = {Head(s)} \cup Elements(Tail(s))
<1>1. /\ Len(s) \in Nat \ {0} /\ DOMAIN s = 1 .. Len(s)
      /\ Head(s) = s[1] /\ Head(s) \in S
      /\ Tail(s) \in Seq(S) /\ Len(Tail(s)) = Len(s) - 1
      /\ \A i \in 1 .. Len(Tail(s)) : Tail(s)[i] = s[i + 1]
  BY HeadTailProperties, LenProperties, EmptySeq
<1>2. DOMAIN Tail(s) = 1 .. Len(s) - 1
  BY <1>1, LenProperties
<1>3. Head(s) \in Elements(s)
  BY <1>1 DEF Elements
<1>4. ASSUME NEW i \in 1 .. Len(s) PROVE s[i] \in {Head(s)} \cup Elements(Tail(s))
  <2>1. CASE i = 1
    BY <1>1, <2>1
  <2>2. CASE i # 1
    <3>1. i - 1 \in 1 .. Len(s) - 1 /\ (i - 1) + 1 = i
      BY <1>1, <2>2
    <3>2. Tail(s)[i - 1] = s[i]
      BY <1>1, <3>1
    <3>3. QED
      BY <1>2, <3>1, <3>2 DEF Elements
  <2>3. QED
    BY <2>1, <2>2
<1>5. ASSUME NEW i \in 1 .. Len(s) - 1 PROVE Tail(s)[i] \in Elements(s)
  <2>1. i + 1 \in 1 .. Len(s) /\ Tail(s)[i] = s[i + 1]
    BY <1>1
  <2>2. QED
    BY <1>1, <2>1 DEF Elements
<1>6. QED
  BY <1>1, <1>2, <1>3, <1>4, <1>5 DEF Elements

LEMMA NothingIn ==
  Elements(<<>>) = {}
  BY EmptySeq DEF Elements

LEMMA RecentIs ==
  ASSUME NEW S, NEW s \in Seq(S)
  PROVE  /\ Recent(s) \in Seq(S) /\ Len(Recent(s)) <= Remembered
         /\ Elements(Recent(s)) \subseteq Elements(s)
<1>1. Remembered \in Nat /\ Len(s) \in Nat /\ DOMAIN s = 1 .. Len(s)
  BY ConstantsAssumption, LenProperties
<1>2. CASE ~(Len(s) > Remembered)
  BY <1>1, <1>2 DEF Recent
<1>3. CASE Len(s) > Remembered
  <2> DEFINE m == Len(s) - Remembered + 1  t == SubSeq(s, m, Len(s))
  <2>1. m \in 1 .. Len(s) + 1 /\ Len(s) - m + 1 = Remembered
    BY <1>1, <1>3
  <2>2. \A i \in m .. Len(s) : s[i] \in S
    BY <2>1, <1>1, ElementOfSeq
  <2> HIDE DEF m
  <2>3. /\ t \in Seq(S) /\ Len(t) = Remembered
        /\ \A i \in 1 .. Remembered : t[i] = s[m + i - 1]
    BY <1>1, <2>1, <2>2, SubSeqProperties
  <2>4. DOMAIN t = 1 .. Remembered
    BY <2>3, LenProperties
  <2>5. ASSUME NEW i \in 1 .. Remembered PROVE t[i] \in Elements(s)
    <3>1. m + i - 1 \in 1 .. Len(s)
      BY <1>1, <2>1
    <3>2. QED
      BY <1>1, <2>3, <3>1 DEF Elements
  <2>6. Recent(s) = t
    BY <1>3 DEF Recent, m
  <2>7. QED
    BY <1>1, <2>3, <2>4, <2>5, <2>6 DEF Elements
<1>4. QED
  BY <1>2, <1>3

LEMMA OrderIsSeq ==
  ASSUME NEW S \in SUBSET Triggers, NEW s \in Orders(S)
  PROVE  s \in Seq(S) /\ s \in Seq(Triggers) /\ Elements(s) = S
<1>1. Cardinality(S) \in Nat
  BY ConstantsAssumption, FS_Subset, FS_CardinalityType DEF Triggers, Messages
<1>2. /\ s \in [1 .. Cardinality(S) -> S]
      /\ \A g \in S : \E i \in DOMAIN s : s[i] = g
  BY DEF Orders
<1>3. QED
  BY <1>1, <1>2 DEF Elements

(* What is taken in is of the page, and the rest of the page was remembered *)
(* before, or is by what was taken in.                                      *)
LEMMA PageIsTaken ==
  ASSUME NEW c, c.emitted \in Seq(Triggers), NEW page \in SUBSET Triggers,
         NEW sorted, NEW s \in Accepted(c, page, sorted)
  PROVE  /\ s \in Seq(Triggers) /\ Elements(s) \subseteq page
         /\ page \subseteq Elements(s) \cup Elements(c.emitted)
<1>1. PICK S \in SUBSET page : s \in Orders(S)
  BY DEF Accepted
<1>2. s \in Seq(Triggers) /\ Elements(s) = S
  <2>1. S \in SUBSET Triggers
    OBVIOUS
  <2>2. QED
    BY <1>1, <2>1, OrderIsSeq
<1>3. ASSUME NEW n \in 0 .. Len(s), NEW g, Remembers(c, s, n, g)
      PROVE  g \in Elements(s) \cup Elements(c.emitted)
  <2> DEFINE t == SubSeq(s, 1, n)
  <2>1. Len(s) \in Nat /\ DOMAIN s = 1 .. Len(s) /\ n \in Nat /\ n <= Len(s)
    BY <1>2, LenProperties
  <2>2. /\ t \in Seq(Triggers) /\ Len(t) = n
        /\ \A i \in 1 .. n : t[i] = s[i]
    <3>1. \A i \in 1 .. n : s[i] \in Triggers
      BY <1>2, <2>1, ElementOfSeq
    <3>2. 1 \in 1 .. n + 1 /\ n - 1 + 1 = n /\ \A i \in 1 .. n : 1 + i - 1 = i
      BY <2>1
    <3>3. QED
      BY <2>1, <3>1, <3>2, SubSeqProperties
  <2>3. Elements(t) \subseteq Elements(s)
    <3>1. DOMAIN t = 1 .. n
      BY <2>2, LenProperties
    <3>2. QED
      BY <2>1, <2>2, <3>1 DEF Elements
  <2> HIDE DEF t
  <2>4. /\ c.emitted \o t \in Seq(Triggers)
        /\ Elements(c.emitted \o t) = Elements(c.emitted) \cup Elements(t)
    BY <2>2, ElementsOfBoth
  <2>5. g \in Elements(Recent(c.emitted \o t))
    BY <1>3 DEF Remembers, Elements, t
  <2>6. QED
    BY <2>3, <2>4, <2>5, RecentIs
<1>4. ASSUME NEW g \in page PROVE g \in Elements(s) \cup Elements(c.emitted)
  <2>1. CASE \E i \in DOMAIN s : s[i] = g
    BY <2>1 DEF Elements
  <2>2. CASE ~ \E i \in DOMAIN s : s[i] = g
    <3>1. PICK n \in 0 .. Len(s) : Remembers(c, s, n, g)
      BY <2>2 DEF Accepted
    <3>2. QED
      BY <1>3, <3>1
  <2>3. QED
    BY <2>1, <2>2
<1>5. QED
  BY <1>2, <1>4

-----------------------------------------------------------------------------
(* Types.                                                                   *)

TickRecords == [step : TickStep, asked : Times, since : Times,
                position : Positions, batch : Seq(Triggers)]

Waiting(p) == Elements(tick[p].batch)

(* A tick's position forgets as a saved one does, and a tick that acts on a *)
(* verdict has the trigger it is about.                                     *)
TickTyped(p) ==
  /\ Len(tick[p].position.emitted) <= Remembered
  /\ tick[p].step \in {"admitting", "waking"} => tick[p].batch # <<>>
TypeInv == TypeOK /\ \A p \in Ticks : TickTyped(p)

LEMMA ConstantsAre ==
  /\ Triggers = Issues \cup Messages /\ Issues \cap Messages = {}
  /\ Issues \subseteq Threads /\ Pulls \subseteq Threads
  /\ NoPull \notin Threads /\ NoPull \notin Pulls
  /\ IsFiniteSet(Triggers)
  /\ Overlap \in Nat /\ PollTime \in Nat /\ MaxTime \in Nat \ {0}
  /\ 0 \in Times /\ 1 \in Times /\ Never \in Times /\ Times \subseteq Nat
  /\ "none" \notin Actor
  BY ConstantsAssumption DEF Triggers, Messages, Threads, Times, Never, Actor

LEMMA TimesOf ==
  ASSUME TypeOK, NEW g \in Triggers
  PROVE  /\ At(g) \in Times /\ At(g) \in Nat
         /\ ThreadOf(g) \in Threads \cup {NoPull}
         /\ now \in Nat /\ spoke[g] \in Nat
  BY ConstantsAre DEF TypeOK, At, ThreadOf

LEMMA TickIs ==
  ASSUME TypeOK, NEW p \in Ticks
  PROVE  /\ tick[p] \in TickRecords
         /\ tick[p].step \in TickStep
         /\ tick[p].asked \in Nat /\ tick[p].since \in Nat
         /\ tick[p].position \in Positions
         /\ tick[p].position.watermark \in Nat
         /\ tick[p].position.emitted \in Seq(Triggers)
         /\ tick[p].batch \in Seq(Triggers)
         /\ Waiting(p) \subseteq Triggers
<1>1. tick[p] \in TickRecords
  BY DEF TypeOK, TickRecords
<1>2. /\ tick[p].step \in TickStep /\ tick[p].asked \in Times
      /\ tick[p].since \in Times /\ tick[p].position \in Positions
      /\ tick[p].batch \in Seq(Triggers)
  BY <1>1 DEF TickRecords
<1>3. /\ tick[p].position.watermark \in Times
      /\ tick[p].position.emitted \in Seq(Triggers)
  BY <1>2 DEF Positions
<1>4. QED
  BY <1>1, <1>2, <1>3, ConstantsAre, ElementsAreOf DEF Waiting

LEMMA CursorIs ==
  ASSUME TypeOK
  PROVE  /\ cursor.watermark \in Nat /\ cursor.emitted \in Seq(Triggers)
         /\ Since(cursor) \in Times /\ Since(cursor) \in Nat
         /\ Since(cursor) <= cursor.watermark
<1>1. cursor.watermark \in Times /\ cursor.emitted \in Seq(Triggers)
  BY DEF TypeOK, Positions
<1>2. QED
  BY <1>1, ConstantsAre DEF Since, Bigger, Times

LEMMA TakenIs ==
  ASSUME TypeOK, NEW c \in Positions, NEW s \in Seq(Triggers)
  PROVE  /\ Taken(c, s) \in Positions
         /\ Len(Taken(c, s).emitted) <= Remembered
         /\ Elements(Taken(c, s).emitted) \subseteq
              Elements(c.emitted) \cup Elements(s)
         /\ \/ Taken(c, s).watermark = c.watermark
            \/ \E g \in Elements(s) : Taken(c, s).watermark = At(g)
<1> DEFINE W == {c.watermark} \cup {At(s[i]) : i \in DOMAIN s}
           Top(w) == w >= c.watermark /\ \A i \in DOMAIN s : w >= At(s[i])
           top == CHOOSE w \in W : Top(w)
<1>1. /\ c.watermark \in Times /\ c.emitted \in Seq(Triggers)
      /\ DOMAIN s = 1 .. Len(s) /\ \A i \in DOMAIN s : s[i] \in Triggers
  BY LenProperties, ElementOfSeq DEF Positions
<1>2. \A i \in DOMAIN s : At(s[i]) \in Times
  BY <1>1, TimesOf
<1>3. W \in SUBSET (0 .. MaxTime) /\ W # {}
  BY <1>1, <1>2 DEF Times
<1>4. \E w \in W : Top(w)
  <2>1. PICK w \in W : \A v \in W : v <= w
    <3> HIDE DEF W
    <3> QED
      BY <1>3, ConstantsAre, SomeIsGreatest
  <2>2. w \in Times /\ c.watermark <= w
    BY <1>3, <2>1 DEF Times
  <2>3. \A i \in DOMAIN s : At(s[i]) <= w
    BY <2>1
  <2>4. Top(w)
    BY <1>1, <1>2, <2>2, <2>3, ConstantsAre
  <2>5. QED
    BY <2>4
<1>5. top \in W
  <2> HIDE DEF W, Top
  <2> QED
    BY <1>4
<1>6. Taken(c, s) = [watermark |-> top, emitted |-> Recent(c.emitted \o s)]
  BY DEF Taken
<1> HIDE DEF top
<1>7. top \in Times /\ (top = c.watermark \/ \E g \in Elements(s) : top = At(g))
  BY <1>1, <1>2, <1>5 DEF Elements
<1>8. /\ Recent(c.emitted \o s) \in Seq(Triggers)
      /\ Len(Recent(c.emitted \o s)) <= Remembered
      /\ Elements(Recent(c.emitted \o s)) \subseteq Elements(c.emitted) \cup Elements(s)
  <2>1. /\ c.emitted \o s \in Seq(Triggers)
        /\ Elements(c.emitted \o s) = Elements(c.emitted) \cup Elements(s)
    BY <1>1, ElementsOfBoth
  <2>2. QED
    BY <2>1, RecentIs
<1>9. QED
  BY <1>6, <1>7, <1>8 DEF Positions

(* A response taken in: the tick goes on with a longer batch, of what of    *)
(* the page its own bot did not write and the position did not remember.    *)
ByOthers(page) == {g \in page : ~IsOwnBot(author[g])}
Takes(p, page, s, next) ==
  /\ tick' \in [Ticks -> TickRecords]
  /\ \A q \in Ticks : q # p => tick'[q] = tick[q]
  /\ tick'[p].step = next
  /\ tick'[p].asked = tick[p].asked /\ tick'[p].since = tick[p].since
  /\ tick'[p].position \in Positions
  /\ Len(tick'[p].position.emitted) <= Remembered
  /\ Elements(tick'[p].position.emitted) \subseteq
       Elements(tick[p].position.emitted) \cup Elements(s)
  /\ \/ tick'[p].position.watermark = tick[p].position.watermark
     \/ \E g \in Elements(s) : tick'[p].position.watermark = At(g)
  /\ Elements(s) \subseteq ByOthers(page)
  /\ ByOthers(page) \subseteq
       Elements(s) \cup Elements(tick[p].position.emitted)
  /\ Waiting(p)' = Waiting(p) \cup Elements(s)
LEMMA TakeInIs ==
  ASSUME TypeOK, NEW p \in Ticks, NEW page \in SUBSET Triggers, NEW sorted,
         NEW s \in Fresh(p, page, sorted), NEW next \in TickStep,
         TakeIn(p, s, next)
  PROVE  Takes(p, page, s, next)
<1>1. ByOthers(page) \in SUBSET Triggers
  BY DEF ByOthers
<1>2. /\ s \in Seq(Triggers) /\ Elements(s) \subseteq ByOthers(page)
      /\ ByOthers(page) \subseteq
           Elements(s) \cup Elements(tick[p].position.emitted)
  <2>1. s \in Accepted(tick[p].position, ByOthers(page), sorted)
    BY DEF Fresh, ByOthers
  <2>2. QED
    BY <1>1, <2>1, TickIs, PageIsTaken
<1> DEFINE pos == Taken(tick[p].position, s)
           bat == tick[p].batch \o s
<1>3. /\ pos \in Positions /\ Len(pos.emitted) <= Remembered
      /\ Elements(pos.emitted) \subseteq
           Elements(tick[p].position.emitted) \cup Elements(s)
      /\ \/ pos.watermark = tick[p].position.watermark
         \/ \E g \in Elements(s) : pos.watermark = At(g)
  BY <1>2, TakenIs, TickIs
<1>4. bat \in Seq(Triggers) /\ Elements(bat) = Waiting(p) \cup Elements(s)
  BY <1>2, TickIs, ElementsOfBoth DEF Waiting
<1>5. tick' = [tick EXCEPT ![p].step = next, ![p].position = pos, ![p].batch = bat]
  BY DEF TakeIn
<1>6. tick \in [Ticks -> TickRecords]
  BY DEF TypeOK, TickRecords
<1> HIDE DEF pos, bat
<1>7. /\ tick' \in [Ticks -> TickRecords]
      /\ \A q \in Ticks : q # p => tick'[q] = tick[q]
      /\ tick'[p].step = next
      /\ tick'[p].asked = tick[p].asked /\ tick'[p].since = tick[p].since
      /\ tick'[p].position = pos /\ tick'[p].batch = bat
  BY <1>3, <1>4, <1>5, <1>6 DEF TickRecords
<1>8. QED
  BY <1>2, <1>3, <1>4, <1>7 DEF Waiting, Takes

(* The next trigger handled: the batch is one shorter.                      *)
LEMMA HandledIs ==
  ASSUME TypeInv, NEW p \in Ticks, tick[p].batch # <<>>, Handled(p)
  PROVE  /\ tick' \in [Ticks -> TickRecords]
         /\ \A q \in Ticks : q # p => tick'[q] = tick[q]
         /\ tick'[p].step = "judging"
         /\ tick'[p].asked = tick[p].asked /\ tick'[p].since = tick[p].since
         /\ tick'[p].position = tick[p].position
         /\ NextTrigger(p) \in Triggers /\ NextTrigger(p) \in Waiting(p)
         /\ Waiting(p) = {NextTrigger(p)} \cup Waiting(p)'
         /\ judged' = judged \cup {NextTrigger(p)}
<1> DEFINE bat == Tail(tick[p].batch)
<1>1. /\ bat \in Seq(Triggers) /\ NextTrigger(p) \in Triggers
      /\ NextTrigger(p) \in Waiting(p)
      /\ Waiting(p) = {NextTrigger(p)} \cup Elements(bat)
  BY TickIs, HeadAndTail DEF TypeInv, NextTrigger, Waiting
<1>2. /\ tick' = [tick EXCEPT ![p].step = "judging", ![p].batch = bat]
      /\ judged' = judged \cup {NextTrigger(p)}
  BY DEF Handled, NextTrigger
<1>3. tick \in [Ticks -> TickRecords]
  BY DEF TypeInv, TypeOK, TickRecords
<1> HIDE DEF bat
<1>4. /\ tick' \in [Ticks -> TickRecords]
      /\ \A q \in Ticks : q # p => tick'[q] = tick[q]
      /\ tick'[p].step = "judging"
      /\ tick'[p].asked = tick[p].asked /\ tick'[p].since = tick[p].since
      /\ tick'[p].position = tick[p].position /\ tick'[p].batch = bat
  BY <1>1, <1>2, <1>3 DEF TickRecords, TickStep
<1>5. QED
  BY <1>1, <1>2, <1>4 DEF Waiting

LEMMA IdleIs ==
  /\ IdleTick \in TickRecords /\ IdleTick.step = "idle"
  /\ IdleTick.batch = <<>> /\ Elements(IdleTick.batch) = {}
  /\ Len(IdleTick.position.emitted) <= Remembered
  /\ Elements(IdleTick.position.emitted) = {}
<1>1. /\ Start = [watermark |-> 0, emitted |-> <<>>]
      /\ <<>> \in Seq(Triggers) /\ Len(<<>>) = 0 /\ Remembered \in Nat
  BY ConstantsAssumption, EmptySeq DEF Start
<1>2. Start \in Positions /\ Len(Start.emitted) <= Remembered
  BY <1>1, ConstantsAre DEF Positions
<1>3. QED
  BY <1>1, <1>2, ConstantsAre, NothingIn DEF IdleTick, TickRecords, TickStep

LEMMA GitHubTyped ==
  ASSUME TypeInv, GitHubNext
  PROVE  TypeInv'
<1>1. /\ UNCHANGED <<now, ticket, opened, turns, cursor, tick, judged, woken>>
      /\ author' \in [Triggers -> Actor \cup {"none"}]
      /\ message' \in [Messages -> [thread : Threads \cup {NoPull}, at : Times,
                                    found : {"none", "busy", "quiet"}]]
      /\ touched' \in [Threads -> Times]
  <2>1. CASE \E x \in Issues : \E by \in Authors[x] : Label(x, by)
    <3>1. PICK x \in Issues : \E by \in Authors[x] : Label(x, by)
      BY <2>1
    <3>2. PICK by \in Authors[x] : Label(x, by)
      BY <3>1
    <3>3. by \in Actor /\ x \in Triggers /\ x \in Threads
      BY ConstantsAssumption, ConstantsAre DEF Messages
    <3>4. QED
      BY <3>2, <3>3 DEF Label, TypeInv, TypeOK
  <2>2. CASE \E m \in Messages, x \in Threads : \E by \in Authors[m] : Post(m, x, by)
    <3>1. PICK m \in Messages, x \in Threads : \E by \in Authors[m] : Post(m, x, by)
      BY <2>2
    <3>2. PICK by \in Authors[m] : Post(m, x, by)
      BY <3>1
    <3>3. by \in Actor /\ m \in Triggers
      BY ConstantsAssumption, ConstantsAre DEF Messages
    <3>4. Found(x) \in {"none", "busy", "quiet"}
      BY DEF Found
    <3>5. QED
      BY <3>2, <3>3, <3>4 DEF Post, TypeInv, TypeOK
  <2>3. ASSUME NEW x \in Pulls, TouchPull(x)
        PROVE  /\ author' = author /\ message' = message
               /\ touched' \in [Threads -> Times]
    BY <2>3, ConstantsAre DEF TouchPull, TypeInv, TypeOK
  <2>4. CASE \E x \in Pulls : TouchPull(x)
    BY <2>3, <2>4 DEF TouchPull, TypeInv, TypeOK
  <2>5. QED
    BY <2>1, <2>2, <2>4 DEF GitHubNext
<1>2. TypeOK'
  BY <1>1 DEF TypeInv, TypeOK, turns
<1>3. QED
  BY <1>1, <1>2 DEF TypeInv, TickTyped

(* The page a request reads, of the feed it asks for.                       *)
ReviewPage(p, page, P) ==
  /\ P \in Listings
  /\ page \in SUBSET UNION {ReviewsOf(x) : x \in P \cap Reviewed(p)}
  /\ \A x \in P \cap Reviewed(p) :
       page \cap ReviewsOf(x) \in FirstPages(ReviewsOf(x))
Reads(p, page, s, next) ==
  /\ \E sorted \in BOOLEAN : s \in Fresh(p, page, sorted)
  /\ TakeIn(p, s, next)
  /\ \/ /\ tick[p].step = "issues" /\ next = "comments"
        /\ page \in FirstPages({x \in Issues : IsWritten(x) /\ At(x) >= tick[p].since})
     \/ /\ tick[p].step = "comments" /\ next = "reviews"
        /\ page \in FirstPages({m \in Comments : IsWritten(m) /\ At(m) >= tick[p].since})
     \/ /\ tick[p].step = "reviews" /\ next = "judging"
        /\ \E P : ReviewPage(p, page, P)
IsRead(p) == ReadIssues(p) \/ ReadComments(p) \/ ReadReviews(p)

LEMMA ReadIs ==
  ASSUME NEW p \in Ticks, IsRead(p)
  PROVE  \E page \in SUBSET Triggers : \E s, next : Reads(p, page, s, next)
<1>1. CASE ReadIssues(p)
  <2>1. PICK page \in FirstPages({x \in Issues : IsWritten(x) /\ At(x) >= tick[p].since}) :
          \E s \in Fresh(p, page, TRUE) : TakeIn(p, s, "comments")
    BY <1>1 DEF ReadIssues
  <2>2. PICK s \in Fresh(p, page, TRUE) : TakeIn(p, s, "comments")
    BY <2>1
  <2>3. page \in SUBSET Triggers
    BY ConstantsAre DEF FirstPages
  <2>4. Reads(p, page, s, "comments")
    BY <1>1, <2>2, <2>3 DEF Reads, ReadIssues
  <2>5. QED
    BY <2>3, <2>4
<1>2. CASE ReadComments(p)
  <2>1. PICK page \in FirstPages({m \in Comments : IsWritten(m) /\ At(m) >= tick[p].since}) :
          \E s \in Fresh(p, page, TRUE) : TakeIn(p, s, "reviews")
    BY <1>2 DEF ReadComments
  <2>2. PICK s \in Fresh(p, page, TRUE) : TakeIn(p, s, "reviews")
    BY <2>1
  <2>3. page \in SUBSET Triggers
    BY DEF FirstPages, Triggers, Messages
  <2>4. Reads(p, page, s, "reviews")
    BY <1>2, <2>2, <2>3 DEF Reads, ReadComments
  <2>5. QED
    BY <2>3, <2>4
<1>3. CASE ReadReviews(p)
  <2>1. PICK P \in Listings :
          \E page \in SUBSET UNION {ReviewsOf(x) : x \in P \cap Reviewed(p)} :
            /\ \A x \in P \cap Reviewed(p) :
                 page \cap ReviewsOf(x) \in FirstPages(ReviewsOf(x))
            /\ \E s \in Fresh(p, page, FALSE) : TakeIn(p, s, "judging")
    BY <1>3 DEF ReadReviews
  <2>2. PICK page \in SUBSET UNION {ReviewsOf(x) : x \in P \cap Reviewed(p)} :
          /\ \A x \in P \cap Reviewed(p) :
               page \cap ReviewsOf(x) \in FirstPages(ReviewsOf(x))
          /\ \E s \in Fresh(p, page, FALSE) : TakeIn(p, s, "judging")
    BY <2>1
  <2>3. PICK s \in Fresh(p, page, FALSE) : TakeIn(p, s, "judging")
    BY <2>2
  <2>4. page \in SUBSET Triggers
    BY DEF ReviewsOf, Triggers, Messages
  <2>5. ReviewPage(p, page, P)
    BY <2>1, <2>2 DEF ReviewPage
  <2>6. Reads(p, page, s, "judging")
    BY <1>3, <2>3, <2>4, <2>5 DEF Reads, ReadReviews
  <2>7. QED
    BY <2>4, <2>6
<1>4. QED
  BY <1>1, <1>2, <1>3 DEF IsRead

LEMMA ReadTakes ==
  ASSUME TypeInv, NEW p \in Ticks, NEW page \in SUBSET Triggers,
         NEW s, NEW next, Reads(p, page, s, next)
  PROVE  Takes(p, page, s, next)
<1>1. next \in TickStep /\ TakeIn(p, s, next)
  BY DEF Reads, TickStep
<1>2. PICK sorted \in BOOLEAN : s \in Fresh(p, page, sorted)
  BY DEF Reads
<1>3. TypeOK
  BY DEF TypeInv
<1>4. QED
  BY <1>1, <1>2, <1>3, TakeInIs

LEMMA ReadTyped ==
  ASSUME TypeInv, NEW p \in Ticks, IsRead(p)
  PROVE  TypeInv'
<1>1. PICK page \in SUBSET Triggers : \E s, next : Reads(p, page, s, next)
  BY ReadIs
<1>2. PICK s, next : Reads(p, page, s, next)
  BY <1>1
<1>3. next \in {"comments", "reviews", "judging"} /\ TakeIn(p, s, next)
  BY <1>2 DEF Reads, TickStep
<1>4. /\ tick' \in [Ticks -> TickRecords]
      /\ \A q \in Ticks : q # p => tick'[q] = tick[q]
      /\ tick'[p].step = next
      /\ Len(tick'[p].position.emitted) <= Remembered
  <2>1. Takes(p, page, s, next)
    BY <1>2, ReadTakes
  <2>2. QED
    BY <2>1 DEF Takes
<1>5. UNCHANGED <<now, github, ticket, opened, turns, cursor, judged, woken>>
  BY <1>3 DEF TakeIn
<1>6. TypeOK'
  BY <1>4, <1>5 DEF TypeInv, TypeOK, github, turns, TickRecords
<1>7. QED
  BY <1>3, <1>4, <1>6 DEF TypeInv, TickTyped

LEMMA StartIs ==
  ASSUME TypeInv, NEW p \in Ticks, StartTick(p)
  PROVE  /\ tick' \in [Ticks -> TickRecords]
         /\ \A q \in Ticks : q # p => tick'[q] = tick[q]
         /\ tick[p].step = "idle" /\ tick'[p].step = "issues"
         /\ tick'[p].asked = now /\ tick'[p].since = Since(cursor)
         /\ tick'[p].position = cursor /\ tick'[p].batch = <<>>
         /\ Waiting(p)' = {}
<1> DEFINE new == [step |-> "issues", asked |-> now, since |-> Since(cursor),
                   position |-> cursor, batch |-> <<>>]
<1>1. new \in TickRecords
  BY CursorIs, EmptySeq DEF TypeInv, TypeOK, TickRecords, TickStep
<1>2. tick \in [Ticks -> TickRecords] /\ tick' = [tick EXCEPT ![p] = new]
  BY DEF StartTick, TypeInv, TypeOK, TickRecords
<1>3. tick'[p] = new /\ tick' \in [Ticks -> TickRecords]
  BY <1>1, <1>2
<1>4. QED
  BY <1>2, <1>3, NothingIn DEF Waiting, StartTick

(* A poll that failed, an admission that met a live ticket, and a position  *)
(* saved: the tick is over.                                                 *)
Ends(p) == PollFails(p) \/ AdmitConflicts(p) \/ SavePosition(p)
LEMMA EndIs ==
  ASSUME TypeInv, NEW p \in Ticks, tick' = [tick EXCEPT ![p] = IdleTick]
  PROVE  /\ tick' \in [Ticks -> TickRecords]
         /\ \A q \in Ticks : q # p => tick'[q] = tick[q]
         /\ tick'[p] = IdleTick /\ Waiting(p)' = {}
<1>1. tick \in [Ticks -> TickRecords]
  BY DEF TypeInv, TypeOK, TickRecords
<1>2. QED
  BY <1>1, IdleIs DEF Waiting

LEMMA DecideIs ==
  ASSUME TypeInv, NEW p \in Ticks, Decide(p)
  PROVE  /\ tick' \in [Ticks -> TickRecords]
         /\ \A q \in Ticks : q # p => tick'[q] = tick[q]
         /\ tick[p].step = "judging" /\ tick[p].batch # <<>>
         /\ tick'[p].step = IF Verdict(NextTrigger(p)) = "accept"
                            THEN "admitting" ELSE "waking"
         /\ tick'[p].asked = tick[p].asked /\ tick'[p].since = tick[p].since
         /\ tick'[p].position = tick[p].position /\ tick'[p].batch = tick[p].batch
         /\ Waiting(p)' = Waiting(p)
<1> DEFINE step == IF Verdict(NextTrigger(p)) = "accept" THEN "admitting" ELSE "waking"
<1>1. /\ tick \in [Ticks -> TickRecords] /\ step \in TickStep
      /\ tick' = [tick EXCEPT ![p].step = step]
      /\ tick[p].step = "judging" /\ tick[p].batch # <<>>
  BY DEF Decide, TypeInv, TypeOK, TickRecords, TickStep
<1> HIDE DEF step
<1>2. /\ tick' \in [Ticks -> TickRecords]
      /\ \A q \in Ticks : q # p => tick'[q] = tick[q]
      /\ tick'[p].step = step
      /\ tick'[p].asked = tick[p].asked /\ tick'[p].since = tick[p].since
      /\ tick'[p].position = tick[p].position /\ tick'[p].batch = tick[p].batch
  BY <1>1 DEF TickRecords
<1>3. QED
  BY <1>1, <1>2 DEF Waiting, step

LEMMA EndTyped ==
  ASSUME TypeInv, NEW p \in Ticks, Ends(p)
  PROVE  TypeInv'
<1>1. /\ tick' = [tick EXCEPT ![p] = IdleTick]
      /\ UNCHANGED <<now, github, ticket, opened, turns, judged, woken>>
      /\ cursor' = cursor \/ cursor' = tick[p].position
  BY DEF Ends, PollFails, AdmitConflicts, SavePosition
<1>2. /\ tick' \in [Ticks -> TickRecords] /\ tick'[p] = IdleTick
      /\ \A q \in Ticks : q # p => tick'[q] = tick[q]
  BY <1>1, EndIs
<1>3. cursor' \in Positions /\ Len(cursor'.emitted) <= Remembered
  BY <1>1, TickIs DEF TypeInv, TypeOK, TickTyped
<1>4. TypeOK'
  BY <1>1, <1>2, <1>3 DEF TypeInv, TypeOK, github, turns, TickRecords
<1>5. QED
  BY <1>2, <1>4, IdleIs DEF TypeInv, TickTyped

LEMMA HandledTyped ==
  ASSUME TypeInv, NEW p \in Ticks,
         Ignore(p) \/ Admit(p) \/ \E g \in Triggers : Wake(p, g)
  PROVE  TypeInv'
<1>1. tick[p].batch # <<>> /\ Handled(p)
  BY DEF Ignore, Admit, Wake, TypeInv, TickTyped
<1>2. /\ tick' \in [Ticks -> TickRecords] /\ tick'[p].step = "judging"
      /\ tick'[p].position = tick[p].position
      /\ \A q \in Ticks : q # p => tick'[q] = tick[q]
      /\ NextTrigger(p) \in Triggers /\ judged' = judged \cup {NextTrigger(p)}
  BY <1>1, HandledIs
<1>3. /\ UNCHANGED <<now, github, begun, spoke, pull, resumed, reached, cursor>>
      /\ ticket' \in [Triggers -> {"absent", "open", "ended"}]
      /\ work' \in [Triggers -> Work]
      /\ opened' \in Seq(Triggers)
      /\ woken' \subseteq Triggers \X Triggers
  <2>1. CASE Ignore(p)
    BY <2>1 DEF Ignore, TypeInv, TypeOK, turns
  <2>2. CASE Admit(p)
    <3>1. UNCHANGED <<now, github, turns, cursor, woken>>
      BY <2>2 DEF Admit
    <3>2. \/ UNCHANGED <<ticket, opened>>
          \/ /\ ticket' = [ticket EXCEPT ![NextTrigger(p)] = "open"]
             /\ opened' = Append(opened, NextTrigger(p))
      BY <2>2 DEF Admit
    <3>3. opened \in Seq(Triggers) /\ Append(opened, NextTrigger(p)) \in Seq(Triggers)
      BY <1>2, AppendProperties DEF TypeInv, TypeOK
    <3>4. ticket \in [Triggers -> {"absent", "open", "ended"}]
      BY DEF TypeInv, TypeOK
    <3>5. /\ opened' \in Seq(Triggers)
          /\ ticket' \in [Triggers -> {"absent", "open", "ended"}]
      BY <3>2, <3>3, <3>4
    <3>6. QED
      BY <3>1, <3>5 DEF TypeInv, TypeOK, turns
  <2>3. ASSUME NEW g \in Triggers, Wake(p, g)
        PROVE  /\ UNCHANGED <<now, github, begun, spoke, pull, resumed, reached,
                              cursor, opened>>
               /\ ticket' \in [Triggers -> {"absent", "open", "ended"}]
               /\ work' \in [Triggers -> Work]
               /\ woken' \subseteq Triggers \X Triggers
    <3>1. /\ UNCHANGED <<now, github, opened, begun, spoke, pull, resumed, reached,
                          cursor>>
          /\ ticket' = [ticket EXCEPT ![g] = "open"]
          /\ \/ UNCHANGED <<work, woken>>
             \/ /\ work' = [work EXCEPT ![g] = "pending"]
                /\ woken' = woken \cup {<<NextTrigger(p), g>>}
      BY <2>3 DEF Wake
    <3>2. /\ ticket \in [Triggers -> {"absent", "open", "ended"}]
          /\ work \in [Triggers -> Work] /\ "pending" \in Work
          /\ woken \subseteq Triggers \X Triggers
      BY DEF TypeInv, TypeOK, Work
    <3>3. <<NextTrigger(p), g>> \in Triggers \X Triggers
      BY <1>2
    <3>4. QED
      BY <3>1, <3>2, <3>3
  <2>4. QED
    BY <2>1, <2>2, <2>3 DEF TypeInv, TypeOK
<1>4. TypeOK'
  BY <1>2, <1>3 DEF TypeInv, TypeOK, github, turns, TickRecords
<1>5. QED
  BY <1>2, <1>4 DEF TypeInv, TickTyped

(* What a step is, and what it leaves alone: for the proofs that follow.    *)
Crashing == Crash \/ \E p \in Ticks, g \in Triggers : CrashWhileWaking(p, g)
TickActs(p) ==
  \/ StartTick(p) \/ IsRead(p) \/ Decide(p) \/ Ends(p)
  \/ Ignore(p) \/ Admit(p) \/ \E g \in Triggers : Wake(p, g)
TurnActs(g) ==
  \/ Launch(g) \/ Resume(g) \/ BeginTurn(g) \/ PrepareFails(g)
  \/ \E outcome \in {"open", "ended"}, p \in Pulls \cup {NoPull} :
       FinishTurn(g, outcome, p)

LEMMA Steps ==
  ASSUME Next
  PROVE  \/ Advance \/ GitHubNext \/ Crashing
         \/ \E g \in Triggers : TurnActs(g)
         \/ \E p \in Ticks : TickActs(p)
  BY DEF Next, TickNext, IsRead, Ends, Crashing, TickActs, ExecutorNext, TurnActs

LEMMA GitHubLeaves ==
  ASSUME GitHubNext
  PROVE  UNCHANGED <<now, ticket, opened, turns, cursor, tick, judged, woken>>
  BY DEF GitHubNext, Label, TouchPull, Post

LEMMA TurnsLeave ==
  ASSUME NEW g \in Triggers, TurnActs(g)
  PROVE  UNCHANGED <<now, github, opened, cursor, tick, judged, woken>>
  BY DEF TurnActs, Launch, Resume, BeginTurn, PrepareFails, FinishTurn

LEMMA CrashLeaves ==
  ASSUME Crashing
  PROVE  /\ \A p \in Ticks : tick'[p] = IdleTick
         /\ UNCHANGED <<now, github, opened, spoke, pull, resumed, reached, cursor,
                        judged, woken>>
  BY DEF Crashing, Crash, CrashWhileWaking, Crashes

LEMMA TicksLeave ==
  ASSUME NEW p \in Ticks, TickActs(p)
  PROVE  UNCHANGED <<now, github, begun, spoke, pull, resumed, reached>>
<1>1. CASE IsRead(p)
  <2>1. PICK page \in SUBSET Triggers : \E s, next : Reads(p, page, s, next)
    BY <1>1, ReadIs
  <2>2. QED
    BY <2>1 DEF Reads, TakeIn, turns
<1>2. CASE Ends(p)
  BY <1>2 DEF Ends, PollFails, AdmitConflicts, SavePosition, turns
<1>3. CASE \E g \in Triggers : Wake(p, g)
  BY <1>3 DEF Wake
<1>4. QED
  BY <1>1, <1>2, <1>3 DEF TickActs, StartTick, Decide, Ignore, Admit, turns

LEMMA TurnTyped ==
  ASSUME TypeInv, NEW g \in Triggers, TurnActs(g)
  PROVE  TypeInv'
<1>1. UNCHANGED <<now, github, opened, cursor, tick, judged, woken>>
  BY TurnsLeave
<1> DEFINE RowsTyped ==
             /\ ticket \in [Triggers -> {"absent", "open", "ended"}]
             /\ work \in [Triggers -> Work]
             /\ begun \in [Triggers -> Times] /\ spoke \in [Triggers -> Times]
             /\ pull \in [Triggers -> Pulls \cup {NoPull}]
             /\ resumed \subseteq Triggers /\ reached \subseteq Messages
<1>2. RowsTyped'
  <2>1. CASE Launch(g)
    BY <2>1 DEF Launch, TypeInv, TypeOK, Work
  <2>2. CASE Resume(g)
    BY <2>2 DEF Resume, TypeInv, TypeOK, Work
  <2>3. CASE BeginTurn(g)
    BY <2>3 DEF BeginTurn, Reaches, TypeInv, TypeOK, Work
  <2>4. CASE PrepareFails(g)
    BY <2>4 DEF PrepareFails, Reaches, TypeInv, TypeOK, Work
  <2>5. ASSUME NEW outcome \in {"open", "ended"}, NEW p \in Pulls \cup {NoPull},
               FinishTurn(g, outcome, p)
        PROVE  RowsTyped'
    BY <2>5, ConstantsAre DEF FinishTurn, TypeInv, TypeOK, Work
  <2>6. QED
    BY <2>1, <2>2, <2>3, <2>4, <2>5 DEF TurnActs
<1>3. TypeOK'
  BY <1>1, <1>2 DEF TypeInv, TypeOK, github
<1>4. QED
  BY <1>1, <1>3 DEF TypeInv, TickTyped

LEMMA CrashTyped ==
  ASSUME TypeInv, Crashing
  PROVE  TypeInv'
<1>1. /\ Crashes
      /\ ticket' \in [Triggers -> {"absent", "open", "ended"}]
  BY DEF Crashing, Crash, CrashWhileWaking, TypeInv, TypeOK
<1>2. /\ tick' \in [Ticks -> TickRecords] /\ \A p \in Ticks : tick'[p] = IdleTick
      /\ begun' \in [Triggers -> Times]
  BY <1>1, IdleIs, ConstantsAre DEF Crashes
<1>3. work' \in [Triggers -> Work]
  <2> DEFINE next(g) == CASE work[g] = "running"  -> "stranded"
                          [] work[g] = "launched" -> "pending"
                          [] OTHER                -> work[g]
  <2>1. ASSUME NEW g \in Triggers PROVE next(g) \in Work
    BY DEF TypeInv, TypeOK, Work
  <2>2. work' = [g \in Triggers |-> next(g)]
    BY <1>1 DEF Crashes
  <2> HIDE DEF next
  <2>3. QED
    BY <2>1, <2>2
<1>4. UNCHANGED <<now, github, opened, spoke, pull, resumed, reached, cursor,
                  judged, woken>>
  BY <1>1 DEF Crashes
<1>5. TypeOK'
  BY <1>1, <1>2, <1>3, <1>4 DEF TypeInv, TypeOK, github, TickRecords
<1>6. QED
  BY <1>2, <1>5, IdleIs DEF TypeInv, TickTyped

LEMMA TypeInit ==
  ASSUME Init
  PROVE  TypeInv
<1>1. /\ cursor = Start /\ tick = [p \in Ticks |-> IdleTick] /\ opened = <<>>
      /\ IdleTick \in TickRecords /\ cursor = IdleTick.position
  BY IdleIs DEF Init, IdleTick
<1>2. cursor \in Positions /\ Len(cursor.emitted) <= Remembered
  BY <1>1, IdleIs DEF TickRecords
<1>3. tick \in [Ticks -> TickRecords] /\ \A p \in Ticks : tick[p] = IdleTick
  BY <1>1
<1>4. Unwritten \in [thread : Threads \cup {NoPull}, at : Times,
                     found : {"none", "busy", "quiet"}]
  BY ConstantsAre DEF Unwritten
<1>5. TypeOK
  BY <1>1, <1>2, <1>3, <1>4, ConstantsAre, EmptySeq
     DEF Init, TypeOK, Work, TickRecords
<1>6. QED
  BY <1>3, <1>5, IdleIs DEF TypeInv, TickTyped

LEMMA TypeStep ==
  ASSUME TypeInv, [Next]_vars
  PROVE  TypeInv'
<1>1. CASE Advance
  <2>1. now' \in Times
    BY <1>1, ConstantsAre DEF Advance, TypeInv, TypeOK, Times
  <2>2. UNCHANGED <<github, ticket, opened, turns, cursor, tick, judged, woken>>
    BY <1>1 DEF Advance
  <2>3. TypeOK'
    BY <2>1, <2>2 DEF TypeInv, TypeOK, github, turns
  <2>4. QED
    BY <2>2, <2>3 DEF TypeInv, TickTyped
<1>2. CASE GitHubNext
  BY <1>2, GitHubTyped
<1>3. CASE \E g \in Triggers : TurnActs(g)
  BY <1>3, TurnTyped
<1>4. CASE Crashing
  BY <1>4, CrashTyped
<1>5. ASSUME NEW p \in Ticks, TickActs(p) PROVE TypeInv'
  <2>1. CASE StartTick(p)
    <3>1. /\ tick' \in [Ticks -> TickRecords]
          /\ \A q \in Ticks : q # p => tick'[q] = tick[q]
          /\ tick'[p].step = "issues" /\ tick'[p].position = cursor
      BY <2>1, StartIs
    <3>2. UNCHANGED <<now, github, ticket, opened, turns, cursor, judged, woken>>
      BY <2>1 DEF StartTick
    <3>3. TypeOK'
      BY <3>1, <3>2 DEF TypeInv, TypeOK, github, turns, TickRecords
    <3>4. Len(tick'[p].position.emitted) <= Remembered
      BY <3>1 DEF TypeInv, TypeOK
    <3>5. QED
      BY <3>1, <3>3, <3>4 DEF TypeInv, TickTyped
  <2>2. CASE Decide(p)
    <3>1. /\ tick' \in [Ticks -> TickRecords]
          /\ \A q \in Ticks : q # p => tick'[q] = tick[q]
          /\ tick[p].batch # <<>> /\ tick'[p].batch = tick[p].batch
          /\ tick'[p].position = tick[p].position
      BY <2>2, DecideIs
    <3>2. UNCHANGED <<now, github, ticket, opened, turns, cursor, judged, woken>>
      BY <2>2 DEF Decide
    <3>3. TypeOK'
      BY <3>1, <3>2 DEF TypeInv, TypeOK, github, turns, TickRecords
    <3>4. QED
      BY <3>1, <3>3 DEF TypeInv, TickTyped
  <2>3. QED
    BY <1>5, <2>1, <2>2, ReadTyped, EndTyped, HandledTyped DEF TickActs
<1>6. CASE UNCHANGED vars
  <2>1. TypeOK'
    BY <1>6 DEF vars, github, turns, TypeInv, TypeOK
  <2>2. QED
    BY <1>6, <2>1 DEF vars, TypeInv, TickTyped
<1>7. QED
  BY <1>1, <1>2, <1>3, <1>4, <1>5, <1>6, Steps

(* Every variable keeps its type, and no position remembers more triggers   *)
(* than it may: whatever two ticks, a crash, or a failed request leave.     *)
THEOREM TypeCorrect == Spec => []TypeOK
<1>1. Init => TypeInv
  BY TypeInit
<1>2. TypeInv /\ [Next]_vars => TypeInv'
  BY TypeStep
<1>3. TypeInv => TypeOK
  BY DEF TypeInv
<1>4. QED
  BY <1>1, <1>2, <1>3, PTL DEF Spec

-----------------------------------------------------------------------------
(* What is remembered as emitted was handled.                               *)

(* A tick remembers more than what was handled: its batch still to come.    *)
EmittedInv ==
  /\ Elements(cursor.emitted) \subseteq judged
  /\ \A p \in Ticks :
       Elements(tick[p].position.emitted) \subseteq judged \cup Waiting(p)

(* Steps of GitHub, the executor and time leave the ticks alone.            *)
TicksRest == UNCHANGED <<cursor, tick, judged>>

LEMMA RestIs ==
  ASSUME Advance \/ GitHubNext \/ UNCHANGED vars \/ \E g \in Triggers : TurnActs(g)
  PROVE  TicksRest
  BY GitHubLeaves, TurnsLeave DEF Advance, vars, TicksRest

LEMMA EmittedStep ==
  ASSUME TypeInv, [Next]_vars, EmittedInv
  PROVE  EmittedInv'
<1>1. CASE TicksRest
  BY <1>1 DEF TicksRest, EmittedInv, Waiting
<1>2. CASE Crashing
  BY <1>2, CrashLeaves, IdleIs DEF EmittedInv
<1>3. ASSUME NEW p \in Ticks, StartTick(p) PROVE EmittedInv'
  <2>1. /\ UNCHANGED <<cursor, judged>> /\ tick'[p].position = cursor
        /\ \A q \in Ticks : q # p => tick'[q] = tick[q]
    BY <1>3, StartIs DEF StartTick
  <2>2. QED
    BY <2>1 DEF EmittedInv, Waiting
<1>4. ASSUME NEW p \in Ticks, Decide(p) PROVE EmittedInv'
  <2>1. /\ UNCHANGED <<cursor, judged>> /\ tick'[p].position = tick[p].position
        /\ Waiting(p)' = Waiting(p)
        /\ \A q \in Ticks : q # p => tick'[q] = tick[q]
    BY <1>4, DecideIs DEF Decide
  <2>2. \A q \in Ticks : q # p => Waiting(q)' = Waiting(q)
    BY <2>1 DEF Waiting
  <2>3. QED
    BY <2>1, <2>2 DEF EmittedInv
<1>5. ASSUME NEW p \in Ticks, IsRead(p) PROVE EmittedInv'
  <2>1. PICK page \in SUBSET Triggers : \E s, next : Reads(p, page, s, next)
    BY <1>5, ReadIs
  <2>2. PICK s, next : Reads(p, page, s, next)
    BY <2>1
  <2>3. TakeIn(p, s, next)
    BY <2>2 DEF Reads
  <2>4. /\ \A q \in Ticks : q # p => tick'[q] = tick[q]
        /\ Elements(tick'[p].position.emitted) \subseteq
             Elements(tick[p].position.emitted) \cup Elements(s)
        /\ Waiting(p)' = Waiting(p) \cup Elements(s)
    <3>1. Takes(p, page, s, next)
      BY <2>2, ReadTakes
    <3>2. QED
      BY <3>1 DEF Takes
  <2>5. UNCHANGED <<cursor, judged>>
    BY <2>3 DEF TakeIn
  <2>6. \A q \in Ticks : q # p => Waiting(q)' = Waiting(q)
    BY <2>4 DEF Waiting
  <2>7. QED
    BY <2>4, <2>5, <2>6 DEF EmittedInv
<1>6. ASSUME NEW p \in Ticks, Ends(p) PROVE EmittedInv'
  <2>1. /\ tick' = [tick EXCEPT ![p] = IdleTick] /\ UNCHANGED judged
        /\ \/ cursor' = cursor
           \/ cursor' = tick[p].position /\ tick[p].batch = <<>>
    BY <1>6 DEF Ends, PollFails, AdmitConflicts, SavePosition
  <2>2. /\ tick'[p] = IdleTick
        /\ \A q \in Ticks : q # p => tick'[q] = tick[q]
    BY <2>1, EndIs
  <2>3. Elements(cursor'.emitted) \subseteq judged'
    BY <2>1, NothingIn DEF EmittedInv, Waiting
  <2>4. \A q \in Ticks : q # p => Waiting(q)' = Waiting(q)
    BY <2>2 DEF Waiting
  <2>5. QED
    BY <2>1, <2>2, <2>3, <2>4, IdleIs DEF EmittedInv
<1>7. ASSUME NEW p \in Ticks,
             Ignore(p) \/ Admit(p) \/ \E g \in Triggers : Wake(p, g)
      PROVE  EmittedInv'
  <2>1. tick[p].batch # <<>> /\ Handled(p) /\ UNCHANGED cursor
    BY <1>7 DEF Ignore, Admit, Wake, TypeInv, TickTyped
  <2>2. /\ tick'[p].position = tick[p].position
        /\ \A q \in Ticks : q # p => tick'[q] = tick[q]
        /\ Waiting(p) = {NextTrigger(p)} \cup Waiting(p)'
        /\ judged' = judged \cup {NextTrigger(p)}
    BY <2>1, HandledIs
  <2>3. \A q \in Ticks : q # p => Waiting(q)' = Waiting(q)
    BY <2>2 DEF Waiting
  <2>4. QED
    BY <2>1, <2>2, <2>3 DEF EmittedInv
<1>8. QED
  BY <1>1, <1>2, <1>3, <1>4, <1>5, <1>6, <1>7, RestIs, Steps DEF TickActs

LEMMA EmittedInit ==
  ASSUME Init
  PROVE  EmittedInv
<1>1. cursor = Start /\ tick = [p \in Ticks |-> IdleTick] /\ cursor = IdleTick.position
  BY DEF Init, IdleTick
<1>2. QED
  BY <1>1, IdleIs DEF EmittedInv

LEMMA EmittedIsHandled == EmittedInv => EmittedWasHandled
  BY DEF EmittedInv, EmittedWasHandled, Elements

(* What the saved position remembers as emitted was handled by some tick,   *)
(* though the other tick's position replaces it and a crash cuts one short. *)
THEOREM RememberedWasHandled == Spec => []EmittedWasHandled
<1>1. Init => TypeInv /\ EmittedInv
  BY TypeInit, EmittedInit
<1>2. TypeInv /\ EmittedInv /\ [Next]_vars => (TypeInv /\ EmittedInv)'
  BY TypeStep, EmittedStep
<1>3. TypeInv /\ EmittedInv => EmittedWasHandled
  BY EmittedIsHandled
<1>4. QED
  BY <1>1, <1>2, <1>3, PTL DEF Spec

-----------------------------------------------------------------------------
(* What GitHub has only grows, and is dated.                                *)

IsDated(m) ==
  /\ 1 <= message[m].at
  /\ message[m].thread \in Threads /\ message[m].at <= touched[message[m].thread]
  /\ m \in Reviews => message[m].thread \in Pulls
TimesInv ==
  /\ now >= 1
  /\ \A x \in Threads : touched[x] <= now
  /\ \A m \in Messages : message[m].at <= now /\ (IsWritten(m) => IsDated(m))
  /\ \A g \in Triggers : spoke[g] <= now

LEMMA GitHubRests ==
  ASSUME Next, ~GitHubNext
  PROVE  UNCHANGED github
  BY Steps, TurnsLeave, CrashLeaves, TicksLeave DEF Advance

LEMMA GitHubSame ==
  ASSUME UNCHANGED github
  PROVE  \A g : /\ At(g)' = At(g) /\ ThreadOf(g)' = ThreadOf(g)
                /\ IsWritten(g)' = IsWritten(g) /\ IsVisible(g)' = IsVisible(g)
  BY DEF github, At, ThreadOf, IsWritten, IsVisible

(* What was written stays as it is, but an issue is touched again; what is  *)
(* new or touched has the time of the step.                                 *)
GitHubKept ==
  /\ \A g \in Triggers :
       /\ IsWritten(g) => author'[g] = author[g] /\ ThreadOf(g)' = ThreadOf(g)
       /\ author'[g] # author[g] \/ At(g)' # At(g) => At(g)' = now
       /\ author'[g] # author[g] => ~IsWritten(g)
  /\ \A m \in Messages : IsWritten(m) => message'[m] = message[m]

LEMMA GitHubGrows ==
  ASSUME TypeInv, [Next]_vars
  PROVE  GitHubKept
<1>1. CASE UNCHANGED github
  <2>1. \A m \in Messages : message'[m] = message[m]
    BY <1>1 DEF github
  <2>2. \A g \in Triggers : author'[g] = author[g]
    BY <1>1 DEF github
  <2>3. QED
    BY <1>1, <2>1, <2>2, GitHubSame DEF GitHubKept
<1>2. ASSUME NEW x \in Issues, NEW by \in Authors[x], Label(x, by)
      PROVE  GitHubKept
  <2>1. /\ x \in Triggers /\ x \in Threads /\ ~IsWritten(x)
        /\ author' = [author EXCEPT ![x] = by]
        /\ touched' = [touched EXCEPT ![x] = now] /\ message' = message
    BY <1>2, ConstantsAre DEF Label
  <2>2. ASSUME NEW g \in Triggers
        PROVE  /\ ThreadOf(g)' = ThreadOf(g)
               /\ g # x => author'[g] = author[g]
               /\ g # x => At(g)' = At(g)
               /\ g = x => At(g)' = now
    BY <2>1, ConstantsAre DEF ThreadOf, At, TypeInv, TypeOK
  <2>3. QED
    BY <2>1, <2>2 DEF GitHubKept
<1>3. ASSUME NEW m \in Messages, NEW x \in Threads, NEW by \in Authors[m],
             Post(m, x, by)
      PROVE  GitHubKept
  <2>1. /\ m \in Triggers /\ m \notin Issues /\ ~IsWritten(m)
        /\ author' = [author EXCEPT ![m] = by]
        /\ message' = [message EXCEPT ![m] =
                         [thread |-> x, at |-> now, found |-> Found(x)]]
        /\ touched' = [touched EXCEPT ![x] = now]
    BY <1>3, ConstantsAre DEF Post
  <2>2. ASSUME NEW g \in Triggers
        PROVE  /\ g # m => ThreadOf(g)' = ThreadOf(g) /\ author'[g] = author[g]
               /\ At(g)' = At(g) \/ At(g)' = now
               /\ g = m => At(g)' = now
    <3>1. CASE g \in Issues
      BY <2>1, <3>1, ConstantsAre DEF ThreadOf, At, TypeInv, TypeOK
    <3>2. CASE g \in Messages
      BY <2>1, <3>2, ConstantsAre DEF ThreadOf, At, TypeInv, TypeOK
    <3>3. QED
      BY <3>1, <3>2, ConstantsAre
  <2>3. \A n \in Messages : n # m => message'[n] = message[n]
    BY <2>1 DEF TypeInv, TypeOK
  <2>4. QED
    BY <2>1, <2>2, <2>3 DEF GitHubKept
<1>4. ASSUME NEW x \in Pulls, TouchPull(x) PROVE GitHubKept
  <2>1. /\ author' = author /\ message' = message /\ x \notin Issues
        /\ touched' = [touched EXCEPT ![x] = now]
    BY <1>4, ConstantsAssumption DEF TouchPull
  <2>2. ASSUME NEW g \in Triggers
        PROVE  ThreadOf(g)' = ThreadOf(g) /\ At(g)' = At(g)
    BY <2>1, ConstantsAre DEF ThreadOf, At, TypeInv, TypeOK
  <2>3. QED
    BY <2>1, <2>2 DEF GitHubKept
<1>5. QED
  BY <1>1, <1>2, <1>3, <1>4, GitHubRests DEF GitHubNext, vars

LEMMA PullsAreThreads ==
  ASSUME TypeInv, NEW m \in Messages, NEW x \in Threads, NEW by, MayWrite(m, x, by),
         m \in Reviews
  PROVE  x \in Pulls
  BY ConstantsAre, ConstantsAssumption DEF MayWrite, Existing

LEMMA TimesStep ==
  ASSUME TypeInv, TimesInv, [Next]_vars
  PROVE  TimesInv'
<1>1. /\ now \in Nat /\ now' \in Nat /\ now' >= now /\ now >= 1
      /\ UNCHANGED github \/ now' = now
  <2>1. now' \in Times
    BY TypeStep DEF TypeInv, TypeOK
  <2>2. CASE Advance
    BY <2>1, <2>2, ConstantsAre DEF Advance, TypeInv, TypeOK, TimesInv
  <2>3. CASE ~Advance
    <3>1. now' = now
      BY <2>3, Steps, GitHubLeaves, TurnsLeave, CrashLeaves, TicksLeave DEF vars
    <3>2. QED
      BY <3>1, ConstantsAre DEF TypeInv, TypeOK, TimesInv
  <2>4. QED
    BY <2>2, <2>3 DEF Advance
<1>2. ASSUME NEW g \in Triggers PROVE spoke'[g] <= now'
  <2>1. spoke[g] \in Nat /\ spoke[g] <= now
    BY TimesOf DEF TypeInv, TimesInv
  <2>2. ASSUME NEW h \in Triggers, TurnActs(h)
        PROVE  spoke' = spoke \/ spoke' = [spoke EXCEPT ![h] = now]
    BY <2>2 DEF TurnActs, Launch, Resume, BeginTurn, PrepareFails, FinishTurn
  <2>3. spoke' = spoke \/ \E h \in Triggers : spoke' = [spoke EXCEPT ![h] = now]
    BY <2>2, Steps, GitHubLeaves, CrashLeaves, TicksLeave DEF Advance, turns, vars
  <2>4. spoke'[g] = spoke[g] \/ spoke'[g] = now
    BY <2>3 DEF TypeInv, TypeOK
  <2>5. QED
    BY <1>1, <2>1, <2>4
<1>3. ASSUME UNCHANGED github PROVE TimesInv'
  <2>1. /\ \A x \in Threads : touched[x] \in Nat
        /\ \A m \in Messages : message[m].at \in Nat
    BY ConstantsAre DEF TypeInv, TypeOK
  <2>2. \A x \in Threads : touched'[x] <= now'
    BY <1>1, <1>3, <2>1 DEF github, TimesInv
  <2>3. \A m \in Messages : message'[m].at <= now'
    BY <1>1, <1>3, <2>1 DEF github, TimesInv
  <2>4. \A m \in Messages : IsWritten(m)' => IsDated(m)'
    BY <1>3 DEF github, TimesInv, IsWritten, IsDated
  <2>5. QED
    BY <1>1, <1>2, <2>2, <2>3, <2>4 DEF TimesInv
<1>4. ASSUME NEW x \in Issues, NEW by \in Authors[x], Label(x, by)
      PROVE  TimesInv'
  <2>1. /\ author' = [author EXCEPT ![x] = by] /\ now' = now
        /\ touched' = [touched EXCEPT ![x] = now] /\ message' = message
    BY <1>4 DEF Label
  <2>2. ASSUME NEW y \in Threads
        PROVE  /\ touched'[y] <= now /\ touched[y] <= touched'[y]
               /\ touched[y] \in Nat /\ touched'[y] \in Nat
    <3>1. touched[y] \in Nat /\ touched[y] <= now
      BY ConstantsAre DEF TypeInv, TypeOK, TimesInv
    <3>2. touched'[y] = IF y = x THEN now ELSE touched[y]
      BY <2>1 DEF TypeInv, TypeOK
    <3>3. QED
      BY <1>1, <3>1, <3>2
  <2>3. ASSUME NEW m \in Messages PROVE IsWritten(m)' => IsDated(m)'
    <3>1. m # x
      BY ConstantsAre
    <3>2. IsWritten(m)' = IsWritten(m)
      BY <2>1, <3>1, ConstantsAre DEF IsWritten, TypeInv, TypeOK
    <3>3. SUFFICES ASSUME IsWritten(m) PROVE IsDated(m)'
      BY <3>2
    <3>4. message[m].at \in Nat /\ IsDated(m) /\ message'[m] = message[m]
      BY <2>1, <3>2, <3>3, ConstantsAre DEF TypeInv, TypeOK, TimesInv
    <3>5. message[m].at <= touched'[message[m].thread]
      BY <2>2, <3>4 DEF IsDated
    <3>6. QED
      BY <3>4, <3>5 DEF IsDated
  <2>4. QED
    BY <1>1, <1>2, <2>1, <2>2, <2>3 DEF TimesInv
<1>5. ASSUME NEW m \in Messages, NEW x \in Threads, NEW by \in Authors[m],
             Post(m, x, by)
      PROVE  TimesInv'
  <2>1. /\ m \in Triggers /\ author' = [author EXCEPT ![m] = by] /\ now' = now
        /\ message' = [message EXCEPT ![m] =
                         [thread |-> x, at |-> now, found |-> Found(x)]]
        /\ touched' = [touched EXCEPT ![x] = now]
        /\ m \in Reviews => x \in Pulls
    BY <1>5, ConstantsAre, PullsAreThreads DEF Post
  <2>2. ASSUME NEW y \in Threads
        PROVE  /\ touched'[y] <= now /\ touched[y] <= touched'[y]
               /\ touched[y] \in Nat /\ touched'[y] \in Nat
    <3>1. touched[y] \in Nat /\ touched[y] <= now
      BY ConstantsAre DEF TypeInv, TypeOK, TimesInv
    <3>2. touched'[y] = IF y = x THEN now ELSE touched[y]
      BY <2>1 DEF TypeInv, TypeOK
    <3>3. QED
      BY <1>1, <3>1, <3>2
  <2>3. /\ message'[m].thread = x /\ message'[m].at = now /\ touched'[x] = now
        /\ \A n \in Messages : n # m => message'[n] = message[n]
    BY <2>1 DEF TypeInv, TypeOK
  <2>4. IsDated(m)'
    BY <1>1, <2>1, <2>3 DEF IsDated
  <2>5. ASSUME NEW n \in Messages, n # m PROVE IsWritten(n)' => IsDated(n)'
    <3>1. IsWritten(n)' = IsWritten(n) /\ message'[n] = message[n]
      BY <2>1, <2>3, <2>5, ConstantsAre DEF IsWritten, TypeInv, TypeOK
    <3>2. SUFFICES ASSUME IsWritten(n) PROVE IsDated(n)'
      BY <3>1
    <3>3. message[n].at \in Nat /\ IsDated(n) /\ message'[n] = message[n]
      BY <2>1, <3>1, <3>2, ConstantsAre DEF TypeInv, TypeOK, TimesInv
    <3>4. message[n].at <= touched'[message[n].thread]
      BY <2>2, <3>3 DEF IsDated
    <3>5. QED
      BY <3>3, <3>4 DEF IsDated
  <2>6. \A n \in Messages : message'[n].at <= now
    BY <1>1, <2>3 DEF TimesInv
  <2>7. QED
    BY <1>1, <1>2, <2>1, <2>2, <2>4, <2>5, <2>6 DEF TimesInv
<1>6. ASSUME NEW x \in Pulls, TouchPull(x) PROVE TimesInv'
  <2>1. /\ UNCHANGED <<author, message>> /\ now' = now /\ x \in Threads
        /\ touched' = [touched EXCEPT ![x] = now]
    BY <1>6, ConstantsAre DEF TouchPull
  <2>2. ASSUME NEW y \in Threads
        PROVE  /\ touched'[y] <= now /\ touched[y] <= touched'[y]
               /\ touched[y] \in Nat /\ touched'[y] \in Nat
    <3>1. touched[y] \in Nat /\ touched[y] <= now
      BY ConstantsAre DEF TypeInv, TypeOK, TimesInv
    <3>2. touched'[y] = IF y = x THEN now ELSE touched[y]
      BY <2>1 DEF TypeInv, TypeOK
    <3>3. QED
      BY <1>1, <3>1, <3>2
  <2>3. ASSUME NEW m \in Messages, IsWritten(m)' PROVE IsDated(m)'
    <3>1. message[m].at \in Nat /\ IsDated(m)
      BY <2>1, <2>3, ConstantsAre DEF TypeInv, TypeOK, TimesInv, IsWritten
    <3>2. message[m].at <= touched'[message[m].thread]
      BY <2>2, <3>1 DEF IsDated
    <3>3. QED
      BY <2>1, <3>1, <3>2 DEF IsDated
  <2>4. QED
    BY <1>1, <1>2, <2>1, <2>2, <2>3 DEF TimesInv
<1>7. QED
  BY <1>3, <1>4, <1>5, <1>6, GitHubRests DEF GitHubNext, vars

LEMMA TimesInit ==
  ASSUME Init
  PROVE  TimesInv
  BY ConstantsAre DEF Init, TimesInv, IsWritten, Unwritten, Never

-----------------------------------------------------------------------------
(* The position does not read past what nobody handled.                     *)

(* The code asks for a hundred of each feed and reads a minute back.        *)
FeedsFit  == \A F \in {Issues, Comments, Reviews} : Cardinality(F) <= Page
PollsInOverlap == PollTime <= Overlap

(* The feeds a tick has read by this step.                                  *)
FeedsRead(step) ==
  CASE step \in {"idle", "issues"} -> {}
    [] step = "comments" -> Issues
    [] step = "reviews" -> Issues \cup Comments
    [] OTHER -> Triggers

(* What was there when the tick asked is handled: what is older than since  *)
(* it was then, and the rest once its feed was read or is about to be.      *)
IsHandled(p, g) == g \in judged \cup Waiting(p)
PollIsTimely(p) ==
  /\ tick[p].since <= tick[p].asked /\ tick[p].asked <= now
  /\ tick[p].step \in {"issues", "comments", "reviews"} =>
       now <= tick[p].asked + PollTime
  /\ tick[p].position.watermark <= now
  /\ tick[p].position.watermark <= tick[p].asked + PollTime
PollIsComplete(p) ==
  /\ \A g \in Triggers : IsVisible(g) /\ At(g) < tick[p].since => g \in judged
  /\ \A g \in FeedsRead(tick[p].step) :
       IsVisible(g) /\ At(g) < tick[p].asked => IsHandled(p, g)
PositionInv ==
  /\ cursor.watermark <= now /\ NothingPassedOver
  /\ \A p \in Ticks :
       tick[p].step # "idle" => PollIsTimely(p) /\ PollIsComplete(p)

LEMMA FeedsAre ==
  ASSUME NEW step
  PROVE  FeedsRead(step) \subseteq Triggers
  BY DEF FeedsRead, Triggers, Messages

LEMMA PageIsAll ==
  ASSUME FeedsFit, NEW F \in {Issues, Comments, Reviews}, NEW S \in SUBSET F,
         NEW page \in FirstPages(S)
  PROVE  page = S
<1>1. IsFiniteSet(F) /\ Cardinality(F) <= Page /\ Page \in Nat
  <2>1. F \in SUBSET Triggers
    BY DEF Triggers, Messages
  <2>2. QED
    BY <2>1, FS_Subset, ConstantsAre, ConstantsAssumption DEF FeedsFit
<1>2. /\ IsFiniteSet(S) /\ Cardinality(S) <= Cardinality(F)
      /\ Cardinality(S) \in Nat /\ Cardinality(F) \in Nat
  BY <1>1, FS_Subset, FS_CardinalityType
<1>3. page \in SUBSET S /\ Cardinality(page) = Cardinality(S)
  BY <1>1, <1>2 DEF FirstPages
<1>4. QED
  BY <1>2, <1>3, FS_Subset

(* A listing has all the pull requests to read reviews of, if they are no   *)
(* more than it may have: were one of them left out, it would be full of    *)
(* others touched since as well.                                            *)
LEMMA ListingHas ==
  ASSUME TypeInv, NEW p \in Ticks, Cardinality(Reviewed(p)) <= Listed,
         NEW P \in Listings
  PROVE  Reviewed(p) \subseteq P
<1>1. /\ P \subseteq Existing /\ Reviewed(p) \subseteq Existing
      /\ IsFiniteSet(Existing) /\ Listed \in Nat
      /\ \A x \in Existing : touched[x] \in Nat
  <2>1. Existing \subseteq Pulls /\ IsFiniteSet(Pulls) /\ Listed \in Nat
    BY ConstantsAssumption DEF Existing
  <2>2. IsFiniteSet(Existing)
    BY <2>1, FS_Subset
  <2>3. P \subseteq Existing /\ Reviewed(p) \subseteq Existing
    BY DEF Listings, Reviewed
  <2>4. QED
    BY <2>1, <2>2, <2>3, ConstantsAre DEF TypeInv, TypeOK
<1>2. /\ IsFiniteSet(P) /\ Cardinality(P) \in Nat
      /\ IsFiniteSet(Reviewed(p)) /\ Cardinality(Reviewed(p)) \in Nat
      /\ Cardinality(Existing) \in Nat
  BY <1>1, FS_Subset, FS_CardinalityType
<1>3. SUFFICES ASSUME NEW y \in Reviewed(p), y \notin P PROVE FALSE
  OBVIOUS
<1>4. y \in Existing /\ touched[y] >= tick[p].since /\ tick[p].since \in Nat
  BY <1>3, TickIs DEF Reviewed, TypeInv
<1>5. \A x \in P : touched[x] >= touched[y]
  BY <1>3, <1>4 DEF Listings
<1>6. P \cup {y} \subseteq Reviewed(p)
  <2>1. \A x \in P : touched[x] >= tick[p].since
    BY <1>1, <1>4, <1>5
  <2>2. QED
    BY <1>1, <1>3, <2>1 DEF Reviewed
<1>7. Cardinality(P \cup {y}) = Cardinality(P) + 1
  BY <1>2, <1>3, FS_AddElement
<1>8. Cardinality(P) + 1 <= Cardinality(Reviewed(p))
  BY <1>2, <1>6, <1>7, FS_Subset
<1>9. P \cup {y} \subseteq Existing /\ Cardinality(P) + 1 <= Cardinality(Existing)
  <2>1. P \cup {y} \subseteq Existing
    BY <1>1, <1>4
  <2>2. QED
    BY <1>1, <1>7, <2>1, FS_Subset
<1>10. Cardinality(P) = IF Cardinality(Existing) < Listed
                       THEN Cardinality(Existing) ELSE Listed
  BY DEF Listings
<1>11. QED
  BY <1>1, <1>2, <1>8, <1>9, <1>10

(* A page has all that its feed was asked for.                              *)
FeedOf(step) == CASE step = "issues" -> Issues [] step = "comments" -> Comments
                  [] step = "reviews" -> Reviews
LEMMA PageHas ==
  ASSUME TypeInv, TimesInv, FeedsFit, PullsFit,
         NEW p \in Ticks, NEW page, NEW s, NEW next,
         Reads(p, page, s, next), NEW g \in FeedOf(tick[p].step),
         IsWritten(g), At(g) >= tick[p].since
  PROVE  g \in page
<1>1. CASE tick[p].step = "issues"
  <2>1. page \in FirstPages({x \in Issues : IsWritten(x) /\ At(x) >= tick[p].since})
    BY <1>1 DEF Reads
  <2>2. page = {x \in Issues : IsWritten(x) /\ At(x) >= tick[p].since}
    BY <2>1, PageIsAll
  <2>3. QED
    BY <1>1, <2>2 DEF FeedOf
<1>2. CASE tick[p].step = "comments"
  <2>1. page \in FirstPages({m \in Comments : IsWritten(m) /\ At(m) >= tick[p].since})
    BY <1>2 DEF Reads
  <2>2. page = {m \in Comments : IsWritten(m) /\ At(m) >= tick[p].since}
    BY <2>1, PageIsAll
  <2>3. QED
    BY <1>2, <2>2 DEF FeedOf
<1>3. CASE tick[p].step = "reviews"
  <2> DEFINE x == message[g].thread
  <2>1. g \in Reviews /\ g \in Messages /\ g \notin Issues
    BY <1>3, ConstantsAre DEF FeedOf, Messages
  <2>2. /\ x \in Pulls /\ message[g].at <= touched[x] /\ At(g) = message[g].at
        /\ message[g].at \in Nat /\ touched[x] \in Nat /\ ThreadOf(g) = x
    BY <2>1, ConstantsAre DEF TimesInv, IsDated, TypeInv, TypeOK, At, ThreadOf
  <2>3. x \in Reviewed(p)
    <3>1. tick[p].since \in Nat
      BY TickIs DEF TypeInv
    <3>2. touched[x] >= tick[p].since
      BY <2>2, <3>1
    <3>3. touched[x] # Never
      BY <2>1, <2>2 DEF TimesInv, IsDated, Never
    <3>4. QED
      BY <2>2, <3>2, <3>3 DEF Reviewed, Existing
  <2>4. page \cap ReviewsOf(x) \in FirstPages(ReviewsOf(x))
    <3>1. PICK P : ReviewPage(p, page, P)
      BY <1>3 DEF Reads
    <3>2. Reviewed(p) \subseteq P
      BY <1>3, <3>1, ListingHas DEF PullsFit, ReviewPage
    <3>3. QED
      BY <2>3, <3>1, <3>2 DEF ReviewPage
  <2>5. ReviewsOf(x) \in SUBSET Reviews /\ g \in ReviewsOf(x)
    BY <2>1, <2>2 DEF ReviewsOf
  <2>6. page \cap ReviewsOf(x) = ReviewsOf(x)
    BY <2>4, <2>5, PageIsAll
  <2>7. QED
    BY <2>5, <2>6
<1>4. QED
  BY <1>1, <1>2, <1>3 DEF Reads

LEMMA AtIsPast ==
  ASSUME TypeInv, TimesInv, NEW g \in Triggers
  PROVE  At(g) <= now
  BY ConstantsAre DEF At, TimesInv

(* Ticks that a step leaves alone.                                          *)
LEMMA OthersAgree ==
  ASSUME TypeInv, [Next]_vars, UNCHANGED <<now, github>>, judged \subseteq judged',
         NEW q \in Ticks, tick'[q] = tick[q],
         tick[q].step # "idle" => PollIsTimely(q) /\ PollIsComplete(q)
  PROVE  tick'[q].step # "idle" => PollIsTimely(q)' /\ PollIsComplete(q)'
<1>1. SUFFICES ASSUME tick[q].step # "idle"
               PROVE  PollIsTimely(q)' /\ PollIsComplete(q)'
  OBVIOUS
<1>2. PollIsTimely(q)'
  BY <1>1 DEF PollIsTimely
<1>3. \A g \in Triggers : IsVisible(g)' = IsVisible(g) /\ At(g)' = At(g)
  BY GitHubSame
<1>4. Waiting(q)' = Waiting(q)
  BY DEF Waiting
<1>5. PollIsComplete(q)'
  BY <1>1, <1>3, <1>4, FeedsAre DEF PollIsComplete, IsHandled
<1>6. QED
  BY <1>2, <1>5

LEMMA CursorKept ==
  ASSUME UNCHANGED <<now, github, cursor>>, judged \subseteq judged',
         cursor.watermark <= now, NothingPassedOver
  PROVE  cursor'.watermark <= now' /\ NothingPassedOver'
<1>1. \A g \in Triggers : IsVisible(g)' = IsVisible(g) /\ At(g)' = At(g)
  BY GitHubSame
<1>2. Since(cursor)' = Since(cursor)
  BY DEF Since
<1>3. QED
  BY <1>1, <1>2 DEF NothingPassedOver

LEMMA PositionKeptByOthers ==
  ASSUME TypeInv, TimesInv, PositionInv, [Next]_vars,
         \/ Advance \/ GitHubNext \/ UNCHANGED vars \/ \E g \in Triggers : TurnActs(g)
  PROVE  PositionInv'
<1>1. /\ UNCHANGED <<cursor, tick, judged>> /\ now \in Nat /\ now' \in Nat
      /\ now' >= now /\ (now' = now \/ Advance)
  <2>1. UNCHANGED <<cursor, tick, judged>>
    BY RestIs DEF TicksRest
  <2>2. now \in Nat
    BY ConstantsAre DEF TypeInv, TypeOK
  <2>3. now' = now \/ (Advance /\ now' = now + 1)
    BY GitHubLeaves, TurnsLeave DEF Advance, vars
  <2>4. QED
    BY <2>1, <2>2, <2>3
<1>2. ASSUME NEW g \in Triggers, NEW t \in Nat, t <= now, IsVisible(g)', At(g)' < t
      PROVE  IsVisible(g) /\ At(g) < t
  <2>1. At(g)' # now
    BY <1>1, <1>2
  <2>2. author'[g] = author[g] /\ At(g)' = At(g)
    BY <2>1, GitHubGrows DEF GitHubKept
  <2>3. QED
    BY <1>2, <2>2 DEF IsVisible, IsWritten
<1>3. ASSUME NEW p \in Ticks, tick'[p].step # "idle"
      PROVE  PollIsTimely(p)' /\ PollIsComplete(p)'
  <2>1. /\ tick'[p] = tick[p] /\ PollIsTimely(p) /\ PollIsComplete(p)
        /\ Waiting(p)' = Waiting(p)
    BY <1>1, <1>3 DEF PositionInv, Waiting
  <2>2. /\ tick[p].since \in Nat /\ tick[p].asked \in Nat
        /\ tick[p].position.watermark \in Nat
    BY TickIs DEF TypeInv
  <2>3. PollIsTimely(p)'
    <3>1. tick[p].step \in {"issues", "comments", "reviews"} =>
            now' <= tick[p].asked + PollTime
      <4>1. CASE now' = now
        BY <2>1, <4>1 DEF PollIsTimely
      <4>2. CASE Advance
        BY <1>1, <2>2, <4>2, ConstantsAre DEF Advance
      <4>3. QED
        BY <1>1, <4>1, <4>2
    <3>2. QED
      BY <1>1, <2>1, <2>2, <3>1 DEF PollIsTimely
  <2>4. tick[p].since <= now /\ tick[p].asked <= now
    BY <1>1, <2>1, <2>2 DEF PollIsTimely
  <2>5. \A g \in Triggers : IsVisible(g)' /\ At(g)' < tick[p].since => g \in judged
    BY <1>2, <2>1, <2>2, <2>4 DEF PollIsComplete
  <2>6. ASSUME NEW g \in FeedsRead(tick[p].step), IsVisible(g)', At(g)' < tick[p].asked
        PROVE  IsHandled(p, g)'
    <3>1. g \in Triggers
      BY FeedsAre
    <3>2. IsHandled(p, g)
      BY <1>2, <2>1, <2>2, <2>4, <2>6, <3>1 DEF PollIsComplete
    <3>3. QED
      BY <1>1, <2>1, <3>2 DEF IsHandled
  <2>7. PollIsComplete(p)'
    BY <1>1, <2>1, <2>5, <2>6 DEF PollIsComplete
  <2>8. QED
    BY <2>3, <2>7
<1>4. cursor'.watermark <= now' /\ NothingPassedOver'
  <2>1. /\ cursor.watermark \in Nat /\ Since(cursor) \in Nat
        /\ Since(cursor) <= cursor.watermark /\ cursor.watermark <= now
    BY CursorIs DEF TypeInv, PositionInv
  <2>2. Since(cursor) <= now /\ Since(cursor)' = Since(cursor)
    BY <1>1, <2>1 DEF Since
  <2>3. ASSUME NEW g \in Triggers, IsVisible(g)', At(g)' < Since(cursor)
        PROVE  g \in judged'
    <3>1. IsVisible(g) /\ At(g) < Since(cursor)
      BY <1>2, <2>1, <2>2, <2>3
    <3>2. QED
      BY <1>1, <3>1 DEF PositionInv, NothingPassedOver
  <2>4. QED
    BY <1>1, <2>1, <2>2, <2>3 DEF NothingPassedOver
<1>5. QED
  BY <1>3, <1>4 DEF PositionInv

(* A response is in time, and what it does not have was handled.            *)
LEMMA PositionKeptByRead ==
  ASSUME FeedsFit, PullsFit, TypeInv, TimesInv, EmittedInv, PositionInv,
         NEW p \in Ticks, IsRead(p), [Next]_vars
  PROVE  PositionInv'
<1>1. PICK page \in SUBSET Triggers : \E s, next : Reads(p, page, s, next)
  BY ReadIs
<1>2. PICK s, next : Reads(p, page, s, next)
  BY <1>1
<1>3. TakeIn(p, s, next) /\ tick[p].step \in {"issues", "comments", "reviews"}
  BY <1>2 DEF Reads
<1>4. /\ \A q \in Ticks : q # p => tick'[q] = tick[q]
      /\ tick'[p].step = next
      /\ tick'[p].asked = tick[p].asked /\ tick'[p].since = tick[p].since
      /\ \/ tick'[p].position.watermark = tick[p].position.watermark
         \/ \E g \in Elements(s) : tick'[p].position.watermark = At(g)
      /\ Elements(s) \subseteq ByOthers(page)
      /\ ByOthers(page) \subseteq
           Elements(s) \cup Elements(tick[p].position.emitted)
      /\ Waiting(p)' = Waiting(p) \cup Elements(s)
  <2>1. Takes(p, page, s, next)
    BY <1>2, ReadTakes
  <2>2. QED
    BY <2>1 DEF Takes
<1>5. UNCHANGED <<now, github, cursor, judged>>
  BY <1>3 DEF TakeIn
<1>6. PollIsTimely(p) /\ PollIsComplete(p)
  BY <1>3 DEF PositionInv
<1>7. PollIsTimely(p)'
  <2>1. tick'[p].position.watermark <= now
    BY <1>4, <1>6, AtIsPast DEF PollIsTimely, ByOthers
  <2>2. now <= tick[p].asked + PollTime
    BY <1>3, <1>6 DEF PollIsTimely
  <2>3. /\ tick'[p].position.watermark \in Nat /\ now \in Nat
        /\ tick[p].asked \in Nat /\ PollTime \in Nat
    <3>1. TypeInv'
      BY TypeStep
    <3>2. tick'[p].position \in Positions
      <4>1. Takes(p, page, s, next)
        BY <1>2, ReadTakes
      <4>2. QED
        BY <4>1 DEF Takes
    <3>3. QED
      BY <3>2, TickIs, ConstantsAre DEF TypeInv, TypeOK, Positions
  <2>4. tick'[p].position.watermark <= tick[p].asked + PollTime
    BY <2>1, <2>2, <2>3
  <2>5. QED
    BY <1>4, <1>5, <1>6, <2>1, <2>2, <2>4 DEF PollIsTimely
<1>8. PollIsComplete(p)'
  <2>1. \A g \in Triggers : IsVisible(g)' = IsVisible(g) /\ At(g)' = At(g)
    BY <1>5, GitHubSame
  <2>2. \A g \in Triggers : IsVisible(g) /\ At(g) < tick[p].since => g \in judged
    BY <1>6 DEF PollIsComplete
  <2>3. FeedsRead(next) = FeedsRead(tick[p].step) \cup FeedOf(tick[p].step)
    BY <1>2 DEF Reads, FeedsRead, FeedOf, Triggers, Messages
  <2>4. ASSUME NEW g \in FeedOf(tick[p].step), g \in Triggers, IsVisible(g)
        PROVE  IsHandled(p, g)'
    <3>1. CASE At(g) < tick[p].since
      BY <2>2, <2>4, <3>1, <1>5 DEF IsHandled
    <3>2. CASE ~(At(g) < tick[p].since)
      <4>1. At(g) >= tick[p].since /\ IsWritten(g)
        BY <2>4, <3>2, TimesOf, TickIs DEF TypeInv, IsVisible
      <4>2. g \in page
        BY <1>2, <2>4, <4>1, PageHas
      <4>3. g \in ByOthers(page)
        BY <2>4, <4>2 DEF ByOthers, IsVisible
      <4>4. CASE g \in Elements(tick[p].position.emitted)
        BY <1>4, <1>5, <4>4 DEF EmittedInv, IsHandled
      <4>5. CASE g \in Elements(s)
        BY <1>4, <4>5 DEF IsHandled
      <4>6. QED
        BY <1>4, <4>3, <4>4, <4>5
    <3>3. QED
      BY <3>1, <3>2
  <2>5. ASSUME NEW g \in FeedsRead(tick[p].step), IsVisible(g), At(g) < tick[p].asked
        PROVE  IsHandled(p, g)'
    BY <1>4, <1>5, <1>6, <2>5 DEF PollIsComplete, IsHandled
  <2>6. QED
    BY <1>4, <1>5, <2>1, <2>2, <2>3, <2>4, <2>5, FeedsAre DEF PollIsComplete
<1>9. cursor'.watermark <= now' /\ NothingPassedOver'
  BY <1>5, CursorKept DEF PositionInv
<1>10. QED
  BY <1>4, <1>5, <1>7, <1>8, <1>9, OthersAgree DEF PositionInv

(* All that a finished batch had to be: the position may move to where the  *)
(* poll read, for that is no later than when it asked plus the overlap.     *)
LEMMA PositionKeptByEnd ==
  ASSUME PollsInOverlap, TypeInv, TimesInv, PositionInv,
         NEW p \in Ticks, Ends(p), [Next]_vars
  PROVE  PositionInv'
<1>1. /\ tick' = [tick EXCEPT ![p] = IdleTick]
      /\ UNCHANGED <<now, github, judged>>
      /\ cursor' = cursor \/ SavePosition(p)
  BY DEF Ends, PollFails, AdmitConflicts, SavePosition
<1>2. tick'[p] = IdleTick /\ \A q \in Ticks : q # p => tick'[q] = tick[q]
  BY <1>1, EndIs
<1>3. CASE cursor' = cursor
  <2>1. cursor'.watermark <= now' /\ NothingPassedOver'
    BY <1>1, <1>3, CursorKept DEF PositionInv
  <2>2. QED
    BY <1>1, <1>2, <2>1, IdleIs, OthersAgree DEF PositionInv
<1>4. CASE SavePosition(p)
  <2>1. /\ tick[p].step = "judging" /\ Waiting(p) = {} /\ cursor' = tick[p].position
    BY <1>4, NothingIn DEF SavePosition, Waiting
  <2>2. PollIsTimely(p) /\ PollIsComplete(p)
    BY <2>1 DEF PositionInv
  <2>3. /\ tick[p].position.watermark \in Nat /\ tick[p].asked \in Nat
        /\ tick[p].position.watermark <= tick[p].asked + PollTime
        /\ tick[p].position.watermark <= now
        /\ Overlap \in Nat /\ PollTime \in Nat /\ PollTime <= Overlap
    BY <2>2, TickIs, ConstantsAre DEF TypeInv, PollIsTimely, PollsInOverlap
  <2>4. Since(cursor') \in Nat /\ Since(cursor') <= tick[p].asked
    BY <2>1, <2>3 DEF Since, Bigger
  <2>5. \A g \in Triggers : IsVisible(g)' = IsVisible(g) /\ At(g)' = At(g)
    BY <1>1, GitHubSame
  <2>6. ASSUME NEW g \in Triggers, IsVisible(g), At(g) < Since(cursor')
        PROVE  g \in judged
    <3>1. At(g) < tick[p].asked
      BY <2>3, <2>4, <2>6, TimesOf DEF TypeInv
    <3>2. g \in FeedsRead(tick[p].step)
      BY <2>1 DEF FeedsRead
    <3>3. QED
      BY <2>1, <2>2, <2>6, <3>1, <3>2 DEF PollIsComplete, IsHandled
  <2>7. cursor'.watermark <= now' /\ NothingPassedOver'
    <3>1. Since(cursor)' = Since(cursor')
      BY DEF Since
    <3>2. QED
      BY <1>1, <2>1, <2>3, <2>5, <2>6, <3>1 DEF NothingPassedOver
  <2>8. QED
    BY <1>1, <1>2, <2>7, IdleIs, OthersAgree DEF PositionInv
<1>5. QED
  BY <1>1, <1>3, <1>4

LEMMA PositionKeptByTick ==
  ASSUME FeedsFit, PollsInOverlap, PullsFit,
         TypeInv, TimesInv, EmittedInv, PositionInv,
         NEW p \in Ticks, TickActs(p), [Next]_vars
  PROVE  PositionInv'
<1>1. UNCHANGED <<now, github>>
  BY TicksLeave
<1>2. \A g \in Triggers : IsVisible(g)' = IsVisible(g) /\ At(g)' = At(g)
  BY <1>1, GitHubSame
<1>3. CASE StartTick(p)
  <2>1. /\ \A q \in Ticks : q # p => tick'[q] = tick[q]
        /\ tick'[p].step = "issues"
        /\ tick'[p].asked = now /\ tick'[p].since = Since(cursor)
        /\ tick'[p].position = cursor /\ UNCHANGED <<cursor, judged>>
    BY <1>3, StartIs DEF StartTick
  <2>2. /\ cursor.watermark \in Nat /\ Since(cursor) \in Nat /\ now \in Nat
        /\ Since(cursor) <= cursor.watermark /\ cursor.watermark <= now
        /\ PollTime \in Nat
    BY CursorIs, ConstantsAre DEF TypeInv, TypeOK, PositionInv
  <2>3. PollIsTimely(p)'
    BY <1>1, <2>1, <2>2 DEF PollIsTimely
  <2>4. PollIsComplete(p)'
    BY <1>2, <2>1 DEF PollIsComplete, FeedsRead, PositionInv, NothingPassedOver
  <2>5. cursor'.watermark <= now' /\ NothingPassedOver'
    BY <1>1, <2>1, CursorKept DEF PositionInv
  <2>6. QED
    BY <1>1, <2>1, <2>3, <2>4, <2>5, OthersAgree DEF PositionInv
<1>4. CASE Decide(p)
  <2>1. /\ \A q \in Ticks : q # p => tick'[q] = tick[q]
        /\ tick[p].step = "judging" /\ tick'[p].step \in {"admitting", "waking"}
        /\ tick'[p].asked = tick[p].asked /\ tick'[p].since = tick[p].since
        /\ tick'[p].position = tick[p].position
        /\ Waiting(p)' = Waiting(p) /\ UNCHANGED <<cursor, judged>>
    BY <1>4, DecideIs DEF Decide
  <2>2. PollIsTimely(p) /\ PollIsComplete(p)
    BY <2>1 DEF PositionInv
  <2>3. PollIsTimely(p)'
    BY <1>1, <2>1, <2>2 DEF PollIsTimely
  <2>4. FeedsRead(tick'[p].step) = Triggers /\ FeedsRead(tick[p].step) = Triggers
    BY <2>1 DEF FeedsRead
  <2>5. PollIsComplete(p)'
    BY <1>2, <2>1, <2>2, <2>4 DEF PollIsComplete, IsHandled
  <2>6. cursor'.watermark <= now' /\ NothingPassedOver'
    BY <1>1, <2>1, CursorKept DEF PositionInv
  <2>7. QED
    BY <1>1, <2>1, <2>3, <2>5, <2>6, OthersAgree DEF PositionInv
<1>5. CASE Ignore(p) \/ Admit(p) \/ \E g \in Triggers : Wake(p, g)
  <2>1. /\ tick[p].batch # <<>> /\ Handled(p) /\ UNCHANGED cursor
        /\ tick[p].step \in {"judging", "admitting", "waking"}
    BY <1>5 DEF Ignore, Admit, Wake, TypeInv, TickTyped
  <2>2. /\ \A q \in Ticks : q # p => tick'[q] = tick[q]
        /\ tick'[p].step = "judging"
        /\ tick'[p].asked = tick[p].asked /\ tick'[p].since = tick[p].since
        /\ tick'[p].position = tick[p].position
        /\ Waiting(p) = {NextTrigger(p)} \cup Waiting(p)'
        /\ judged' = judged \cup {NextTrigger(p)}
    BY <2>1, HandledIs
  <2>3. PollIsTimely(p) /\ PollIsComplete(p)
    BY <2>1 DEF PositionInv
  <2>4. PollIsTimely(p)'
    BY <1>1, <2>2, <2>3 DEF PollIsTimely
  <2>5. FeedsRead(tick'[p].step) = Triggers /\ FeedsRead(tick[p].step) = Triggers
    BY <2>1, <2>2 DEF FeedsRead
  <2>6. PollIsComplete(p)'
    BY <1>2, <2>2, <2>3, <2>5 DEF PollIsComplete, IsHandled
  <2>7. cursor'.watermark <= now' /\ NothingPassedOver'
    BY <1>1, <2>1, <2>2, CursorKept DEF PositionInv
  <2>8. QED
    BY <1>1, <2>2, <2>4, <2>6, <2>7, OthersAgree DEF PositionInv
<1>6. QED
  BY <1>3, <1>4, <1>5, PositionKeptByRead, PositionKeptByEnd DEF TickActs

LEMMA PositionStep ==
  ASSUME FeedsFit, PollsInOverlap, PullsFit,
         TypeInv, TimesInv, EmittedInv, PositionInv, [Next]_vars
  PROVE  PositionInv'
<1>1. CASE Crashing
  <2>1. /\ \A p \in Ticks : tick'[p] = IdleTick
        /\ UNCHANGED <<now, github, cursor, judged>>
    BY <1>1, CrashLeaves
  <2>2. cursor'.watermark <= now' /\ NothingPassedOver'
    BY <2>1, CursorKept DEF PositionInv
  <2>3. QED
    BY <2>1, <2>2, IdleIs DEF PositionInv
<1>2. QED
  BY <1>1, PositionKeptByOthers, PositionKeptByTick, Steps

LEMMA PositionInit ==
  ASSUME Init
  PROVE  PositionInv
  BY IdleIs, ConstantsAre
     DEF Init, PositionInv, NothingPassedOver, IsVisible, IsWritten, Start

(* Nothing is read past: if a page holds a feed, a poll takes no longer     *)
(* than the position reads back, and no poll has more pull requests to read *)
(* reviews of than a listing has, whatever the feeds would no longer list   *)
(* was handled, for any number of ticks that overwrite each other's         *)
(* position, fail, or are cut short.                                        *)
THEOREM NothingIsPassedOver ==
  ASSUME FeedsFit, PollsInOverlap
  PROVE  Spec /\ []PullsFit => []NothingPassedOver
<1> DEFINE Inv == TypeInv /\ TimesInv /\ EmittedInv /\ PositionInv
<1>1. Init => Inv
  BY TypeInit, TimesInit, EmittedInit, PositionInit
<1>2. Inv /\ PullsFit /\ [Next]_vars => Inv'
  BY TypeStep, TimesStep, EmittedStep, PositionStep
<1>3. Inv => NothingPassedOver
  BY DEF PositionInv
<1>4. QED
  BY <1>1, <1>2, <1>3, PTL DEF Spec

-----------------------------------------------------------------------------
(* What the rows say of a ticket.                                           *)

RowsInv ==
  /\ \A m \in Messages : ~IsWritten(m) => message[m] = Unwritten
  /\ \A p \in Ticks : \A g \in Waiting(p) : IsWritten(g)
  /\ \A g \in Triggers :
       /\ ticket[g] # "absent" => IsWritten(g) /\ g \in Elements(opened)
       /\ IsActive(g) => ticket[g] = "open"

(* No ticket goes, and an assignment ends in a turn that ends or in a       *)
(* report that there was none.                                              *)
RowsKept ==
  \A g \in Triggers :
    /\ ticket[g] # "absent" => ticket'[g] # "absent"
    /\ spoke'[g] = spoke[g] \/ spoke'[g] = now
    /\ IsActive(g) /\ ~IsActive(g)' => spoke'[g] = now

LEMMA CrashRows ==
  ASSUME TypeInv, Crashing
  PROVE  /\ spoke' = spoke
         /\ \A g \in Triggers :
              /\ ticket'[g] = ticket[g] \/ (ticket[g] = "ended" /\ ticket'[g] = "open")
              /\ work'[g] = work[g] \/ (work[g] = "launched" /\ work'[g] = "pending")
                   \/ (work[g] = "running" /\ work'[g] = "stranded")
              /\ IsActive(g)' = IsActive(g)
<1>1. spoke' = spoke /\ Crashes
  BY DEF Crashing, Crash, CrashWhileWaking, Crashes
<1>2. ASSUME NEW g \in Triggers
      PROVE  \/ work'[g] = work[g] \/ (work[g] = "launched" /\ work'[g] = "pending")
             \/ (work[g] = "running" /\ work'[g] = "stranded")
  BY <1>1, <1>2 DEF Crashes
<1>3. ASSUME NEW g \in Triggers
      PROVE  ticket'[g] = ticket[g] \/ (ticket[g] = "ended" /\ ticket'[g] = "open")
  BY DEF Crashing, Crash, CrashWhileWaking, TypeInv, TypeOK
<1>4. ASSUME NEW g \in Triggers PROVE IsActive(g)' = IsActive(g)
  BY <1>2 DEF IsActive
<1>5. QED
  BY <1>1, <1>2, <1>3, <1>4

(* How a turn's step leaves its ticket; the others stay as they are.        *)
LEMMA TurnRows ==
  ASSUME TypeInv, NEW h \in Triggers, TurnActs(h)
  PROVE  /\ \A g \in Triggers : g # h =>
              ticket'[g] = ticket[g] /\ work'[g] = work[g] /\ spoke'[g] = spoke[g]
         /\ \/ Launch(h) /\ ticket[h] = "open" /\ work[h] = "none"
               /\ ticket'[h] = "open" /\ work'[h] = "launched" /\ spoke'[h] = spoke[h]
            \/ Resume(h) /\ ticket[h] = "ended" /\ ticket'[h] = "open"
               /\ work'[h] = (IF work[h] = "none" THEN "pending" ELSE work[h])
               /\ spoke'[h] = spoke[h]
            \/ BeginTurn(h) /\ work[h] \in {"launched", "pending"}
               /\ ticket'[h] = ticket[h] /\ work'[h] = "running" /\ spoke'[h] = spoke[h]
            \/ PrepareFails(h) /\ work[h] = "launched" /\ work'[h] = "none"
               /\ spoke'[h] = now /\ ticket'[h] = "ended"
            \/ /\ \E outcome \in {"open", "ended"}, p \in Pulls \cup {NoPull} :
                    FinishTurn(h, outcome, p)
               /\ work[h] = "running" /\ work'[h] = "none" /\ spoke'[h] = now
               /\ ticket'[h] \in {"open", "ended"}
<1>1. /\ ticket \in [Triggers -> {"absent", "open", "ended"}]
      /\ work \in [Triggers -> Work] /\ spoke \in [Triggers -> Times]
  BY DEF TypeInv, TypeOK
<1>2. CASE Launch(h)
  BY <1>1, <1>2 DEF Launch, IsActive
<1>3. CASE Resume(h)
  BY <1>1, <1>3 DEF Resume, IsActive
<1>4. CASE BeginTurn(h)
  BY <1>1, <1>4 DEF BeginTurn
<1>5. CASE PrepareFails(h)
  BY <1>1, <1>5 DEF PrepareFails
<1>6. ASSUME NEW outcome \in {"open", "ended"}, NEW p \in Pulls \cup {NoPull},
             FinishTurn(h, outcome, p)
      PROVE  /\ \A g \in Triggers : g # h =>
                  ticket'[g] = ticket[g] /\ work'[g] = work[g] /\ spoke'[g] = spoke[g]
             /\ work[h] = "running" /\ work'[h] = "none" /\ spoke'[h] = now
             /\ ticket'[h] \in {"open", "ended"}
  BY <1>1, <1>6 DEF FinishTurn
<1>7. QED
  BY <1>2, <1>3, <1>4, <1>5, <1>6 DEF TurnActs

(* ... and how a tick's does: it creates a ticket, or wakes one.            *)
LEMMA TickRows ==
  ASSUME TypeInv, NEW p \in Ticks, TickActs(p)
  PROVE  \/ UNCHANGED <<ticket, work, opened, woken>>
         \/ /\ Admit(p) /\ NextTrigger(p) \in Waiting(p) /\ NextTrigger(p) \in Triggers
            /\ ticket[NextTrigger(p)] = "absent"
            /\ \A h \in Triggers : ~IsLive(h, ThreadOf(NextTrigger(p)))
            /\ ticket'[NextTrigger(p)] = "open"
            /\ \A g \in Triggers : g # NextTrigger(p) => ticket'[g] = ticket[g]
            /\ opened' = Append(opened, NextTrigger(p)) /\ UNCHANGED <<work, woken>>
         \/ \E h \in Triggers :
              /\ Wake(p, h) /\ NextTrigger(p) \in Waiting(p) /\ NextTrigger(p) \in Triggers
              /\ IsWoken(h, ThreadOf(NextTrigger(p)))
              /\ ticket'[h] = "open" /\ ticket[h] # "absent"
              /\ work'[h] = (IF work[h] = "none" THEN "pending" ELSE work[h])
              /\ \A g \in Triggers : g # h =>
                   ticket'[g] = ticket[g] /\ work'[g] = work[g]
              /\ woken' = woken \/ woken' = woken \cup {<<NextTrigger(p), h>>}
              /\ UNCHANGED opened
<1>1. /\ ticket \in [Triggers -> {"absent", "open", "ended"}]
      /\ work \in [Triggers -> Work]
  BY DEF TypeInv, TypeOK
<1>2. CASE IsRead(p)
  <2>1. PICK page \in SUBSET Triggers : \E s, next : Reads(p, page, s, next)
    BY <1>2, ReadIs
  <2>2. QED
    BY <2>1 DEF Reads, TakeIn, turns
<1>3. CASE Ends(p)
  BY <1>3 DEF Ends, PollFails, AdmitConflicts, SavePosition, turns
<1>4. CASE StartTick(p) \/ Decide(p) \/ Ignore(p)
  BY <1>4 DEF StartTick, Decide, Ignore, turns
<1>5. CASE Admit(p)
  <2>1. tick[p].batch # <<>> /\ Handled(p) /\ UNCHANGED <<work, woken>>
    BY <1>5 DEF Admit, TypeInv, TickTyped, turns
  <2>2. NextTrigger(p) \in Waiting(p) /\ NextTrigger(p) \in Triggers
    BY <2>1, HandledIs
  <2>3. CASE UNCHANGED <<ticket, opened>>
    BY <2>1, <2>3
  <2>4. CASE ~UNCHANGED <<ticket, opened>>
    <3>1. /\ ticket[NextTrigger(p)] = "absent"
          /\ \A h \in Triggers : ~IsLive(h, ThreadOf(NextTrigger(p)))
          /\ ticket' = [ticket EXCEPT ![NextTrigger(p)] = "open"]
          /\ opened' = Append(opened, NextTrigger(p))
      BY <1>5, <2>4 DEF Admit
    <3>2. /\ ticket'[NextTrigger(p)] = "open"
          /\ \A g \in Triggers : g # NextTrigger(p) => ticket'[g] = ticket[g]
      BY <1>1, <2>2, <3>1
    <3>3. QED
      BY <1>5, <2>1, <2>2, <3>1, <3>2
  <2>5. QED
    BY <2>3, <2>4
<1>6. ASSUME NEW h \in Triggers, Wake(p, h)
      PROVE  /\ NextTrigger(p) \in Waiting(p) /\ NextTrigger(p) \in Triggers
             /\ IsWoken(h, ThreadOf(NextTrigger(p)))
             /\ ticket'[h] = "open" /\ ticket[h] # "absent"
             /\ work'[h] = (IF work[h] = "none" THEN "pending" ELSE work[h])
             /\ \A g \in Triggers : g # h =>
                  ticket'[g] = ticket[g] /\ work'[g] = work[g]
             /\ woken' = woken \/ woken' = woken \cup {<<NextTrigger(p), h>>}
             /\ UNCHANGED opened
  <2>1. tick[p].batch # <<>> /\ Handled(p)
    BY <1>6 DEF Wake, TypeInv, TickTyped
  <2>2. NextTrigger(p) \in Waiting(p) /\ NextTrigger(p) \in Triggers
    BY <2>1, HandledIs
  <2>3. /\ IsWoken(h, ThreadOf(NextTrigger(p))) /\ UNCHANGED opened
        /\ ticket' = [ticket EXCEPT ![h] = "open"]
        /\ \/ work[h] # "none" /\ UNCHANGED <<work, woken>>
           \/ /\ work[h] = "none" /\ work' = [work EXCEPT ![h] = "pending"]
              /\ woken' = woken \cup {<<NextTrigger(p), h>>}
    BY <1>6 DEF Wake, IsActive
  <2>4. ticket[h] # "absent"
    BY <2>3 DEF IsWoken, IsLive, IsNewest, TicketsOn
  <2>5. QED
    BY <1>1, <2>2, <2>3, <2>4
<1>7. QED
  BY <1>2, <1>3, <1>4, <1>5, <1>6 DEF TickActs

LEMMA RowsGrow ==
  ASSUME TypeInv, [Next]_vars
  PROVE  RowsKept
<1>1. CASE UNCHANGED <<ticket, work, spoke>>
  BY <1>1 DEF RowsKept, IsActive
<1>2. CASE Crashing
  BY <1>2, CrashRows DEF RowsKept
<1>3. ASSUME NEW h \in Triggers, TurnActs(h) PROVE RowsKept
  <2>1. ASSUME NEW g \in Triggers
        PROVE  /\ ticket[g] # "absent" => ticket'[g] # "absent"
               /\ spoke'[g] = spoke[g] \/ spoke'[g] = now
               /\ work[g] # "none" /\ work'[g] = "none" => spoke'[g] = now
    <3>1. CASE g # h
      BY <1>3, <3>1, TurnRows
    <3>2. CASE g = h
      BY <1>3, <3>2, TurnRows
    <3>3. QED
      BY <3>1, <3>2
  <2>2. QED
    BY <2>1 DEF RowsKept, IsActive
<1>4. ASSUME NEW p \in Ticks, TickActs(p) PROVE RowsKept
  <2>1. spoke' = spoke
    BY <1>4, TicksLeave
  <2>2. ASSUME NEW g \in Triggers
        PROVE  /\ ticket[g] # "absent" => ticket'[g] # "absent"
               /\ work[g] # "none" => work'[g] # "none"
    BY <1>4, TickRows
  <2>3. QED
    BY <2>1, <2>2 DEF RowsKept, IsActive
<1>5. QED
  BY <1>1, <1>2, <1>3, <1>4, Steps, GitHubLeaves DEF Advance, turns, vars

LEMMA RowsInit ==
  ASSUME Init
  PROVE  RowsInv
<1>1. \A p \in Ticks : Waiting(p) = {}
  BY IdleIs DEF Init, Waiting
<1>2. QED
  BY <1>1, ConstantsAre DEF Init, RowsInv, IsActive

LEMMA WrittenStays ==
  ASSUME TypeInv, [Next]_vars, NEW g \in Triggers, IsWritten(g)
  PROVE  IsWritten(g)'
  BY GitHubGrows DEF GitHubKept, IsWritten

LEMMA UnwrittenStep ==
  ASSUME TypeInv, RowsInv, [Next]_vars, NEW m \in Messages, ~IsWritten(m)'
  PROVE  message'[m] = Unwritten
<1>1. m \in Triggers /\ ~IsWritten(m)
  BY WrittenStays, ConstantsAre
<1>2. CASE UNCHANGED github
  BY <1>1, <1>2 DEF github, RowsInv
<1>3. ASSUME NEW x \in Issues, NEW by \in Authors[x], Label(x, by)
      PROVE  message'[m] = Unwritten
  BY <1>1, <1>3 DEF Label, RowsInv
<1>4. ASSUME NEW n \in Messages, NEW x \in Threads, NEW by \in Authors[n],
             Post(n, x, by)
      PROVE  message'[m] = Unwritten
  <2>1. by # "none" /\ n \in Triggers
    BY ConstantsAssumption, ConstantsAre DEF Messages
  <2>2. m # n
    BY <1>4, <2>1 DEF Post, TypeInv, TypeOK, IsWritten
  <2>3. message'[m] = message[m]
    BY <1>4, <2>2 DEF Post, TypeInv, TypeOK
  <2>4. QED
    BY <1>1, <2>3 DEF RowsInv
<1>5. ASSUME NEW x \in Pulls, TouchPull(x) PROVE message'[m] = Unwritten
  BY <1>1, <1>5 DEF TouchPull, RowsInv
<1>6. QED
  BY <1>2, <1>3, <1>4, <1>5, GitHubRests DEF GitHubNext, vars

(* What a request answers was written.                                      *)
LEMMA PageIsWritten ==
  ASSUME TypeInv, RowsInv, NEW p \in Ticks, NEW page \in SUBSET Triggers,
         NEW s, NEW next, Reads(p, page, s, next), NEW g \in page
  PROVE  IsWritten(g)
<1>1. CASE tick[p].step = "issues"
  BY <1>1 DEF Reads, FirstPages
<1>2. CASE tick[p].step = "comments"
  BY <1>2 DEF Reads, FirstPages
<1>3. CASE tick[p].step = "reviews"
  <2>1. PICK x \in Reviewed(p) : g \in ReviewsOf(x)
    BY <1>3 DEF Reads, ReviewPage
  <2>2. g \in Reviews /\ g \in Messages /\ g \notin Issues /\ x \in Pulls /\ ThreadOf(g) = x
    BY <2>1, ConstantsAre DEF ReviewsOf, Reviewed, Existing, Messages
  <2>3. message[g].thread # NoPull
    BY <2>2, ConstantsAre DEF ThreadOf
  <2>4. QED
    BY <2>2, <2>3 DEF RowsInv, Unwritten
<1>4. QED
  BY <1>1, <1>2, <1>3 DEF Reads

LEMMA BatchStep ==
  ASSUME TypeInv, RowsInv, [Next]_vars, NEW p \in Ticks, NEW g \in Waiting(p)'
  PROVE  IsWritten(g)'
<1>1. CASE g \in Waiting(p)
  <2>1. g \in Triggers /\ IsWritten(g)
    BY <1>1, TickIs DEF TypeInv, RowsInv
  <2>2. QED
    BY <2>1, WrittenStays
<1>2. CASE TicksRest
  BY <1>1, <1>2 DEF TicksRest, Waiting
<1>3. CASE Crashing
  BY <1>3, CrashLeaves, IdleIs DEF Waiting
<1>4. ASSUME NEW q \in Ticks, TickActs(q) PROVE IsWritten(g)'
  <2>1. CASE StartTick(q)
    BY <1>1, <1>4, <2>1, StartIs DEF Waiting
  <2>2. CASE Decide(q)
    BY <1>1, <1>4, <2>2, DecideIs DEF Waiting
  <2>3. CASE Ends(q)
    <3>1. tick' = [tick EXCEPT ![q] = IdleTick]
      BY <2>3 DEF Ends, PollFails, AdmitConflicts, SavePosition
    <3>2. QED
      BY <1>1, <3>1, EndIs DEF Waiting
  <2>4. CASE IsRead(q)
    <3>1. PICK page \in SUBSET Triggers : \E s, next : Reads(q, page, s, next)
      BY <2>4, ReadIs
    <3>2. PICK s, next : Reads(q, page, s, next)
      BY <3>1
    <3>3. /\ \A r \in Ticks : r # q => tick'[r] = tick[r]
          /\ Waiting(q)' = Waiting(q) \cup Elements(s)
          /\ Elements(s) \subseteq ByOthers(page)
      <4>1. Takes(q, page, s, next)
        BY <3>2, ReadTakes
      <4>2. QED
        BY <4>1 DEF Takes
    <3>4. g \in page \/ g \in Waiting(p)
      BY <3>3 DEF Waiting, ByOthers
    <3>5. CASE g \in page
      BY <3>2, <3>5, PageIsWritten, WrittenStays
    <3>6. QED
      BY <1>1, <3>4, <3>5
  <2>5. CASE Ignore(q) \/ Admit(q) \/ \E h \in Triggers : Wake(q, h)
    <3>1. tick[q].batch # <<>> /\ Handled(q)
      BY <2>5 DEF Ignore, Admit, Wake, TypeInv, TickTyped
    <3>2. /\ \A r \in Ticks : r # q => tick'[r] = tick[r]
          /\ Waiting(q) = {NextTrigger(q)} \cup Waiting(q)'
      BY <3>1, HandledIs
    <3>3. QED
      BY <1>1, <3>2 DEF Waiting
  <2>6. QED
    BY <1>4, <2>1, <2>2, <2>3, <2>4, <2>5 DEF TickActs
<1>5. QED
  BY <1>1, <1>2, <1>3, <1>4, Steps, RestIs

LEMMA AppendedIs ==
  ASSUME NEW S, NEW s \in Seq(S), NEW x \in S
  PROVE  /\ Append(s, x) \in Seq(S)
         /\ Elements(Append(s, x)) = Elements(s) \cup {x}
<1>1. /\ Append(s, x) \in Seq(S) /\ Len(Append(s, x)) = Len(s) + 1
      /\ \A i \in 1 .. Len(s) : Append(s, x)[i] = s[i]
      /\ Append(s, x)[Len(s) + 1] = x
  BY AppendProperties
<1>2. /\ Len(s) \in Nat /\ DOMAIN s = 1 .. Len(s)
      /\ DOMAIN Append(s, x) = 1 .. Len(s) + 1
  BY <1>1, LenProperties
<1>3. \A i \in 1 .. Len(s) + 1 : i \in 1 .. Len(s) \/ i = Len(s) + 1
  BY <1>2
<1>4. Len(s) + 1 \in 1 .. Len(s) + 1 /\ 1 .. Len(s) \subseteq 1 .. Len(s) + 1
  BY <1>2
<1>5. QED
  BY <1>1, <1>2, <1>3, <1>4 DEF Elements

LEMMA TicketsStep ==
  ASSUME TypeInv, RowsInv, [Next]_vars, NEW g \in Triggers
  PROVE  /\ ticket'[g] # "absent" => IsWritten(g)' /\ g \in Elements(opened')
         /\ IsActive(g)' => ticket'[g] = "open"
<1>1. CASE UNCHANGED <<ticket, work, opened>>
  BY <1>1, WrittenStays DEF RowsInv, IsActive
<1>2. CASE Crashing
  BY <1>2, WrittenStays, CrashRows, CrashLeaves DEF RowsInv, TypeInv, TypeOK
<1>3. ASSUME NEW h \in Triggers, TurnActs(h)
      PROVE  /\ ticket'[g] # "absent" => IsWritten(g)' /\ g \in Elements(opened')
             /\ IsActive(g)' => ticket'[g] = "open"
  <2>1. opened' = opened
    BY <1>3, TurnsLeave
  <2>2. ticket'[g] # "absent" => ticket[g] # "absent"
    <3>1. CASE g # h
      BY <1>3, <3>1, TurnRows
    <3>2. CASE g = h
      <4>1. work[h] # "none" => ticket[h] = "open"
        BY DEF RowsInv, IsActive
      <4>2. QED
        BY <1>3, <3>2, <4>1, TurnRows
    <3>3. QED
      BY <3>1, <3>2
  <2>3. work'[g] # "none" => ticket'[g] = "open"
    <3>1. work[g] # "none" => ticket[g] = "open"
      BY DEF RowsInv, IsActive
    <3>2. CASE g # h
      BY <1>3, <3>1, <3>2, TurnRows
    <3>3. CASE g = h
      BY <1>3, <3>1, <3>3, TurnRows
    <3>4. QED
      BY <3>2, <3>3
  <2>4. QED
    BY <2>1, <2>2, <2>3, WrittenStays DEF RowsInv, IsActive
<1>4. ASSUME NEW p \in Ticks, TickActs(p)
      PROVE  /\ ticket'[g] # "absent" => IsWritten(g)' /\ g \in Elements(opened')
             /\ IsActive(g)' => ticket'[g] = "open"
  <2>1. CASE UNCHANGED <<ticket, work, opened, woken>>
    BY <1>1, <2>1
  <2>2. ASSUME NextTrigger(p) \in Waiting(p), NextTrigger(p) \in Triggers,
               ticket[NextTrigger(p)] = "absent", ticket'[NextTrigger(p)] = "open",
               \A h \in Triggers : h # NextTrigger(p) => ticket'[h] = ticket[h],
               opened' = Append(opened, NextTrigger(p)), UNCHANGED work
        PROVE  /\ ticket'[g] # "absent" => IsWritten(g)' /\ g \in Elements(opened')
               /\ IsActive(g)' => ticket'[g] = "open"
    <3>1. Elements(opened') = Elements(opened) \cup {NextTrigger(p)}
      BY <2>2, AppendedIs DEF TypeInv, TypeOK
    <3>2. IsWritten(NextTrigger(p))
      BY <2>2 DEF RowsInv
    <3>3. QED
      BY <2>2, <3>1, <3>2, WrittenStays DEF RowsInv, IsActive
  <2>3. ASSUME NEW h \in Triggers, ticket'[h] = "open", ticket[h] # "absent",
               work'[h] = (IF work[h] = "none" THEN "pending" ELSE work[h]),
               \A k \in Triggers : k # h => ticket'[k] = ticket[k] /\ work'[k] = work[k],
               UNCHANGED opened
        PROVE  /\ ticket'[g] # "absent" => IsWritten(g)' /\ g \in Elements(opened')
               /\ IsActive(g)' => ticket'[g] = "open"
    BY <2>3, WrittenStays DEF RowsInv, IsActive
  <2>4. QED
    BY <1>4, <2>1, <2>2, <2>3, TickRows
<1>5. QED
  BY <1>1, <1>2, <1>3, <1>4, Steps, GitHubLeaves DEF Advance, turns, vars

LEMMA RowsStep ==
  ASSUME TypeInv, RowsInv, [Next]_vars
  PROVE  RowsInv'
<1>1. \A m \in Messages : ~IsWritten(m)' => message'[m] = Unwritten
  BY UnwrittenStep
<1>2. \A p \in Ticks : \A g \in Waiting(p)' : IsWritten(g)'
  BY BatchStep
<1>3. \A g \in Triggers :
        /\ ticket'[g] # "absent" => IsWritten(g)' /\ g \in Elements(opened')
        /\ IsActive(g)' => ticket'[g] = "open"
  BY TicketsStep
<1>4. QED
  BY <1>1, <1>2, <1>3 DEF RowsInv, Elements, Unwritten

-----------------------------------------------------------------------------
(* What a thread's messages are judged by: the newest of its tickets.       *)

LEMMA OneIsNewest ==
  ASSUME TypeInv, NEW x, NEW g, NEW h, IsNewest(g, x), IsNewest(h, x)
  PROVE  g = h
<1>1. DOMAIN opened \subseteq Nat
  BY LenProperties DEF TypeInv, TypeOK
<1>2. PICK i \in DOMAIN opened :
        /\ opened[i] = g /\ g \in TicketsOn(x)
        /\ \A j \in DOMAIN opened : opened[j] \in TicketsOn(x) => j <= i
  BY DEF IsNewest
<1>3. PICK k \in DOMAIN opened :
        /\ opened[k] = h /\ h \in TicketsOn(x)
        /\ \A j \in DOMAIN opened : opened[j] \in TicketsOn(x) => j <= k
  BY DEF IsNewest
<1>4. k <= i /\ i <= k /\ i \in Nat /\ k \in Nat
  BY <1>1, <1>2, <1>3
<1>5. QED
  BY <1>2, <1>3, <1>4

LEMMA SomeIsNewest ==
  ASSUME TypeInv, RowsInv, NEW x, NEW h \in TicketsOn(x)
  PROVE  \E g \in Triggers : IsNewest(g, x)
<1> DEFINE I == {i \in DOMAIN opened : opened[i] \in TicketsOn(x)}
<1>1. DOMAIN opened = 1 .. Len(opened) /\ Len(opened) \in Nat
  BY LenProperties DEF TypeInv, TypeOK
<1>2. h \in Elements(opened)
  BY DEF TicketsOn, RowsInv
<1>3. I \in SUBSET (0 .. Len(opened)) /\ I # {}
  BY <1>1, <1>2 DEF Elements
<1>4. PICK i \in I : \A j \in I : j <= i
  <2> HIDE DEF I
  <2> QED
    BY <1>1, <1>3, SomeIsGreatest
<1>5. opened[i] \in Triggers
  BY <1>4 DEF TicketsOn
<1>6. QED
  BY <1>4, <1>5 DEF IsNewest

LEMMA ContextIs ==
  ASSUME TypeInv, NEW x, NEW g \in Triggers, IsNewest(g, x)
  PROVE  /\ ThreadContext(x) = [state |-> ticket[g], spoke |-> spoke[g]]
         /\ (CHOOSE h \in Triggers : IsNewest(h, x)) = g
         /\ TicketsOn(x) # {}
<1>1. (CHOOSE h \in Triggers : IsNewest(h, x)) = g
  BY OneIsNewest
<1>2. TicketsOn(x) # {}
  BY DEF IsNewest
<1>3. QED
  BY <1>1, <1>2 DEF ThreadContext

(* Rules 7 to 9: whoever is not a bot and wrote before the end of the last  *)
(* turn is not heard again.                                                 *)
LEMMA LateIsIgnored ==
  ASSUME TypeInv, NEW m \in Messages, NEW g \in Triggers,
         IsNewest(g, ThreadOf(m)), spoke[g] >= At(m), ~IsBotKnown(author[m])
  PROVE  Verdict(m) = "ignore"
<1>1. /\ KindOf(m) = "message"
      /\ ThreadContext(ThreadOf(m)) = [state |-> ticket[g], spoke |-> spoke[g]]
      /\ At(m) \in Nat /\ spoke[g] \in Nat
  BY ContextIs, ConstantsAre, TimesOf DEF KindOf, TypeInv
<1>2. ~Accepts(KindOf(m), author[m], ThreadContext(ThreadOf(m)))
  BY <1>1 DEF Accepts
<1>3. ~Attaches(KindOf(m), author[m], At(m), ThreadContext(ThreadOf(m)))
  BY <1>1 DEF Attaches
<1>4. QED
  BY <1>2, <1>3 DEF Verdict, Judge

(* A ticket is at work on what it was woken for, or its last turn ended     *)
(* after that was written; so it is with what its own executor wrote.       *)
IsSpent(m, g) == IsActive(g) \/ spoke[g] >= At(m)
WokenInv ==
  \A m \in Messages, g \in Triggers :
    <<m, g>> \in woken => IsWritten(m) /\ IsSpent(m, g)
OwnInv ==
  \A m \in Messages :
    author[m] = "executor" /\ ThreadOf(m) \in Issues
    => \E g \in TicketsOn(ThreadOf(m)) : IsSpent(m, g)

LEMMA SpentStays ==
  ASSUME TypeInv, TimesInv, [Next]_vars, NEW m \in Messages, NEW g \in Triggers,
         IsWritten(m), IsSpent(m, g)
  PROVE  IsSpent(m, g)'
<1>1. /\ m \in Triggers /\ At(m) <= now /\ At(m) \in Nat
      /\ spoke[g] \in Nat /\ now \in Nat /\ spoke[g] <= now
  BY ConstantsAre, AtIsPast, TimesOf DEF TypeInv, TimesInv
<1>2. At(m)' = At(m)
  BY ConstantsAre, GitHubGrows DEF GitHubKept, At
<1>3. /\ spoke'[g] = spoke[g] \/ spoke'[g] = now
      /\ IsActive(g) /\ ~IsActive(g)' => spoke'[g] = now
  BY RowsGrow DEF RowsKept
<1>4. CASE IsActive(g)
  BY <1>1, <1>2, <1>3, <1>4 DEF IsSpent
<1>5. CASE ~IsActive(g)
  <2>1. spoke[g] >= At(m)
    BY <1>5 DEF IsSpent
  <2>2. spoke'[g] >= At(m)
    BY <1>1, <1>3, <2>1
  <2>3. QED
    BY <1>2, <2>2 DEF IsSpent
<1>6. QED
  BY <1>4, <1>5

LEMMA WokenStep ==
  ASSUME TypeInv, TimesInv, RowsInv, WokenInv, [Next]_vars
  PROVE  WokenInv'
<1>1. ASSUME NEW m \in Messages, NEW g \in Triggers, <<m, g>> \in woken
      PROVE  IsWritten(m)' /\ IsSpent(m, g)'
  <2>1. IsWritten(m) /\ IsSpent(m, g) /\ m \in Triggers
    BY <1>1, ConstantsAre DEF WokenInv
  <2>2. QED
    BY <2>1, WrittenStays, SpentStays
<1>2. CASE UNCHANGED woken
  BY <1>1, <1>2 DEF WokenInv
<1>3. ASSUME NEW p \in Ticks, TickActs(p), ~UNCHANGED woken PROVE WokenInv'
  <2>1. PICK n \in Triggers, h \in Triggers :
          /\ n \in Waiting(p) /\ work'[h] # "none"
          /\ woken' = woken \/ woken' = woken \cup {<<n, h>>}
    <3>1. PICK h \in Triggers :
            /\ NextTrigger(p) \in Waiting(p) /\ NextTrigger(p) \in Triggers
            /\ work'[h] = (IF work[h] = "none" THEN "pending" ELSE work[h])
            /\ woken' = woken \/ woken' = woken \cup {<<NextTrigger(p), h>>}
      BY <1>3, TickRows
    <3>2. QED
      BY <3>1
  <2>2. IsWritten(n)' /\ IsSpent(n, h)'
    BY <2>1, WrittenStays DEF RowsInv, IsSpent, IsActive
  <2>3. QED
    BY <1>1, <2>1, <2>2 DEF WokenInv
<1>4. QED
  BY <1>2, <1>3, Steps, GitHubLeaves, TurnsLeave, CrashLeaves DEF Advance, vars

LEMMA TicketStays ==
  ASSUME TypeInv, RowsInv, [Next]_vars, NEW x, NEW g \in TicketsOn(x)
  PROVE  g \in Triggers /\ g \in TicketsOn(x)'
<1>1. g \in Triggers /\ ticket[g] # "absent" /\ ThreadOf(g) = x
  BY DEF TicketsOn
<1>2. IsWritten(g)
  BY <1>1 DEF RowsInv
<1>3. ticket'[g] # "absent" /\ ThreadOf(g)' = x
  BY <1>1, <1>2, RowsGrow, GitHubGrows DEF RowsKept, GitHubKept
<1>4. QED
  BY <1>1, <1>3 DEF TicketsOn

LEMMA OwnStep ==
  ASSUME TypeInv, TimesInv, RowsInv, OwnInv, [Next]_vars
  PROVE  OwnInv'
<1>1. ASSUME NEW m \in Messages, author'[m] = "executor", ThreadOf(m)' \in Issues,
             IsWritten(m)
      PROVE  \E g \in TicketsOn(ThreadOf(m))' : IsSpent(m, g)'
  <2>1. m \in Triggers /\ author[m] = "executor" /\ ThreadOf(m)' = ThreadOf(m)
    BY <1>1, GitHubGrows, ConstantsAre DEF GitHubKept
  <2>2. PICK g \in TicketsOn(ThreadOf(m)) : IsSpent(m, g)
    BY <1>1, <2>1 DEF OwnInv
  <2>3. g \in Triggers /\ g \in TicketsOn(ThreadOf(m))'
    BY <2>1, TicketStays DEF TicketsOn
  <2>4. IsSpent(m, g)'
    BY <1>1, <2>2, <2>3, SpentStays
  <2>5. QED
    BY <2>3, <2>4
<1>2. ASSUME NEW m \in Messages, NEW x \in Threads, NEW by \in Authors[m],
             Post(m, x, by), by = "executor", x \in Issues
      PROVE  \E g \in TicketsOn(ThreadOf(m))' : IsSpent(m, g)'
  <2>1. PICK g \in Triggers : work[g] = "running" /\ x \in {ThreadOf(g), pull[g]}
    BY <1>2 DEF Post, MayWrite
  <2>2. ThreadOf(g) = x
    BY <1>2, <2>1, ConstantsAre, ConstantsAssumption DEF TypeInv, TypeOK
  <2>3. g \in TicketsOn(x)
    BY <2>1, <2>2 DEF RowsInv, IsActive, TicketsOn
  <2>4. ThreadOf(m)' = x
    BY <1>2, ConstantsAre DEF Post, ThreadOf, TypeInv, TypeOK
  <2>5. g \in TicketsOn(ThreadOf(m))'
    BY <2>3, <2>4, TicketStays DEF TicketsOn
  <2>6. IsSpent(m, g)'
    BY <1>2, <2>1 DEF Post, IsSpent, IsActive, turns
  <2>7. QED
    BY <2>5, <2>6
<1>3. ASSUME NEW m \in Messages, author'[m] = "executor", ThreadOf(m)' \in Issues,
             ~IsWritten(m)
      PROVE  \E g \in TicketsOn(ThreadOf(m))' : IsSpent(m, g)'
  <2>1. author[m] # author'[m] /\ m \in Triggers /\ m \notin Issues
    BY <1>3, ConstantsAre DEF IsWritten
  <2>2. GitHubNext
    BY <2>1, GitHubRests DEF github, vars
  <2>3. ASSUME NEW x \in Issues, NEW by \in Authors[x], Label(x, by) PROVE FALSE
    BY <2>1, <2>3 DEF Label, TypeInv, TypeOK
  <2>4. PICK n \in Messages, x \in Threads : \E by \in Authors[n] : Post(n, x, by)
    BY <2>1, <2>2, <2>3 DEF GitHubNext, TouchPull
  <2>5. PICK by \in Authors[n] : Post(n, x, by)
    BY <2>4
  <2>6. n = m /\ by = "executor" /\ x \in Issues
    <3>1. n = m
      BY <2>1, <2>5 DEF Post, TypeInv, TypeOK
    <3>2. author'[m] = by /\ message'[m].thread = x
      BY <2>1, <2>5, <3>1 DEF Post, TypeInv, TypeOK
    <3>3. QED
      BY <1>3, <2>1, <3>1, <3>2 DEF ThreadOf
  <2>7. QED
    BY <1>2, <2>5, <2>6
<1>4. QED
  BY <1>1, <1>3 DEF OwnInv

LEMMA OutputInit ==
  ASSUME Init
  PROVE  WokenInv /\ OwnInv
  BY ConstantsAre DEF Init, WokenInv, OwnInv

(* A person's message that woke a ticket wakes it once: should it be judged *)
(* again when that assignment is over, because of a crash, the other tick,  *)
(* or a position that forgot it, it is ignored.                             *)
THEOREM WokenOnce == Spec => []WokenIsSpent
<1> DEFINE Inv == TypeInv /\ TimesInv /\ RowsInv /\ WokenInv
<1>1. Init => Inv
  BY TypeInit, TimesInit, RowsInit, OutputInit
<1>2. Inv /\ [Next]_vars => Inv'
  BY TypeStep, TimesStep, RowsStep, WokenStep
<1>3. Inv => WokenIsSpent
  <2>1. ASSUME Inv, NEW m \in Messages, NEW g \in Triggers, <<m, g>> \in woken,
               ~IsBotKnown(author[m]), IsNewest(g, ThreadOf(m)), ~IsActive(g)
        PROVE  Verdict(m) = "ignore"
    BY <2>1, LateIsIgnored DEF WokenInv, IsSpent
  <2>2. QED
    BY <2>1 DEF WokenIsSpent
<1>4. QED
  BY <1>1, <1>2, <1>3, PTL DEF Spec

(* What an executor wrote on its own issue is no new input to it once its   *)
(* turn is over, though it writes under the person's name.                  *)
THEOREM OwnOutputIsNoInput == Spec => []OwnOutputIsIgnored
<1> DEFINE Inv == TypeInv /\ TimesInv /\ RowsInv /\ OwnInv
<1>1. Init => Inv
  BY TypeInit, TimesInit, RowsInit, OutputInit
<1>2. Inv /\ [Next]_vars => Inv'
  BY TypeStep, TimesStep, RowsStep, OwnStep
<1>3. Inv => OwnOutputIsIgnored
  <2>1. ASSUME Inv, NEW m \in Messages, NEW g \in Triggers, author[m] = "executor",
               ThreadOf(m) \in Issues, TicketsOn(ThreadOf(m)) = {g}, ~IsActive(g)
        PROVE  Verdict(m) = "ignore"
    <3>1. IsSpent(m, g)
      BY <2>1 DEF OwnInv
    <3>2. PICK h \in Triggers : IsNewest(h, ThreadOf(m))
      BY <2>1, SomeIsNewest
    <3>3. h = g
      BY <2>1, <3>2 DEF IsNewest
    <3>4. QED
      BY <2>1, <3>1, <3>2, <3>3, LateIsIgnored DEF IsSpent, IsBotKnown
  <2>2. QED
    BY <2>1 DEF OwnOutputIsIgnored
<1>4. QED
  BY <1>1, <1>2, <1>3, PTL DEF Spec

-----------------------------------------------------------------------------
(* A person's reply reaches a turn.                                         *)

(* An older ticket of a thread is reopened only by resume_unfinished, which *)
(* needs a pull request; and a thread has an older one only if a bot's      *)
(* message was admitted on it.                                              *)
OlderStayEnded == Pulls = {} \/ \A m \in Messages : "bot" \notin Authors[m]

AdmittingInv ==
  /\ \A p \in Ticks : tick[p].step = "admitting" =>
       NextTrigger(p) \in Issues \/ IsBotKnown(author[NextTrigger(p)])
  /\ \A g \in Triggers :
       /\ IsWritten(g) => author[g] \in Authors[g]
       /\ ticket[g] # "absent" => g \in Issues \/ IsBotKnown(author[g])
       /\ ticket[g] = "absent" => spoke[g] = Never
       /\ g \in judged => IsWritten(g)
LiveInv == \A g \in Triggers : ticket[g] = "open" => IsNewest(g, ThreadOf(g))

(* A message that found its ticket at rest is with a turn, or the newest    *)
(* ticket is about to have one, or the message is still to be judged and is *)
(* newer than that ticket's last turn.                                      *)
Awaits(m, g) ==
  \/ work[g] \in {"launched", "pending"}
  \/ m \notin judged /\ work[g] = "none" /\ spoke[g] < At(m)
ReplyWaits(m) ==
  m \in reached \/ \E g \in Triggers : IsNewest(g, ThreadOf(m)) /\ Awaits(m, g)
RepliesInv ==
  \A m \in Messages :
    author[m] = "person" /\ message[m].found = "quiet" => ReplyWaits(m)

LEMMA AuthorsStep ==
  ASSUME TypeInv, AdmittingInv, [Next]_vars, NEW g \in Triggers, IsWritten(g)'
  PROVE  author'[g] \in Authors[g]
<1>1. CASE IsWritten(g)
  <2>1. author'[g] = author[g]
    BY <1>1, GitHubGrows DEF GitHubKept
  <2>2. QED
    BY <1>1, <2>1 DEF AdmittingInv
<1>2. CASE ~IsWritten(g)
  <2>1. author'[g] # author[g]
    BY <1>2 DEF IsWritten
  <2>2. GitHubNext
    BY <2>1, GitHubRests DEF github, vars
  <2>3. ASSUME NEW x \in Issues, NEW by \in Authors[x], Label(x, by)
        PROVE  author'[g] \in Authors[g]
    BY <2>1, <2>3 DEF Label, TypeInv, TypeOK
  <2>4. ASSUME NEW m \in Messages, NEW x \in Threads, NEW by \in Authors[m],
               Post(m, x, by)
        PROVE  author'[g] \in Authors[g]
    BY <2>1, <2>4 DEF Post, TypeInv, TypeOK
  <2>5. QED
    BY <2>1, <2>2, <2>3, <2>4 DEF GitHubNext, TouchPull
<1>3. QED
  BY <1>1, <1>2

(* What joins the handled is the next trigger of a tick.                    *)
Handles(p) == Ignore(p) \/ Admit(p) \/ \E g \in Triggers : Wake(p, g)
LEMMA JudgedIs ==
  ASSUME TypeInv, [Next]_vars
  PROVE  \/ judged' = judged
         \/ \E p \in Ticks : \E n \in Triggers :
              /\ Handles(p) /\ n = NextTrigger(p) /\ n \in Waiting(p)
              /\ judged' = judged \cup {n}
<1>1. ASSUME NEW p \in Ticks, Handles(p)
      PROVE  \E n \in Triggers :
               /\ n = NextTrigger(p) /\ n \in Waiting(p)
               /\ judged' = judged \cup {n}
  <2>1. tick[p].batch # <<>> /\ Handled(p)
    BY <1>1 DEF Handles, Ignore, Admit, Wake, TypeInv, TickTyped
  <2>2. QED
    BY <2>1, HandledIs
<1>2. ASSUME NEW p \in Ticks, IsRead(p) PROVE judged' = judged
  <2>1. PICK page \in SUBSET Triggers : \E s, next : Reads(p, page, s, next)
    BY <1>2, ReadIs
  <2>2. QED
    BY <2>1 DEF Reads, TakeIn
<1>3. ASSUME NEW p \in Ticks, TickActs(p)
      PROVE  judged' = judged \/ Handles(p)
  BY <1>2, <1>3
     DEF TickActs, Handles, StartTick, Decide, Ends, PollFails, AdmitConflicts,
         SavePosition
<1>4. QED
  BY <1>1, <1>3, Steps, RestIs, CrashLeaves DEF TicksRest

LEMMA AcceptedIs ==
  ASSUME NEW g \in Triggers, Verdict(g) = "accept"
  PROVE  g \in Issues \/ IsBotKnown(author[g])
<1>1. Accepts(KindOf(g), author[g], ThreadContext(ThreadOf(g)))
  BY DEF Verdict, Judge
<1>2. QED
  BY <1>1 DEF Accepts, KindOf

LEMMA AdmittingStep ==
  ASSUME TypeInv, RowsInv, AdmittingInv, [Next]_vars, NEW p \in Ticks,
         tick'[p].step = "admitting"
  PROVE  \E n \in Triggers :
           n = Head(tick'[p].batch) /\ (n \in Issues \/ IsBotKnown(author'[n]))
<1>1. ASSUME NEW n \in Triggers, n = NextTrigger(p), n \in Waiting(p),
             n \in Issues \/ IsBotKnown(author[n]), tick'[p].batch = tick[p].batch
      PROVE  n = Head(tick'[p].batch) /\ (n \in Issues \/ IsBotKnown(author'[n]))
  <2>1. author'[n] = author[n]
    BY <1>1, GitHubGrows DEF RowsInv, GitHubKept
  <2>2. QED
    BY <1>1, <2>1 DEF NextTrigger
<1>2. ASSUME tick[p].batch # <<>>
      PROVE  NextTrigger(p) \in Triggers /\ NextTrigger(p) \in Waiting(p)
  BY <1>2, TickIs, HeadAndTail DEF TypeInv, NextTrigger, Waiting
<1>3. CASE tick'[p] = tick[p]
  <2>1. tick[p].batch # <<>> /\ tick[p].step = "admitting"
    BY <1>3 DEF TypeInv, TickTyped
  <2>2. QED
    BY <1>1, <1>2, <1>3, <2>1 DEF AdmittingInv
<1>4. CASE Crashing
  BY <1>4, CrashLeaves, IdleIs
<1>5. ASSUME NEW q \in Ticks, TickActs(q)
      PROVE  tick'[p] = tick[p] \/ (p = q /\ Decide(p))
  <2>1. CASE StartTick(q)
    BY <2>1, StartIs
  <2>2. CASE Decide(q)
    BY <2>2, DecideIs
  <2>3. CASE Ends(q)
    <3>1. tick' = [tick EXCEPT ![q] = IdleTick]
      BY <2>3 DEF Ends, PollFails, AdmitConflicts, SavePosition
    <3>2. QED
      BY <3>1, EndIs, IdleIs
  <2>4. CASE IsRead(q)
    <3>1. PICK page \in SUBSET Triggers : \E s, next : Reads(q, page, s, next)
      BY <2>4, ReadIs
    <3>2. PICK s, next : Reads(q, page, s, next)
      BY <3>1
    <3>3. next # "admitting"
      BY <3>2 DEF Reads
    <3>4. tick'[q].step = next /\ \A r \in Ticks : r # q => tick'[r] = tick[r]
      <4>1. Takes(q, page, s, next)
        BY <3>2, ReadTakes
      <4>2. QED
        BY <4>1 DEF Takes
    <3>5. QED
      BY <1>5, <3>3, <3>4
  <2>5. CASE Handles(q)
    <3>1. tick[q].batch # <<>> /\ Handled(q)
      BY <2>5 DEF Handles, Ignore, Admit, Wake, TypeInv, TickTyped
    <3>2. QED
      BY <3>1, HandledIs
  <2>6. QED
    BY <1>5, <2>1, <2>2, <2>3, <2>4, <2>5 DEF TickActs, Handles
<1>6. CASE Decide(p)
  <2>1. /\ tick[p].batch # <<>> /\ tick'[p].batch = tick[p].batch
        /\ Verdict(NextTrigger(p)) = "accept"
    BY <1>6, DecideIs
  <2>2. QED
    BY <1>1, <1>2, <2>1, AcceptedIs
<1>7. QED
  BY <1>3, <1>4, <1>5, <1>6, Steps, RestIs DEF TicksRest

(* A ticket that a step creates.                                            *)
IsCreated(n) ==
  /\ ticket[n] = "absent" /\ ticket'[n] = "open"
  /\ \A h \in Triggers : ~IsLive(h, ThreadOf(n))
  /\ \A g \in Triggers : g # n => ticket'[g] = ticket[g]
  /\ opened' = Append(opened, n)
  /\ UNCHANGED <<github, work, spoke, reached>>

LEMMA TicketsAre ==
  ASSUME TypeInv, RowsInv, [Next]_vars
  PROVE  \/ /\ opened' = opened
            /\ \A g \in Triggers : ticket'[g] = "absent" <=> ticket[g] = "absent"
         \/ \E p \in Ticks : \E n \in Triggers :
              /\ Admit(p) /\ n = NextTrigger(p) /\ n \in Waiting(p) /\ IsCreated(n)
<1>1. ASSUME NEW h \in Triggers, TurnActs(h), NEW g \in Triggers
      PROVE  ticket'[g] = "absent" <=> ticket[g] = "absent"
  <2>1. work[h] # "none" => ticket[h] = "open"
    BY DEF RowsInv, IsActive
  <2>2. CASE g # h
    BY <1>1, <2>2, TurnRows
  <2>3. CASE g = h
    BY <1>1, <2>1, <2>3, TurnRows
  <2>4. QED
    BY <2>2, <2>3
<1>2. ASSUME Crashing, NEW g \in Triggers
      PROVE  ticket'[g] = "absent" <=> ticket[g] = "absent"
  BY <1>2, CrashRows
<1>3. ASSUME NEW p \in Ticks, TickActs(p)
      PROVE  \/ /\ opened' = opened
                /\ \A g \in Triggers : ticket'[g] = "absent" <=> ticket[g] = "absent"
             \/ \E n \in Triggers :
                  /\ Admit(p) /\ n = NextTrigger(p) /\ n \in Waiting(p) /\ IsCreated(n)
  <2>1. UNCHANGED <<github, spoke, reached>>
    BY <1>3, TicksLeave
  <2>2. QED
    BY <1>3, <2>1, TickRows DEF IsCreated
<1>4. QED
  BY <1>1, <1>2, <1>3, Steps, GitHubLeaves, TurnsLeave, CrashLeaves DEF Advance, vars

LEMMA AdmittingRows ==
  ASSUME TypeInv, RowsInv, AdmittingInv, [Next]_vars, NEW g \in Triggers
  PROVE  /\ ticket'[g] # "absent" => g \in Issues \/ IsBotKnown(author'[g])
         /\ ticket'[g] = "absent" => spoke'[g] = Never
         /\ g \in judged' => IsWritten(g)'
<1>1. ticket'[g] # "absent" => g \in Issues \/ IsBotKnown(author'[g])
  <2>1. CASE ticket[g] # "absent"
    <3>1. author'[g] = author[g]
      BY <2>1, GitHubGrows DEF RowsInv, GitHubKept
    <3>2. QED
      BY <2>1, <3>1 DEF AdmittingInv
  <2>2. CASE ticket[g] = "absent" /\ ticket'[g] # "absent"
    <3>1. PICK p \in Ticks : Admit(p) /\ g = NextTrigger(p) /\ IsCreated(g)
      BY <2>2, TicketsAre DEF IsCreated
    <3>2. tick[p].step = "admitting" /\ author' = author
      BY <3>1 DEF Admit, IsCreated, github
    <3>3. QED
      BY <3>1, <3>2 DEF AdmittingInv
  <2>3. QED
    BY <2>1, <2>2
<1>2. ticket'[g] = "absent" => spoke'[g] = Never
  <2>1. SUFFICES ASSUME ticket'[g] = "absent" PROVE spoke'[g] = Never
    OBVIOUS
  <2>2. ticket[g] = "absent" /\ spoke[g] = Never /\ work[g] = "none"
    BY <2>1, RowsGrow DEF RowsKept, AdmittingInv, RowsInv, IsActive
  <2>3. ASSUME NEW h \in Triggers, TurnActs(h) PROVE spoke'[g] = spoke[g]
    <3>1. CASE g # h
      BY <2>3, <3>1, TurnRows
    <3>2. CASE g = h
      BY <2>2, <2>3, <3>2, TurnRows
    <3>3. QED
      BY <3>1, <3>2
  <2>4. spoke'[g] = spoke[g]
    BY <2>3, Steps, GitHubLeaves, CrashLeaves, TicksLeave DEF Advance, turns, vars
  <2>5. QED
    BY <2>2, <2>4
<1>3. g \in judged' => IsWritten(g)'
  <2>1. g \in judged' => IsWritten(g)
    BY JudgedIs DEF AdmittingInv, RowsInv
  <2>2. QED
    BY <2>1, WrittenStays
<1>4. QED
  BY <1>1, <1>2, <1>3

LEMMA AdmittingKept ==
  ASSUME TypeInv, RowsInv, AdmittingInv, [Next]_vars
  PROVE  AdmittingInv'
<1>1. ASSUME NEW p \in Ticks, tick'[p].step = "admitting"
      PROVE  (NextTrigger(p) \in Issues \/ IsBotKnown(author[NextTrigger(p)]))'
  BY <1>1, AdmittingStep DEF NextTrigger
<1>2. \A g \in Triggers :
        /\ IsWritten(g)' => author'[g] \in Authors[g]
        /\ ticket'[g] # "absent" => g \in Issues \/ IsBotKnown(author'[g])
        /\ ticket'[g] = "absent" => spoke'[g] = Never
        /\ g \in judged' => IsWritten(g)'
  BY AuthorsStep, AdmittingRows
<1>3. QED
  BY <1>1, <1>2 DEF AdmittingInv

(* The tickets on a thread, and which is the newest, after a step.          *)
LEMMA ThreadStays ==
  ASSUME TypeInv, RowsInv, [Next]_vars, NEW g \in Triggers, ticket[g] # "absent"
  PROVE  ThreadOf(g)' = ThreadOf(g)
  BY GitHubGrows DEF RowsInv, GitHubKept

LEMMA NewestStays ==
  ASSUME TypeInv, RowsInv, [Next]_vars, NEW x, NEW g,
         \/ /\ opened' = opened
            /\ \A h \in Triggers : ticket'[h] = "absent" <=> ticket[h] = "absent"
         \/ \E n \in Triggers : IsCreated(n) /\ ThreadOf(n) # x
  PROVE  IsNewest(g, x)' <=> IsNewest(g, x)
<1>1. TicketsOn(x)' = TicketsOn(x)
  <2>1. CASE \A h \in Triggers : ticket'[h] = "absent" <=> ticket[h] = "absent"
    BY <2>1, ThreadStays DEF TicketsOn
  <2>2. ASSUME NEW n \in Triggers, IsCreated(n), ThreadOf(n) # x
        PROVE  TicketsOn(x)' = TicketsOn(x)
    <3>1. \A h \in Triggers : ThreadOf(h)' = ThreadOf(h)
      BY <2>2, GitHubSame DEF IsCreated
    <3>2. QED
      BY <2>2, <3>1 DEF IsCreated, TicketsOn
  <2>3. QED
    BY <2>1, <2>2
<1>2. CASE opened' = opened
  BY <1>1, <1>2 DEF IsNewest
<1>3. ASSUME NEW n \in Triggers, IsCreated(n), ThreadOf(n) # x
      PROVE  IsNewest(g, x)' <=> IsNewest(g, x)
  <2>1. opened' = Append(opened, n) /\ n \notin TicketsOn(x)
    BY <1>3 DEF IsCreated, TicketsOn
  <2>2. /\ Len(opened) \in Nat /\ DOMAIN opened = 1 .. Len(opened)
        /\ DOMAIN opened' = 1 .. Len(opened) + 1
        /\ \A i \in 1 .. Len(opened) : opened'[i] = opened[i]
        /\ opened'[Len(opened) + 1] = n
    <3>1. opened \in Seq(Triggers)
      BY DEF TypeInv, TypeOK
    <3>2. QED
      BY <2>1, <3>1, AppendProperties, LenProperties
  <2>3. /\ \A i \in DOMAIN opened' : i \in DOMAIN opened \/ opened'[i] \notin TicketsOn(x)
        /\ DOMAIN opened \subseteq DOMAIN opened'
        /\ \A i \in DOMAIN opened : opened'[i] = opened[i]
    <3>1. \A l \in Nat : \A i \in 1 .. l + 1 : i \in 1 .. l \/ i = l + 1
      OBVIOUS
    <3>2. \A l \in Nat : 1 .. l \subseteq 1 .. l + 1
      OBVIOUS
    <3>3. ASSUME NEW i \in DOMAIN opened', i \notin DOMAIN opened
          PROVE  opened'[i] \notin TicketsOn(x)
      <4>1. i = Len(opened) + 1
        BY <2>2, <3>1, <3>3
      <4>2. QED
        BY <2>1, <2>2, <4>1
    <3>4. QED
      BY <2>2, <3>2, <3>3
  <2>4. QED
    BY <1>1, <2>3 DEF IsNewest
<1>4. QED
  BY <1>2, <1>3

LEMMA CreatedIsNewest ==
  ASSUME TypeInv, NEW n \in Triggers, IsCreated(n), NEW x, x = ThreadOf(n)
  PROVE  IsNewest(n, x)'
<1>1. ThreadOf(n)' = x
  BY GitHubSame DEF IsCreated
<1>2. n \in TicketsOn(x)'
  BY <1>1 DEF IsCreated, TicketsOn
<1>3. /\ Len(opened) \in Nat /\ DOMAIN opened' = 1 .. Len(opened) + 1
      /\ opened'[Len(opened) + 1] = n
  <2>1. opened \in Seq(Triggers) /\ opened' = Append(opened, n)
    BY DEF TypeInv, TypeOK, IsCreated
  <2>2. QED
    BY <2>1, AppendProperties, LenProperties
<1>4. \A j \in DOMAIN opened' : j <= Len(opened) + 1
  BY <1>3
<1>5. Len(opened) + 1 \in DOMAIN opened'
  BY <1>3
<1>6. QED
  BY <1>2, <1>3, <1>4, <1>5 DEF IsNewest

(* Without bots a thread has at most one ticket, its issue's.               *)
LEMMA OnlyIsNewest ==
  ASSUME TypeInv, RowsInv, AdmittingInv, \A m \in Messages : "bot" \notin Authors[m],
         NEW g \in Triggers, ticket[g] # "absent"
  PROVE  IsNewest(g, ThreadOf(g))
<1>1. ASSUME NEW h \in Triggers, ticket[h] # "absent"
      PROVE  h \in Issues /\ ThreadOf(h) = h
  <2>1. IsWritten(h) /\ author[h] \in Authors[h]
    BY <1>1 DEF RowsInv, AdmittingInv
  <2>2. h \in Issues
    BY <1>1, <2>1, ConstantsAre DEF AdmittingInv, IsBotKnown
  <2>3. QED
    BY <2>2 DEF ThreadOf
<1>2. g \in TicketsOn(g) /\ ThreadOf(g) = g
  BY <1>1 DEF TicketsOn
<1>3. PICK h \in Triggers : IsNewest(h, g)
  BY <1>2, SomeIsNewest
<1>4. h = g
  BY <1>1, <1>3 DEF IsNewest, TicketsOn
<1>5. QED
  BY <1>2, <1>3, <1>4

LEMMA WokenIsNewest ==
  ASSUME TypeInv, LiveInv, NEW x, NEW g \in Triggers, IsWoken(g, x)
  PROVE  IsNewest(g, x)
  BY DEF IsWoken, IsLive, LiveInv, TicketsOn

LEMMA LiveStep ==
  ASSUME OlderStayEnded, TypeInv, RowsInv, AdmittingInv, LiveInv, [Next]_vars
  PROVE  LiveInv'
<1>1. SUFFICES ASSUME NEW g \in Triggers, ticket'[g] = "open"
               PROVE  \A x : x = ThreadOf(g)' => IsNewest(g, x)'
  BY DEF LiveInv, IsNewest, TicketsOn
<1>2. ASSUME ticket[g] # "absent", IsNewest(g, ThreadOf(g)),
             \/ /\ opened' = opened
                /\ \A h \in Triggers : ticket'[h] = "absent" <=> ticket[h] = "absent"
             \/ \E n \in Triggers : IsCreated(n) /\ ThreadOf(n) # ThreadOf(g)
      PROVE  \A x : x = ThreadOf(g)' => IsNewest(g, x)'
  <2>1. ThreadOf(g)' = ThreadOf(g)
    BY <1>2, ThreadStays
  <2>2. ASSUME NEW x, x = ThreadOf(g) PROVE IsNewest(g, x)'
    BY <1>2, <2>2, NewestStays
  <2>3. QED
    BY <2>1, <2>2
<1>3. ASSUME NEW n \in Triggers, IsCreated(n)
      PROVE  \A x : x = ThreadOf(g)' => IsNewest(g, x)'
  <2>1. ThreadOf(g)' = ThreadOf(g)
    BY <1>3, GitHubSame DEF IsCreated
  <2>2. CASE g = n
    BY <1>3, <2>1, <2>2, CreatedIsNewest
  <2>3. CASE g # n
    <3>1. ticket[g] = "open"
      BY <1>1, <1>3, <2>3 DEF IsCreated
    <3>2. ThreadOf(g) # ThreadOf(n)
      BY <1>3, <3>1 DEF IsCreated, IsLive, TicketsOn
    <3>3. QED
      BY <1>2, <1>3, <3>1, <3>2 DEF LiveInv
  <2>4. QED
    BY <2>2, <2>3
<1>4. ASSUME opened' = opened,
             \A h \in Triggers : ticket'[h] = "absent" <=> ticket[h] = "absent"
      PROVE  \A x : x = ThreadOf(g)' => IsNewest(g, x)'
  <2>1. ticket[g] # "absent"
    BY <1>1, <1>4
  <2>2. CASE ticket[g] = "open"
    BY <1>2, <1>4, <2>2 DEF LiveInv
  <2>3. CASE \A m \in Messages : "bot" \notin Authors[m]
    BY <1>2, <1>4, <2>1, <2>3, OnlyIsNewest
  <2>4. CASE ticket[g] = "ended" /\ Pulls = {}
    <3>1. ASSUME NEW p \in Ticks, IsWoken(g, ThreadOf(NextTrigger(p)))
          PROVE  IsNewest(g, ThreadOf(g))
      <4>1. IsNewest(g, ThreadOf(NextTrigger(p)))
        BY <3>1, WokenIsNewest
      <4>2. ThreadOf(g) = ThreadOf(NextTrigger(p))
        BY <4>1 DEF IsNewest, TicketsOn
      <4>3. QED
        BY <4>1, <4>2
    <3>2. ASSUME NEW h \in Triggers, TurnActs(h) PROVE FALSE
      <4>1. g = h
        BY <1>1, <2>4, <3>2, TurnRows
      <4>2. ~Resume(g)
        BY <2>4 DEF Resume, TypeInv, TypeOK
      <4>3. work[g] = "none"
        BY <2>4 DEF RowsInv, IsActive
      <4>4. QED
        BY <1>1, <2>4, <3>2, <4>1, <4>2, <4>3, TurnRows
    <3>3. CASE Crashing
      <4>1. PICK p \in Ticks, h \in Triggers : CrashWhileWaking(p, h)
        BY <1>1, <2>4, <3>3 DEF Crashing, Crash
      <4>2. h = g /\ IsWoken(h, ThreadOf(NextTrigger(p)))
        BY <1>1, <2>4, <4>1 DEF CrashWhileWaking, TypeInv, TypeOK
      <4>3. QED
        BY <1>2, <1>4, <2>1, <3>1, <4>2
    <3>4. ASSUME NEW p \in Ticks, TickActs(p) PROVE IsWoken(g, ThreadOf(NextTrigger(p)))
      BY <1>1, <1>4, <2>4, <3>4, TickRows
    <3>5. ticket' # ticket
      BY <1>1, <2>4
    <3>6. QED
      BY <1>2, <1>4, <2>1, <3>1, <3>2, <3>3, <3>4, <3>5, Steps, GitHubLeaves
         DEF Advance, vars
  <2>5. QED
    BY <2>1, <2>2, <2>3, <2>4 DEF OlderStayEnded, TypeInv, TypeOK
<1>5. QED
  BY <1>3, <1>4, TicketsAre

(* A tick is done with a person's message on a thread at rest only when it  *)
(* has woken the newest ticket, or when a later turn has ended by then.     *)
LEMMA HandledWakes ==
  ASSUME TypeInv, AdmittingInv, LiveInv, NEW p \in Ticks, Handles(p),
         NEW m \in Messages, m = NextTrigger(p), author[m] = "person",
         NEW g \in Triggers, IsNewest(g, ThreadOf(m)), work[g] = "none",
         spoke[g] < At(m)
  PROVE  work'[g] = "pending"
<1>1. CASE Ignore(p)
  <2>1. /\ KindOf(m) = "message" /\ IsAllowed(author[m])
        /\ ThreadContext(ThreadOf(m)) = [state |-> ticket[g], spoke |-> spoke[g]]
        /\ ticket[g] \in {"open", "ended"}
    BY ContextIs, ConstantsAre
       DEF KindOf, IsAllowed, IsNewest, TicketsOn, TypeInv, TypeOK
  <2>2. At(m) > spoke[g]
    BY ConstantsAre, TimesOf DEF TypeInv
  <2>3. Attaches(KindOf(m), author[m], At(m), ThreadContext(ThreadOf(m)))
    BY <2>1, <2>2 DEF Attaches
  <2>4. Verdict(m) # "ignore"
    BY <2>3 DEF Verdict, Judge
  <2>5. QED
    BY <1>1, <2>4 DEF Ignore
<1>2. CASE Admit(p)
  BY <1>2, ConstantsAre DEF Admit, AdmittingInv, IsBotKnown
<1>3. ASSUME NEW h \in Triggers, Wake(p, h) PROVE work'[g] = "pending"
  <2>1. IsWoken(h, ThreadOf(m))
    BY <1>3 DEF Wake
  <2>2. IsNewest(h, ThreadOf(m))
    BY <2>1, WokenIsNewest
  <2>3. h = g
    BY <2>2, OneIsNewest
  <2>4. work' = [work EXCEPT ![g] = "pending"]
    BY <1>3, <2>3 DEF Wake, IsActive
  <2>5. QED
    BY <2>4 DEF TypeInv, TypeOK
<1>4. QED
  BY <1>1, <1>2, <1>3 DEF Handles

(* How the turn that a message awaits gets nearer.                          *)
LEMMA PendingStays ==
  ASSUME TypeInv, [Next]_vars, NEW m \in Messages, IsWritten(m), NEW g \in Triggers,
         ThreadOf(m) = ThreadOf(g), work[g] \in {"launched", "pending"}
  PROVE  work'[g] \in {"launched", "pending"} \/ m \in reached'
<1>1. ASSUME NEW h \in Triggers, TurnActs(h)
      PROVE  work'[g] \in {"launched", "pending"} \/ m \in reached'
  <2>1. CASE g # h
    BY <1>1, <2>1, TurnRows
  <2>2. CASE g = h
    <3>1. \/ BeginTurn(g) \/ PrepareFails(g) \/ work'[g] = work[g]
      BY <1>1, <2>2, TurnRows
    <3>2. BeginTurn(g) \/ PrepareFails(g) => m \in reached'
      BY DEF BeginTurn, PrepareFails, Reaches
    <3>3. QED
      BY <3>1, <3>2
  <2>3. QED
    BY <2>1, <2>2
<1>2. ASSUME NEW p \in Ticks, TickActs(p) PROVE work'[g] = work[g]
  BY <1>2, TickRows
<1>3. CASE Crashing
  BY <1>3, CrashRows
<1>4. QED
  BY <1>1, <1>2, <1>3, Steps, GitHubLeaves DEF Advance, turns, vars

LEMMA AwaitsStays ==
  ASSUME TypeInv, RowsInv, AdmittingInv, LiveInv, [Next]_vars,
         NEW m \in Messages, IsWritten(m), author[m] = "person",
         NEW g \in Triggers, IsNewest(g, ThreadOf(m)), Awaits(m, g)
  PROVE  Awaits(m, g)' \/ m \in reached'
<1>1. ThreadOf(m) = ThreadOf(g) /\ At(m)' = At(m)
  BY GitHubGrows, ConstantsAre DEF IsNewest, TicketsOn, GitHubKept, At
<1>2. CASE work[g] \in {"launched", "pending"}
  BY <1>1, <1>2, PendingStays DEF Awaits
<1>3. CASE m \notin judged /\ work[g] = "none" /\ spoke[g] < At(m)
  <2>1. \/ work'[g] \in {"launched", "pending"}
        \/ work'[g] = "none" /\ spoke'[g] = spoke[g]
    <3>1. ASSUME NEW h \in Triggers, TurnActs(h)
          PROVE  \/ work'[g] \in {"launched", "pending"}
                 \/ work'[g] = "none" /\ spoke'[g] = spoke[g]
      <4>1. CASE g # h
        BY <1>3, <3>1, <4>1, TurnRows
      <4>2. CASE g = h
        BY <1>3, <3>1, <4>2, TurnRows
      <4>3. QED
        BY <4>1, <4>2
    <3>2. ASSUME NEW p \in Ticks, TickActs(p)
          PROVE  spoke' = spoke /\ work'[g] \in {"none", "pending"}
      <4>1. work'[g] \in {"none", "pending"}
        BY <1>3, <3>2, TickRows
      <4>2. QED
        BY <3>2, <4>1, TicksLeave
    <3>3. CASE Crashing
      BY <1>3, <3>3, CrashRows
    <3>4. QED
      BY <1>3, <3>1, <3>2, <3>3, Steps, GitHubLeaves DEF Advance, turns, vars
  <2>2. m \in judged' => work'[g] = "pending"
    <3>1. SUFFICES ASSUME m \in judged' PROVE work'[g] = "pending"
      OBVIOUS
    <3>2. PICK p \in Ticks : Handles(p) /\ m = NextTrigger(p)
      BY <1>3, <3>1, JudgedIs
    <3>3. QED
      BY <1>3, <3>2, HandledWakes
  <2>3. QED
    BY <1>1, <1>3, <2>1, <2>2 DEF Awaits
<1>4. QED
  BY <1>2, <1>3 DEF Awaits
(* A ticket that a bot's message opens beside an ended one is the newest    *)
(* now, and has no turn behind it.                                          *)
LEMMA CreatedAwaits ==
  ASSUME TypeInv, TimesInv, RowsInv, AdmittingInv, LiveInv, [Next]_vars,
         NEW m \in Messages, IsWritten(m), author[m] = "person",
         NEW g \in Triggers, IsNewest(g, ThreadOf(m)), Awaits(m, g),
         NEW n \in Triggers, IsCreated(n), ThreadOf(n) = ThreadOf(m),
         NEW p \in Ticks, Admit(p), n = NextTrigger(p)
  PROVE  ReplyWaits(m)'
<1>1. ThreadOf(m)' = ThreadOf(m) /\ ThreadOf(n)' = ThreadOf(m) /\ At(m)' = At(m)
  BY GitHubSame DEF IsCreated
<1>2. g \in TicketsOn(ThreadOf(n)) /\ ticket[g] # "open"
  BY DEF IsNewest, IsCreated, IsLive
<1>3. m \notin judged
  BY <1>2 DEF Awaits, RowsInv, IsActive
<1>4. n # m
  BY ConstantsAre DEF Admit, AdmittingInv, IsBotKnown
<1>5. m \notin judged'
  <2>1. Handled(p)
    BY DEF Admit
  <2>2. QED
    BY <1>3, <1>4, <2>1 DEF Handled, NextTrigger
<1>6. work'[n] = "none" /\ spoke'[n] = Never
  BY DEF IsCreated, AdmittingInv, RowsInv, IsActive
<1>7. Never < At(m)
  BY ConstantsAre, TimesOf DEF TimesInv, IsDated, At, Never, TypeInv
<1>8. Awaits(m, n)'
  BY <1>1, <1>5, <1>6, <1>7 DEF Awaits
<1>9. ASSUME NEW x, x = ThreadOf(m) PROVE IsNewest(n, x)'
  BY <1>9, CreatedIsNewest
<1>10. QED
  BY <1>1, <1>8, <1>9 DEF ReplyWaits

LEMMA ReachedGrows ==
  ASSUME [Next]_vars
  PROVE  reached \subseteq reached'
<1>1. ASSUME NEW h \in Triggers, TurnActs(h) PROVE reached \subseteq reached'
  BY <1>1 DEF TurnActs, Launch, Resume, BeginTurn, PrepareFails, FinishTurn, Reaches
<1>2. QED
  BY <1>1, Steps, GitHubLeaves, CrashLeaves, TicksLeave DEF Advance, turns, vars

LEMMA WaitingStays ==
  ASSUME TypeInv, TimesInv, RowsInv, AdmittingInv, LiveInv, [Next]_vars,
         NEW m \in Messages, IsWritten(m), author[m] = "person", ReplyWaits(m)
  PROVE  ReplyWaits(m)'
<1>1. CASE m \in reached
  BY <1>1, ReachedGrows DEF ReplyWaits
<1>2. CASE m \notin reached
  <2>1. PICK g \in Triggers : IsNewest(g, ThreadOf(m)) /\ Awaits(m, g)
    BY <1>2 DEF ReplyWaits
  <2>2. ThreadOf(m)' = ThreadOf(m)
    BY GitHubGrows, ConstantsAre DEF GitHubKept
  <2>3. ASSUME \/ /\ opened' = opened
                  /\ \A h \in Triggers : ticket'[h] = "absent" <=> ticket[h] = "absent"
               \/ \E n \in Triggers : IsCreated(n) /\ ThreadOf(n) # ThreadOf(m)
        PROVE  ReplyWaits(m)'
    <3>1. ASSUME NEW x, x = ThreadOf(m) PROVE IsNewest(g, x)'
      BY <2>1, <2>3, <3>1, NewestStays
    <3>2. Awaits(m, g)' \/ m \in reached'
      BY <2>1, AwaitsStays
    <3>3. QED
      BY <2>2, <3>1, <3>2 DEF ReplyWaits
  <2>4. ASSUME NEW p \in Ticks, NEW n \in Triggers, Admit(p), n = NextTrigger(p),
               IsCreated(n), ThreadOf(n) = ThreadOf(m)
        PROVE  ReplyWaits(m)'
    BY <2>1, <2>4, CreatedAwaits
  <2>5. QED
    BY <2>3, <2>4, TicketsAre
<1>3. QED
  BY <1>1, <1>2

(* A message that finds its ticket at rest is newer than its last turn.     *)
LEMMA NewReplyWaits ==
  ASSUME TypeInv, RowsInv, AdmittingInv, [Next]_vars,
         NEW m \in Messages, ~IsWritten(m), author'[m] = "person",
         message'[m].found = "quiet"
  PROVE  ReplyWaits(m)'
<1>1. author' # author
  BY DEF IsWritten
<1>2. GitHubNext
  BY <1>1, GitHubRests DEF github, vars
<1>3. ASSUME NEW x \in Issues, NEW by \in Authors[x], Label(x, by) PROVE FALSE
  BY <1>3, ConstantsAre DEF Label, IsWritten, TypeInv, TypeOK
<1>4. PICK n \in Messages : \E x \in Threads : \E by \in Authors[n] : Post(n, x, by)
  BY <1>1, <1>2, <1>3 DEF GitHubNext, TouchPull
<1>5. PICK x \in Threads : \E by \in Authors[n] : Post(n, x, by)
  BY <1>4
<1>6. PICK by \in Authors[n] : Post(n, x, by)
  BY <1>5
<1>7. n = m
  BY <1>6, ConstantsAre DEF Post, IsWritten, TypeInv, TypeOK
<1>8. message'[m] = [thread |-> x, at |-> now, found |-> Found(x)]
  BY <1>6, <1>7 DEF Post, TypeInv, TypeOK
<1>9. ThreadOf(m)' = x /\ At(m)' = now /\ Found(x) = "quiet"
  BY <1>8, ConstantsAre DEF ThreadOf, At
<1>10. PICK g \in Triggers : IsNewest(g, x)
  <2>1. TicketsOn(x) # {}
    BY <1>9 DEF Found
  <2>2. QED
    BY <2>1, SomeIsNewest
<1>11. work[g] = "none" /\ spoke[g] < now
  <2>1. (CHOOSE h \in Triggers : IsNewest(h, x)) = g /\ TicketsOn(x) # {}
    BY <1>10, ContextIs
  <2>2. ~IsActive(g) /\ now > spoke[g]
    BY <1>9, <2>1 DEF Found
  <2>3. QED
    BY <2>2, TimesOf DEF IsActive, TypeInv
<1>12. UNCHANGED <<ticket, opened, turns, judged>>
  BY <1>2, GitHubLeaves
<1>13. m \notin judged'
  BY <1>12, ConstantsAre DEF AdmittingInv
<1>14. Awaits(m, g)'
  BY <1>9, <1>11, <1>12, <1>13 DEF Awaits, turns
<1>15. IsNewest(g, x)'
  BY <1>10, <1>12, NewestStays
<1>16. QED
  BY <1>9, <1>14, <1>15 DEF ReplyWaits

LEMMA RepliesStep ==
  ASSUME TypeInv, TimesInv, RowsInv, AdmittingInv, LiveInv, RepliesInv, [Next]_vars
  PROVE  RepliesInv'
<1>1. SUFFICES ASSUME NEW m \in Messages, author'[m] = "person",
                      message'[m].found = "quiet"
               PROVE  ReplyWaits(m)'
  BY DEF RepliesInv
<1>2. CASE IsWritten(m)
  <2>1. author'[m] = author[m] /\ message'[m] = message[m]
    BY <1>2, GitHubGrows, ConstantsAre DEF GitHubKept
  <2>2. ReplyWaits(m)
    BY <1>1, <2>1 DEF RepliesInv
  <2>3. QED
    BY <1>1, <1>2, <2>1, <2>2, WaitingStays
<1>3. CASE ~IsWritten(m)
  BY <1>1, <1>3, NewReplyWaits
<1>4. QED
  BY <1>2, <1>3

LEMMA RepliesInit ==
  ASSUME Init
  PROVE  AdmittingInv /\ LiveInv /\ RepliesInv
<1>1. \A p \in Ticks : tick[p].step # "admitting"
  BY IdleIs DEF Init
<1>2. QED
  BY <1>1, ConstantsAre
     DEF Init, AdmittingInv, LiveInv, RepliesInv, IsWritten, Unwritten

(* A person's message on a thread whose ticket was at rest reaches a turn   *)
(* (RepliesAreServed) as long as the open ticket of a thread is its newest. *)
THEOREM NewestIsServed == Spec /\ []LiveInv => []RepliesAreServed
<1> DEFINE Inv == TypeInv /\ TimesInv /\ RowsInv /\ AdmittingInv /\ RepliesInv
<1>1. Init => Inv
  BY TypeInit, TimesInit, RowsInit, RepliesInit
<1>2. Inv /\ LiveInv /\ [Next]_vars => Inv'
  BY TypeStep, TimesStep, RowsStep, AdmittingKept, RepliesStep
<1>3. Inv => RepliesAreServed
  <2>1. ASSUME RepliesInv, NEW m \in judged \cap Messages, author[m] = "person",
               message[m].found = "quiet"
        PROVE  IsServed(m)
    <3>1. ReplyWaits(m)
      BY <2>1 DEF RepliesInv
    <3>2. QED
      BY <3>1 DEF ReplyWaits, Awaits, IsServed, IsNewest, IsActive
  <2>2. QED
    BY <2>1 DEF RepliesAreServed
<1>4. QED
  BY <1>1, <1>2, <1>3, PTL DEF Spec

(* Where no bot's message is admitted beside an ended ticket, or no ticket  *)
(* has a pull request to be resumed for, that is always so: a reply on a    *)
(* thread at rest reaches a turn (RepliesAreServed).                        *)
THEOREM RepliesReachATurn ==
  ASSUME OlderStayEnded
  PROVE  Spec => []RepliesAreServed
<1> DEFINE Inv == TypeInv /\ RowsInv /\ AdmittingInv /\ LiveInv
<1>1. Init => Inv
  BY TypeInit, RowsInit, RepliesInit
<1>2. Inv /\ [Next]_vars => Inv'
  BY TypeStep, RowsStep, AdmittingKept, LiveStep
<1>3. Spec => []LiveInv
  BY <1>1, <1>2, PTL DEF Spec
<1>4. QED
  BY <1>3, NewestIsServed, PTL
=============================================================================
