------------------------ MODULE ConversationPairing -------------------------
(***************************************************************************)
(* Requests are paired: what the ChatTurns and ChatsInTurn runs check of   *)
(* two chats and a few calls, proved for every number of chats, sessions,  *)
(* steps and calls.  A reply and the results of its calls are together     *)
(* where a turn says them (SaidPaired), where a step is settled into the   *)
(* log (LogPaired), where an interrupted turn is repaired (Unfinished), in *)
(* what a session shows of its log under its summaries (HistoryPaired),    *)
(* and in what the next summary would leave (CutsPaired): PairedInv, with  *)
(* the invariants of ConversationProofs.                                   *)
(***************************************************************************)
EXTENDS ConversationProofs

(* What one sequence and then another are, place by place.                 *)
Concatenates(all, f, g, m, l) ==
  /\ IsSeq(all) /\ Len(all) = m + l
  /\ \A x \in 1 .. m : all[x] = f[x]
  /\ \A x \in 1 .. l : all[m + x] = g[x]
LEMMA ConcatAre ==
  ASSUME NEW f, NEW g, IsSeq(f), IsSeq(g), NEW m, m = Len(f), NEW l, l = Len(g)
  PROVE  Concatenates(f \o g, f, g, m, l)
BY ConcatSeq DEF Concatenates

-----------------------------------------------------------------------------
(* Requests are paired.  A reply at i and the n results after it, message   *)
(* by message.                                                              *)
AnsweredBy(ms, i, n) ==
  /\ i + n <= Len(ms)
  /\ \A k \in 1 .. n : /\ ms[i + k].kind = "tool"
                       /\ ms[i + k].calls \subseteq ms[i].calls
  /\ \A c \in ms[i].calls : \E k \in 1 .. n : c \in ms[i + k].calls
Counted(ms) == \A i \in DOMAIN ms : Cardinality(ms[i].calls) \in Nat

LEMMA AnsweredIs ==
  ASSUME NEW ms, NEW i, NEW n, n = Cardinality(ms[i].calls)
  PROVE  IsAnswered(ms, i) <=> AnsweredBy(ms, i, n)
<1>1. (UNION {ms[i + k].calls : k \in 1 .. n} = ms[i].calls)
        <=> /\ \A k \in 1 .. n : ms[i + k].calls \subseteq ms[i].calls
            /\ \A c \in ms[i].calls : \E k \in 1 .. n : c \in ms[i + k].calls
  OBVIOUS
<1>2. QED
  BY <1>1 DEF IsAnswered, AnsweredBy

(* The same messages elsewhere.                                             *)
LEMMA AnsweredThere ==
  ASSUME NEW f, NEW i \in Nat, NEW n \in Nat, AnsweredBy(f, i, n),
         NEW g, NEW j \in Nat, j + n <= Len(g),
         \A k \in 0 .. n : g[j + k] = f[i + k]
  PROVE  AnsweredBy(g, j, n)
<1>1. g[j] = f[i]
  <2>1. 0 \in 0 .. n /\ j + 0 = j /\ i + 0 = i
    OBVIOUS
  <2>2. QED
    BY <2>1
<1>2. \A k \in 1 .. n : g[j + k] = f[i + k]
  OBVIOUS
<1>3. \A k \in 1 .. n : /\ g[j + k].kind = "tool"
                        /\ g[j + k].calls \subseteq g[j].calls
  BY <1>1, <1>2 DEF AnsweredBy
<1>4. \A c \in g[j].calls : \E k \in 1 .. n : c \in g[j + k].calls
  <2>1. ASSUME NEW c \in g[j].calls
        PROVE  \E k \in 1 .. n : c \in g[j + k].calls
    <3>1. PICK k \in 1 .. n : c \in f[i + k].calls
      BY <1>1, <2>1 DEF AnsweredBy
    <3>2. g[j + k] = f[i + k]
      BY <1>2
    <3>3. QED
      BY <3>1, <3>2
  <2>2. QED
    BY <2>1
<1>5. QED
  BY <1>3, <1>4 DEF AnsweredBy

(* Paired, message by message.                                              *)
PairedAt(ms, i) ==
  /\ ms[i].kind = "assistant" => AnsweredBy(ms, i, Cardinality(ms[i].calls))
  /\ ms[i].kind = "tool" => IsCalledFor(ms, i)
LEMMA PairedIs ==
  ASSUME NEW ms
  PROVE  Paired(ms) <=> \A i \in DOMAIN ms : PairedAt(ms, i)
BY AnsweredIs DEF Paired, PairedAt

LEMMA JoinedBefore ==
  ASSUME NEW f, NEW g, NEW all, Joined(f, g, all), IsSeq(g), Counted(f),
         NEW i \in DOMAIN f, PairedAt(f, i)
  PROVE  PairedAt(all, i)
<1>1. /\ Len(f) \in Nat /\ DOMAIN f = 1 .. Len(f) /\ Len(all) \in Nat
      /\ DOMAIN all = 1 .. Len(all)
      /\ \A x \in DOMAIN f : x \in DOMAIN all
      /\ \A x \in DOMAIN f : all[x] = f[x]
  BY SeqFacts DEF Joined
<1>2. i \in Nat /\ i >= 1
  BY <1>1
<1>3. Len(f) <= Len(all)
  BY <1>1, <1>2
<1>4. ASSUME all[i].kind = "assistant"
      PROVE  AnsweredBy(all, i, Cardinality(all[i].calls))
  <2>1. PICK n : n = Cardinality(f[i].calls)
    OBVIOUS
  <2>2. n \in Nat /\ AnsweredBy(f, i, n) /\ n = Cardinality(all[i].calls)
    BY <1>1, <1>4, <2>1 DEF Counted, PairedAt
  <2>3. i + n <= Len(f)
    BY <2>2 DEF AnsweredBy
  <2>4. \A k \in 0 .. n : i + k \in DOMAIN f
    BY <1>1, <1>2, <2>2, <2>3
  <2>5. \A k \in 0 .. n : all[i + k] = f[i + k]
    BY <1>1, <2>4
  <2>6. i + n <= Len(all)
    BY <1>1, <1>2, <1>3, <2>2, <2>3
  <2>7. AnsweredBy(all, i, n)
    BY <1>2, <2>2, <2>5, <2>6, AnsweredThere, Zenon
  <2>8. QED
    BY <2>2, <2>7
<1>5. ASSUME all[i].kind = "tool"
      PROVE  IsCalledFor(all, i)
  <2>1. PICK j \in 1 .. i - 1 : /\ f[j].kind = "assistant"
                                /\ f[i].calls \subseteq f[j].calls
                                /\ i <= j + Cardinality(f[j].calls)
    BY <1>1, <1>5 DEF PairedAt, IsCalledFor
  <2>2. j \in DOMAIN f
    BY <1>1, <1>2, <2>1
  <2>3. QED
    BY <1>1, <2>1, <2>2 DEF IsCalledFor
<1>6. QED
  BY <1>4, <1>5 DEF PairedAt

LEMMA JoinedAfter ==
  ASSUME NEW f, NEW g, NEW all, Joined(f, g, all), IsSeq(g), Counted(g),
         NEW x \in DOMAIN g, PairedAt(g, x)
  PROVE  PairedAt(all, Len(f) + x)
<1>1. PICK m, i : m = Len(f) /\ i = m + x
  OBVIOUS
<1>2. m \in Nat /\ Len(g) \in Nat /\ DOMAIN g = 1 .. Len(g) /\ Len(all) \in Nat
      /\ DOMAIN all = 1 .. Len(all)
      /\ \A y \in DOMAIN g : m + y \in DOMAIN all /\ all[m + y] = g[y]
  BY <1>1, SeqFacts DEF Joined
<1>3. x \in Nat /\ x >= 1 /\ i \in Nat /\ all[i] = g[x]
  BY <1>1, <1>2
<1>4. ASSUME all[i].kind = "assistant"
      PROVE  AnsweredBy(all, i, Cardinality(all[i].calls))
  <2>1. PICK n : n = Cardinality(g[x].calls)
    OBVIOUS
  <2>2. n \in Nat /\ AnsweredBy(g, x, n) /\ n = Cardinality(all[i].calls)
    BY <1>3, <1>4, <2>1 DEF Counted, PairedAt
  <2>3. x + n <= Len(g)
    BY <2>2 DEF AnsweredBy
  <2>4. \A k \in 0 .. n : x + k \in DOMAIN g /\ m + (x + k) = i + k
    BY <1>1, <1>2, <1>3, <2>2, <2>3
  <2>5. \A k \in 0 .. n : all[i + k] = g[x + k] /\ i + k \in DOMAIN all
    BY <1>2, <2>4
  <2>6. i + n <= Len(all)
    BY <1>2, <1>3, <2>2, <2>5
  <2>7. AnsweredBy(all, i, n)
    BY <1>3, <2>2, <2>5, <2>6, AnsweredThere, Zenon
  <2>8. QED
    BY <2>2, <2>7
<1>5. ASSUME all[i].kind = "tool"
      PROVE  IsCalledFor(all, i)
  <2>1. PICK j \in 1 .. x - 1 : /\ g[j].kind = "assistant"
                                /\ g[x].calls \subseteq g[j].calls
                                /\ x <= j + Cardinality(g[j].calls)
    BY <1>3, <1>5 DEF PairedAt, IsCalledFor
  <2>2. j \in DOMAIN g /\ m + j \in 1 .. i - 1 /\ all[m + j] = g[j]
    BY <1>1, <1>2, <1>3, <2>1
  <2>3. PICK n : n = Cardinality(g[j].calls)
    OBVIOUS
  <2>4. n \in Nat
    BY <2>2, <2>3 DEF Counted
  <2>5. x <= j + n
    BY <2>1, <2>3
  <2>6. j \in Nat /\ i <= m + j + n
    BY <1>1, <1>2, <1>3, <2>4, <2>5
  <2>7. QED
    BY <1>3, <2>1, <2>2, <2>3, <2>6 DEF IsCalledFor
<1>6. QED
  BY <1>1, <1>4, <1>5 DEF PairedAt

LEMMA PairedJoined ==
  ASSUME NEW f, NEW g, NEW all, all = f \o g, IsSeq(f), IsSeq(g),
         Counted(f), Counted(g), Paired(f), Paired(g)
  PROVE  Paired(all) /\ Counted(all)
<1>1. Joined(f, g, all)
  BY Split
<1>2. \A i \in DOMAIN f : PairedAt(all, i)
  BY <1>1, PairedIs, JoinedBefore
<1>3. \A x \in DOMAIN g : PairedAt(all, Len(f) + x)
  BY <1>1, PairedIs, JoinedAfter
<1>4. \A i \in DOMAIN all : PairedAt(all, i)
  BY <1>1, <1>2, <1>3 DEF Joined
<1>5. Counted(all)
  BY <1>1 DEF Joined, Counted
<1>6. QED
  BY <1>4, <1>5, PairedIs

(* What is left of paired messages, when those before are paired.           *)
LEMMA RestAnswered ==
  ASSUME NEW f, NEW g, NEW all, all = f \o g, IsSeq(f), IsSeq(g),
         Counted(all), Paired(all), NEW x \in DOMAIN g, g[x].kind = "assistant"
  PROVE  AnsweredBy(g, x, Cardinality(g[x].calls))
<1>1. PICK m, l, i, n : /\ m = Len(f) /\ l = Len(g) /\ i = m + x
                        /\ n = Cardinality(g[x].calls)
  OBVIOUS
<1>2. /\ m \in Nat /\ l \in Nat /\ DOMAIN g = 1 .. l /\ DOMAIN all = 1 .. m + l
      /\ Len(all) = m + l /\ \A y \in 1 .. l : all[m + y] = g[y]
  BY <1>1, ConcatSeq
<1>3. x \in Nat /\ i \in Nat /\ i \in DOMAIN all /\ all[i] = g[x]
  BY <1>1, <1>2
<1>4. n \in Nat
  BY <1>1, <1>3 DEF Counted
<1>5. AnsweredBy(all, i, n)
  <2>1. PairedAt(all, i)
    BY <1>3, PairedIs
  <2>2. QED
    BY <1>1, <1>3, <2>1 DEF PairedAt
<1>6. i + n <= m + l
  BY <1>2, <1>5 DEF AnsweredBy
<1>7. x + n <= Len(g)
  BY <1>1, <1>2, <1>3, <1>4, <1>6
<1>8. \A k \in 0 .. n : g[x + k] = all[i + k]
  <2>1. /\ x + n <= l /\ 1 <= x /\ i = m + x
        /\ x \in Nat /\ n \in Nat /\ m \in Nat /\ l \in Nat
    BY <1>1, <1>2, <1>3, <1>4, <1>7
  <2>2. ASSUME NEW k \in 0 .. n
        PROVE  x + k \in 1 .. l /\ m + (x + k) = i + k
    BY <2>1
  <2>3. QED
    BY <1>2, <2>2
<1>9. AnsweredBy(g, x, n)
  BY <1>3, <1>4, <1>5, <1>7, <1>8, AnsweredThere, Zenon
<1>10. QED
  BY <1>1, <1>9

LEMMA RestCalledFor ==
  ASSUME NEW f, NEW g, NEW all, all = f \o g, IsSeq(f), IsSeq(g),
         Counted(all), Paired(all), Paired(f),
         NEW x \in DOMAIN g, g[x].kind = "tool"
  PROVE  IsCalledFor(g, x)
<1>1. PICK m, l, i : m = Len(f) /\ l = Len(g) /\ i = m + x
  OBVIOUS
<1>2. /\ m \in Nat /\ l \in Nat /\ DOMAIN g = 1 .. l /\ DOMAIN all = 1 .. m + l
      /\ DOMAIN f = 1 .. m
      /\ \A y \in 1 .. l : all[m + y] = g[y]
      /\ \A y \in 1 .. m : all[y] = f[y]
  BY <1>1, ConcatSeq
<1>3. x \in Nat /\ x <= l /\ i \in Nat /\ i \in DOMAIN all /\ all[i] = g[x]
  BY <1>1, <1>2
<1>4. PICK j \in 1 .. i - 1 : /\ all[j].kind = "assistant"
                              /\ all[i].calls \subseteq all[j].calls
                              /\ i <= j + Cardinality(all[j].calls)
  <2>1. PairedAt(all, i)
    BY <1>3, PairedIs
  <2>2. QED
    BY <1>3, <2>1 DEF PairedAt, IsCalledFor
<1>5. PICK n : n = Cardinality(all[j].calls)
  OBVIOUS
<1>6. j \in Nat /\ 1 <= j /\ j <= i - 1 /\ j \in DOMAIN all /\ n \in Nat
  <2>1. j \in Nat /\ 1 <= j /\ j <= i - 1 /\ j \in DOMAIN all
    BY <1>1, <1>2, <1>3
  <2>2. QED
    BY <1>5, <2>1 DEF Counted
<1>7. i <= j + n
  BY <1>4, <1>5
<1>8. ~(j <= m)
  <2>1. SUFFICES ASSUME j <= m
        PROVE  FALSE
    OBVIOUS
  <2>2. j \in DOMAIN f /\ all[j] = f[j]
    BY <1>2, <1>6, <2>1
  <2>3. PairedAt(f, j)
    BY <2>2, PairedIs
  <2>4. AnsweredBy(f, j, n)
    BY <1>4, <1>5, <2>2, <2>3 DEF PairedAt
  <2>5. j + n <= m
    BY <1>1, <2>4 DEF AnsweredBy
  <2>6. QED
    BY <1>1, <1>2, <1>3, <1>6, <1>7, <2>5
<1>9. PICK y : y = j - m
  OBVIOUS
<1>10. y \in 1 .. x - 1 /\ y \in 1 .. l /\ m + y = j
  BY <1>1, <1>2, <1>3, <1>6, <1>8, <1>9
<1>11. g[y] = all[j]
  BY <1>2, <1>10
<1>12. x <= y + n
  BY <1>1, <1>2, <1>3, <1>6, <1>7, <1>9
<1>13. QED
  BY <1>3, <1>4, <1>5, <1>10, <1>11, <1>12 DEF IsCalledFor

LEMMA PairedRest ==
  ASSUME NEW f, NEW g, NEW all, all = f \o g, IsSeq(f), IsSeq(g),
         Counted(all), Paired(all), Paired(f)
  PROVE  Paired(g)
<1>1. \A x \in DOMAIN g : PairedAt(g, x)
  BY RestAnswered, RestCalledFor DEF PairedAt
<1>2. QED
  BY <1>1, PairedIs

-----------------------------------------------------------------------------
(* Logs that are paired, as they grow.                                      *)

TurnsAgree(ms) ==
  \A i \in DOMAIN ms : ms[i].kind = "assistant" =>
    \A j \in ResultsAt(ms, i) : ms[j].turn = ms[i].turn
FitsPaired(log, ms) ==
  /\ IsSeq(ms) /\ Counted(ms) /\ Paired(ms) /\ TurnsAgree(ms)
  /\ \A i \in DOMAIN ms : ms[i].kind = "summary" =>
       ms[i].cutoff \in 0 .. Len(log) /\ CutsNone(log, ms[i].cutoff)

LEMMA CutsStill ==
  ASSUME NEW log, NEW all, DOMAIN log = 1 .. Len(log), Len(log) \in Nat,
         \A i \in DOMAIN log : all[i] = log[i], DOMAIN all \subseteq Nat \ {0},
         NEW c \in 0 .. Len(log), CutsNone(log, c)
  PROVE  CutsNone(all, c)
<1>1. SUFFICES ASSUME NEW i \in DOMAIN all, all[i].kind = "assistant", i <= c
      PROVE  i + Cardinality(all[i].calls) <= c
  BY DEF CutsNone
<1>2. i \in DOMAIN log /\ all[i] = log[i]
  BY <1>1
<1>3. QED
  BY <1>1, <1>2 DEF CutsNone

(* The results of a reply are messages.                                     *)
LEMMA ResultsAreIn ==
  ASSUME NEW ms, IsSeq(ms), Counted(ms), Paired(ms), NEW i \in DOMAIN ms,
         ms[i].kind = "assistant", NEW j \in ResultsAt(ms, i)
  PROVE  j \in DOMAIN ms /\ ms[j].kind = "tool"
<1>1. PICK n, l : n = Cardinality(ms[i].calls) /\ l = Len(ms)
  OBVIOUS
<1>2. l \in Nat /\ DOMAIN ms = 1 .. l /\ i \in Nat /\ 1 <= i
  BY <1>1, SeqFacts
<1>3. n \in Nat
  BY <1>1 DEF Counted
<1>4. AnsweredBy(ms, i, n)
  BY <1>1, PairedIs DEF PairedAt
<1>5. j \in i + 1 .. i + n /\ i + n <= l
  BY <1>1, <1>4 DEF ResultsAt, AnsweredBy
<1>6. j \in 1 .. l /\ j - i \in 1 .. n /\ i + (j - i) = j
  BY <1>2, <1>3, <1>5
<1>7. QED
  BY <1>2, <1>4, <1>6 DEF AnsweredBy

LEMMA LogJoined ==
  ASSUME NEW log, NEW ms, NEW all, all = log \o ms, IsSeq(log), Counted(log),
         LogPaired(log), FitsPaired(log, ms)
  PROVE  LogPaired(all) /\ Counted(all) /\ IsSeq(all)
<1>1. PICK m, l : m = Len(log) /\ l = Len(ms)
  OBVIOUS
<1>2. IsSeq(ms) /\ Counted(ms) /\ Paired(ms) /\ TurnsAgree(ms) /\ Paired(log)
  BY DEF FitsPaired, LogPaired
<1>3. /\ m \in Nat /\ l \in Nat /\ IsSeq(all)
      /\ DOMAIN log = 1 .. m /\ DOMAIN ms = 1 .. l /\ DOMAIN all = 1 .. m + l
      /\ \A y \in 1 .. m : all[y] = log[y]
      /\ \A y \in 1 .. l : all[m + y] = ms[y]
  BY <1>1, <1>2, ConcatSeq
<1>4. Paired(all) /\ Counted(all)
  BY <1>2, PairedJoined
<1>5. ASSUME NEW c \in 0 .. m, CutsNone(log, c)
      PROVE  CutsNone(all, c)
  <2>1. DOMAIN all \subseteq Nat \ {0}
    BY <1>3
  <2>2. QED
    BY <1>1, <1>3, <1>5, <2>1, CutsStill
<1>6. ASSUME NEW i \in DOMAIN all, all[i].kind = "assistant",
             NEW j \in ResultsAt(all, i)
      PROVE  all[j].turn = all[i].turn
  <2>1. PICK n : n = Cardinality(all[i].calls)
    OBVIOUS
  <2>2. n \in Nat /\ i \in Nat /\ j \in i + 1 .. i + n
    BY <1>3, <1>4, <1>6, <2>1 DEF Counted, ResultsAt
  <2>3. CASE i \in 1 .. m
    <3>1. all[i] = log[i] /\ i \in DOMAIN log
      BY <1>3, <2>3
    <3>2. j \in ResultsAt(log, i)
      BY <1>6, <3>1 DEF ResultsAt
    <3>3. j \in DOMAIN log
      BY <1>2, <1>6, <3>1, <3>2, ResultsAreIn
    <3>4. all[j] = log[j]
      BY <1>3, <3>3
    <3>5. log[j].turn = log[i].turn
      BY <1>6, <3>1, <3>2 DEF LogPaired
    <3>6. QED
      BY <3>1, <3>4, <3>5
  <2>4. CASE i \notin 1 .. m
    <3>1. PICK x, y : x = i - m /\ y = j - m
      OBVIOUS
    <3>2. x \in 1 .. l /\ m + x = i /\ all[i] = ms[x] /\ x \in DOMAIN ms
      <4>1. x \in 1 .. l /\ m + x = i
        BY <1>3, <2>4, <3>1
      <4>2. QED
        BY <1>3, <4>1
    <3>3. n = Cardinality(ms[x].calls) /\ x \in Nat
      BY <1>3, <2>1, <3>2
    <3>4. y \in x + 1 .. x + n
      <4>1. j \in Int /\ i + 1 <= j /\ j <= i + n
        BY <2>2
      <4>2. m \in Nat /\ n \in Nat /\ x \in Nat /\ i = m + x /\ y = j - m
        BY <1>3, <2>2, <3>1, <3>2, <3>3
      <4>3. x + 1 <= y /\ y <= x + n /\ y \in Int
        BY <4>1, <4>2
      <4>4. QED
        BY <4>2, <4>3
    <3>5. y \in ResultsAt(ms, x)
      BY <3>3, <3>4 DEF ResultsAt
    <3>6. y \in DOMAIN ms
      BY <1>2, <1>6, <3>2, <3>5, ResultsAreIn
    <3>7. all[j] = ms[y]
      <4>1. m + y = j
        BY <1>3, <2>2, <3>1
      <4>2. QED
        BY <1>3, <3>6, <4>1
    <3>8. ms[y].turn = ms[x].turn
      BY <1>2, <1>6, <3>2, <3>5 DEF TurnsAgree
    <3>9. QED
      BY <3>2, <3>7, <3>8
  <2>5. QED
    BY <2>3, <2>4
<1>7. ASSUME NEW i \in DOMAIN all, all[i].kind = "summary"
      PROVE  all[i].cutoff \in 0 .. i - 1 /\ CutsNone(all, all[i].cutoff)
  <2>1. PICK c : c = all[i].cutoff
    OBVIOUS
  <2>2. CASE i \in 1 .. m
    <3>1. all[i] = log[i] /\ i \in DOMAIN log
      BY <1>3, <2>2
    <3>2. c \in 0 .. i - 1 /\ CutsNone(log, c)
      BY <1>7, <2>1, <3>1 DEF LogPaired
    <3>3. c \in 0 .. m
      BY <1>3, <2>2, <3>2
    <3>4. QED
      BY <1>5, <2>1, <3>2, <3>3
  <2>3. CASE i \notin 1 .. m
    <3>1. PICK x : x = i - m
      OBVIOUS
    <3>2. x \in 1 .. l /\ m + x = i
      BY <1>3, <2>3, <3>1
    <3>3. all[i] = ms[x] /\ x \in DOMAIN ms
      BY <1>3, <3>2
    <3>4. c \in 0 .. m /\ CutsNone(log, c)
      BY <1>1, <1>7, <2>1, <3>3 DEF FitsPaired
    <3>5. c \in 0 .. i - 1
      BY <1>3, <3>2, <3>4
    <3>6. QED
      BY <1>5, <2>1, <3>4, <3>5
  <2>4. QED
    BY <2>2, <2>3
<1>8. LogPaired(all)
  BY <1>4, <1>6, <1>7 DEF LogPaired
<1>9. QED
  BY <1>3, <1>4, <1>8

-----------------------------------------------------------------------------
(* Sequences in parts.                                                      *)

LEMMA SeqSame ==
  ASSUME NEW a, NEW b, IsSeq(a), IsSeq(b), NEW n, Len(a) = n, Len(b) = n,
         \A i \in 1 .. n : a[i] = b[i]
  PROVE  a = b
<1>1. PICK S : a \in Seq(S)
  BY DEF IsSeq
<1>2. PICK T : b \in Seq(T)
  BY DEF IsSeq
<1>3. a \in Seq(S \cup T) /\ b \in Seq(S \cup T)
  BY <1>1, <1>2, SeqMonotonic
<1>4. QED
  BY <1>3, SeqEqual

LEMMA Head2Is ==
  ASSUME NEW f, IsSeq(f), NEW k \in 0 .. Len(f)
  PROVE  /\ IsSeq(Head2(f, k)) /\ Len(Head2(f, k)) = k
         /\ DOMAIN Head2(f, k) = 1 .. k
         /\ \A i \in 1 .. k : Head2(f, k)[i] = f[i]
<1>1. PICK n : n = Len(f)
  OBVIOUS
<1>2. n \in Nat /\ k \in 0 .. n /\ 1 \in Nat \ {0}
  BY <1>1, SeqFacts
<1>3. PICK h : h = Head2(f, k)
  OBVIOUS
<1>4. /\ IsSeq(h) /\ Len(h) = IF 1 <= k THEN k - 1 + 1 ELSE 0
      /\ DOMAIN h = 1 .. Len(h)
      /\ \A i \in 1 .. k - 1 + 1 : h[i] = f[1 + i - 1]
  BY <1>1, <1>2, <1>3, SubSeqSeq DEF Head2
<1>5. Len(h) = k /\ k - 1 + 1 = k
  BY <1>2, <1>4
<1>6. \A i \in 1 .. k : 1 + i - 1 = i
  BY <1>2
<1>7. QED
  BY <1>3, <1>4, <1>5, <1>6

LEMMA HeadTail ==
  ASSUME NEW f, IsSeq(f), NEW k \in 0 .. Len(f)
  PROVE  f = Head2(f, k) \o Tail2(f, k)
<1>1. PICK n, h, t, g : /\ n = Len(f) /\ h = Head2(f, k) /\ t = Tail2(f, k)
                        /\ g = h \o t
  OBVIOUS
<1>2. n \in Nat /\ k \in 0 .. n
  BY <1>1, SeqFacts
<1>3. IsSeq(h) /\ Len(h) = k /\ \A i \in 1 .. k : h[i] = f[i]
  BY <1>1, Head2Is
<1>4. IsSeq(t) /\ Len(t) = n - k /\ \A i \in 1 .. n - k : t[i] = f[k + i]
  BY <1>1, Tail2Is
<1>5. /\ IsSeq(g) /\ Len(g) = k + (n - k)
      /\ \A i \in 1 .. k : g[i] = h[i]
      /\ \A i \in 1 .. n - k : g[k + i] = t[i]
  BY <1>1, <1>3, <1>4, ConcatSeq
<1>6. Len(g) = n
  BY <1>2, <1>5
<1>7. ASSUME NEW i \in 1 .. n
      PROVE  f[i] = g[i]
  <2>1. CASE i <= k
    BY <1>2, <1>3, <1>5, <2>1
  <2>2. CASE ~(i <= k)
    <3>1. PICK j : j = i - k
      OBVIOUS
    <3>2. j \in 1 .. n - k /\ k + j = i
      BY <1>2, <2>2, <3>1
    <3>3. QED
      BY <1>4, <1>5, <3>2
  <2>3. QED
    BY <2>1, <2>2
<1>8. f = g
  <2>1. Len(f) = n /\ IsSeq(g)
    BY <1>1, <1>5
  <2>2. QED
    BY <1>6, <1>7, <2>1, SeqSame, Zenon
<1>9. QED
  BY <1>1, <1>8

LEMMA Associates ==
  ASSUME NEW a, NEW b, NEW c, IsSeq(a), IsSeq(b), IsSeq(c)
  PROVE  (a \o b) \o c = a \o (b \o c)
<1>1. PICK A : a \in Seq(A)
  BY DEF IsSeq
<1>2. PICK B : b \in Seq(B)
  BY DEF IsSeq
<1>3. PICK C : c \in Seq(C)
  BY DEF IsSeq
<1>4. PICK S : S = A \cup B \cup C
  OBVIOUS
<1>5. a \in Seq(S) /\ b \in Seq(S) /\ c \in Seq(S)
  <2>1. a \in Seq(A \cup B \cup C) /\ b \in Seq(A \cup B \cup C)
        /\ c \in Seq(A \cup B \cup C)
    BY <1>1, <1>2, <1>3, SeqMonotonic
  <2>2. QED
    BY <1>4, <2>1
<1>6. QED
  BY <1>5, ConcatAssociative

LEMMA TailFirst ==
  ASSUME NEW f, IsSeq(f), NEW j \in DOMAIN f
  PROVE  Tail2(f, j - 1) = <<f[j]>> \o Tail2(f, j)
<1>1. PICK n, t, u, one, g : /\ n = Len(f) /\ t = Tail2(f, j - 1)
                             /\ u = Tail2(f, j) /\ one = <<f[j]>>
                             /\ g = one \o u
  OBVIOUS
<1>2. n \in Nat /\ j \in 1 .. n /\ j - 1 \in 0 .. n /\ j \in 0 .. n
  BY <1>1, SeqFacts
<1>3. /\ IsSeq(t) /\ Len(t) = n - (j - 1)
      /\ \A i \in 1 .. n - (j - 1) : t[i] = f[j - 1 + i]
  <2>1. j - 1 \in 0 .. Len(f)
    BY <1>1, <1>2
  <2>2. QED
    BY <1>1, <2>1, Tail2Is
<1>4. IsSeq(u) /\ Len(u) = n - j /\ \A i \in 1 .. n - j : u[i] = f[j + i]
  BY <1>1, <1>2, Tail2Is
<1>5. IsSeq(one) /\ Len(one) = 1 /\ one[1] = f[j]
  BY <1>1, SingleSeq
<1>6. /\ IsSeq(g) /\ Len(g) = 1 + (n - j)
      /\ \A i \in 1 .. 1 : g[i] = one[i]
      /\ \A i \in 1 .. n - j : g[1 + i] = u[i]
  BY <1>1, <1>4, <1>5, ConcatSeq
<1>7. PICK m : m = n - (j - 1)
  OBVIOUS
<1>8. Len(t) = m /\ Len(g) = m
  BY <1>2, <1>3, <1>6, <1>7
<1>9. ASSUME NEW i \in 1 .. m
      PROVE  t[i] = g[i]
  <2>1. CASE i = 1
    <3>1. t[1] = f[j]
      <4>1. 1 \in 1 .. n - (j - 1) /\ j - 1 + 1 = j
        BY <1>2
      <4>2. QED
        BY <1>3, <4>1
    <3>2. g[1] = f[j]
      BY <1>5, <1>6
    <3>3. QED
      BY <2>1, <3>1, <3>2
  <2>2. CASE i # 1
    <3>1. PICK k : k = i - 1
      OBVIOUS
    <3>2. k \in 1 .. n - j /\ 1 + k = i /\ j + k = j - 1 + i
      BY <1>2, <1>7, <2>2, <3>1
    <3>3. QED
      BY <1>3, <1>4, <1>6, <1>7, <3>2
  <2>3. QED
    BY <2>1, <2>2
<1>10. t = g
  BY <1>3, <1>6, <1>8, <1>9, SeqSame
<1>11. QED
  BY <1>1, <1>10

-----------------------------------------------------------------------------
(* A reply and its results.                                                 *)

ResultsTo(e, rs) ==
  /\ IsSeq(rs)
  /\ \A i \in DOMAIN rs : /\ rs[i].kind = "tool" /\ rs[i].turn = e.turn
                          /\ \E c \in e.calls : rs[i].calls = {c}
  /\ \A i, k \in DOMAIN rs : rs[i].calls = rs[k].calls => i = k
  /\ \A c \in e.calls : \E i \in DOMAIN rs : rs[i].calls = {c}

LEMMA AsManyResults ==
  ASSUME NEW e, NEW rs, ResultsTo(e, rs), IsFiniteSet(e.calls)
  PROVE  Cardinality(e.calls) = Len(rs)
<1>1. PICK n, made : n = Len(rs) /\ made = e.calls
  OBVIOUS
<1>2. n \in Nat /\ DOMAIN rs = 1 .. n
  BY <1>1, SeqFacts DEF ResultsTo
<1>3. PICK f : f = [i \in 1 .. n |-> CHOOSE c \in made : rs[i].calls = {c}]
  OBVIOUS
<1>4. \A i \in 1 .. n : \E c \in made : rs[i].calls = {c}
  BY <1>1, <1>2 DEF ResultsTo
<1>5. \A i \in 1 .. n : f[i] \in made /\ rs[i].calls = {f[i]}
  BY <1>3, <1>4
<1>6. f \in [1 .. n -> made]
  BY <1>3, <1>5
<1>7. \A i, k \in 1 .. n : f[i] = f[k] => i = k
  <2>1. ASSUME NEW i \in 1 .. n, NEW k \in 1 .. n, f[i] = f[k]
        PROVE  i = k
    <3>1. rs[i].calls = rs[k].calls
      BY <1>5, <2>1
    <3>2. i \in DOMAIN rs /\ k \in DOMAIN rs
      BY <1>2
    <3>3. QED
      BY <3>1, <3>2 DEF ResultsTo
  <2>2. QED
    BY <2>1
<1>8. \A c \in made : \E i \in 1 .. n : f[i] = c
  <2>1. ASSUME NEW c \in made
        PROVE  \E i \in 1 .. n : f[i] = c
    <3>1. PICK i \in 1 .. n : rs[i].calls = {c}
      BY <1>1, <1>2 DEF ResultsTo
    <3>2. f[i] \in {c}
      BY <1>5, <3>1
    <3>3. QED
      BY <3>2
  <2>2. QED
    BY <2>1
<1>9. f \in Bijection(1 .. n, made)
  BY <1>6, <1>7, <1>8 DEF Bijection, Injection, Surjection, IsInjective
<1>10. ExistsBijection(1 .. n, made)
  BY <1>9 DEF ExistsBijection
<1>11. QED
  BY <1>1, <1>2, <1>10, FS_CountingElements

LEMMA ReplyFits ==
  ASSUME NEW e, NEW rs, NEW one, one = <<e>>, NEW ms, ms = one \o rs,
         e.kind = "assistant", IsFiniteSet(e.calls), ResultsTo(e, rs), NEW log
  PROVE  FitsPaired(log, ms)
<1>1. PICK n : n = Len(rs)
  OBVIOUS
<1>2. n = Cardinality(e.calls) /\ n \in Nat /\ IsSeq(rs) /\ DOMAIN rs = 1 .. n
  <2>1. IsSeq(rs)
    BY DEF ResultsTo
  <2>2. n \in Nat /\ DOMAIN rs = 1 .. n
    BY <1>1, <2>1, SeqFacts
  <2>3. n = Cardinality(e.calls)
    BY <1>1, AsManyResults
  <2>4. QED
    BY <2>1, <2>2, <2>3
<1>3. IsSeq(one) /\ Len(one) = 1 /\ one[1] = e
  BY SingleSeq
<1>4. /\ IsSeq(ms) /\ Len(ms) = 1 + n /\ DOMAIN ms = 1 .. 1 + n
      /\ \A i \in 1 .. 1 : ms[i] = one[i]
      /\ \A k \in 1 .. n : ms[1 + k] = rs[k]
  BY <1>1, <1>2, <1>3, ConcatSeq
<1>5. ms[1] = e
  BY <1>3, <1>4
<1>6. \A i \in DOMAIN ms : i # 1 => \E k \in 1 .. n : i = 1 + k
  <2>1. ASSUME NEW i \in DOMAIN ms, i # 1
        PROVE  \E k \in 1 .. n : i = 1 + k
    <3>1. i - 1 \in 1 .. n /\ i = 1 + (i - 1)
      BY <1>2, <1>4, <2>1
    <3>2. QED
      BY <3>1
  <2>2. QED
    BY <2>1
<1>7. \A k \in 1 .. n : /\ ms[1 + k].kind = "tool" /\ ms[1 + k].turn = e.turn
                        /\ \E c \in e.calls : ms[1 + k].calls = {c}
  <2>1. ASSUME NEW k \in 1 .. n
        PROVE  /\ ms[1 + k].kind = "tool" /\ ms[1 + k].turn = e.turn
               /\ \E c \in e.calls : ms[1 + k].calls = {c}
    <3>1. ms[1 + k] = rs[k] /\ k \in DOMAIN rs
      BY <1>2, <1>4
    <3>2. /\ rs[k].kind = "tool" /\ rs[k].turn = e.turn
          /\ \E c \in e.calls : rs[k].calls = {c}
      BY <3>1 DEF ResultsTo
    <3>3. QED
      BY <3>1, <3>2
  <2>2. QED
    BY <2>1
<1>8. Counted(ms)
  <2>1. \A i \in DOMAIN ms : IsFiniteSet(ms[i].calls)
    <3>1. \A c : IsFiniteSet({c})
      BY FS_Singleton
    <3>2. QED
      BY <1>5, <1>6, <1>7, <3>1
  <2>2. QED
    BY <2>1, FS_CardinalityType DEF Counted
<1>9. AnsweredBy(ms, 1, n)
  <2>1. \A k \in 1 .. n : ms[1 + k].calls \subseteq ms[1].calls
    BY <1>5, <1>7
  <2>2. ASSUME NEW c \in ms[1].calls
        PROVE  \E k \in 1 .. n : c \in ms[1 + k].calls
    <3>1. PICK k \in 1 .. n : rs[k].calls = {c}
      BY <1>2, <1>5 DEF ResultsTo
    <3>2. QED
      BY <1>4, <3>1
  <2>3. 1 + n <= Len(ms)
    BY <1>2, <1>4
  <2>4. QED
    BY <1>7, <2>1, <2>2, <2>3 DEF AnsweredBy
<1>10. PairedAt(ms, 1)
  BY <1>2, <1>5, <1>9 DEF PairedAt
<1>11. ASSUME NEW k \in 1 .. n
       PROVE  PairedAt(ms, 1 + k)
  <2>1. 1 \in 1 .. (1 + k) - 1 /\ 1 + k <= 1 + n
    BY <1>2
  <2>2. ms[1 + k].calls \subseteq ms[1].calls /\ ms[1 + k].kind = "tool"
    BY <1>5, <1>7
  <2>3. IsCalledFor(ms, 1 + k)
    BY <1>2, <1>5, <2>1, <2>2 DEF IsCalledFor
  <2>4. QED
    BY <2>2, <2>3 DEF PairedAt
<1>12. Paired(ms)
  <2>1. \A i \in DOMAIN ms : PairedAt(ms, i)
    BY <1>6, <1>10, <1>11
  <2>2. QED
    BY <2>1, PairedIs
<1>13. TurnsAgree(ms)
  <2>1. ASSUME NEW i \in DOMAIN ms, ms[i].kind = "assistant",
               NEW j \in ResultsAt(ms, i)
        PROVE  ms[j].turn = ms[i].turn
    <3>1. i = 1
      BY <1>6, <1>7, <2>1
    <3>2. j \in DOMAIN ms /\ ms[j].kind = "tool"
      BY <1>4, <1>8, <1>12, <2>1, ResultsAreIn
    <3>3. j # 1
      BY <1>5, <3>2
    <3>4. QED
      BY <1>5, <1>6, <1>7, <3>1, <3>2, <3>3
  <2>2. QED
    BY <2>1 DEF TurnsAgree
<1>14. \A i \in DOMAIN ms : ms[i].kind # "summary"
  BY <1>5, <1>6, <1>7
<1>15. QED
  BY <1>4, <1>8, <1>12, <1>13, <1>14 DEF FitsPaired

(* Messages that neither make calls nor answer any.                         *)
LEMMA PlainFits ==
  ASSUME NEW ms, IsSeq(ms), NEW log,
         \A i \in DOMAIN ms : /\ ms[i].kind \notin {"assistant", "tool", "summary"}
                              /\ IsFiniteSet(ms[i].calls)
  PROVE  FitsPaired(log, ms)
<1>1. Counted(ms)
  BY FS_CardinalityType DEF Counted
<1>2. \A i \in DOMAIN ms : PairedAt(ms, i)
  BY DEF PairedAt
<1>3. Paired(ms)
  BY <1>2, PairedIs
<1>4. QED
  BY <1>1, <1>3 DEF FitsPaired, TurnsAgree

LEMMA EventFitsPaired ==
  ASSUME NEW e, e.kind \notin {"assistant", "tool", "summary"}, e.calls = {},
         NEW ms, ms = <<e>>, NEW log
  PROVE  FitsPaired(log, ms)
<1>1. IsSeq(ms) /\ DOMAIN ms = {1} /\ ms[1] = e
  BY SingleSeq
<1>2. IsFiniteSet(e.calls)
  BY FS_EmptySet
<1>3. QED
  BY <1>1, <1>2, PlainFits

-----------------------------------------------------------------------------
(* repair_interrupted_turn leaves no call of the last turn unanswered.      *)

LEMMA SoundCounted ==
  ASSUME NEW log, LogSound(log)
  PROVE  IsSeq(log) /\ Counted(log) /\ \A i \in DOMAIN log : IsFiniteSet(log[i].calls)
BY FS_CardinalityType DEF LogSound, EventTyped, Counted

(* In paired messages every call of a turn is answered in the turn.         *)
LEMMA PairedAnswers ==
  ASSUME NEW ms, IsSeq(ms), Counted(ms), LogPaired(ms),
         NEW i \in DOMAIN ms, ms[i].kind = "assistant", NEW c \in ms[i].calls
  PROVE  \E j \in DOMAIN ms : /\ ms[j].kind = "tool" /\ ms[j].turn = ms[i].turn
                              /\ c \in ms[j].calls
<1>1. PICK n : n = Cardinality(ms[i].calls)
  OBVIOUS
<1>2. n \in Nat /\ i \in Nat
  BY <1>1, SeqFacts DEF Counted
<1>3. Paired(ms)
  BY DEF LogPaired
<1>4. AnsweredBy(ms, i, n)
  BY <1>1, <1>3, PairedIs DEF PairedAt
<1>5. PICK k \in 1 .. n : c \in ms[i + k].calls
  BY <1>4 DEF AnsweredBy
<1>6. PICK j : j = i + k
  OBVIOUS
<1>7. j \in ResultsAt(ms, i)
  BY <1>1, <1>2, <1>6 DEF ResultsAt
<1>8. j \in DOMAIN ms /\ ms[j].kind = "tool"
  BY <1>3, <1>7, ResultsAreIn
<1>9. ms[j].turn = ms[i].turn
  BY <1>7 DEF LogPaired
<1>10. QED
  BY <1>5, <1>6, <1>8, <1>9

(* An unfinished log and the results that are missing in it.                *)
Finishes(log, j, ms) ==
  /\ IsSeq(ms)
  /\ \A i \in DOMAIN ms :
       /\ ms[i].kind = "tool" /\ ms[i].turn = log[j].turn
       /\ \E c \in log[j].calls :
            /\ ms[i].calls = {c}
            /\ \A k \in DOMAIN log : k > j => log[k].calls # {c}
  /\ \A i, k \in DOMAIN ms : ms[i].calls = ms[k].calls => i = k
  /\ \A c \in log[j].calls :
       \/ \E k \in DOMAIN log : k > j /\ log[k].calls = {c}
       \/ \E i \in DOMAIN ms : ms[i].calls = {c}

LEMMA FinishedReply ==
  ASSUME NEW log, LogSound(log), NEW j \in DOMAIN log, Unfinished(log, j),
         NEW ms, Finishes(log, j, ms), NEW rs, rs = Tail2(log, j) \o ms
  PROVE  ResultsTo(log[j], rs)
<1>1. PICK n, u, l : n = Len(log) /\ u = Tail2(log, j) /\ l = Len(ms)
  OBVIOUS
<1>2. n \in Nat /\ DOMAIN log = 1 .. n /\ j \in 1 .. n /\ IsSeq(ms)
  BY <1>1, SoundCounted, SeqFacts DEF Finishes
<1>3. /\ IsSeq(u) /\ Len(u) = n - j
      /\ \A i \in 1 .. n - j : u[i] = log[j + i]
  <2>1. IsSeq(log) /\ j \in 0 .. Len(log)
    BY <1>1, <1>2, SoundCounted
  <2>2. QED
    BY <1>1, <2>1, Tail2Is
<1>4. PICK m : m = n - j
  OBVIOUS
<1>5. m \in Nat /\ l \in Nat
  BY <1>1, <1>2, <1>4, SeqFacts
<1>6. /\ IsSeq(rs) /\ DOMAIN rs = 1 .. m + l /\ DOMAIN ms = 1 .. l
      /\ \A i \in 1 .. m : rs[i] = u[i]
      /\ \A i \in 1 .. l : rs[m + i] = ms[i]
  <2>1. IsSeq(u) /\ IsSeq(ms) /\ Len(u) = m /\ Len(ms) = l /\ rs = u \o ms
    BY <1>1, <1>2, <1>3, <1>4
  <2>2. Concatenates(rs, u, ms, m, l)
    BY <2>1, ConcatAre
  <2>3. IsSeq(rs) /\ Len(rs) = m + l
    BY <2>2 DEF Concatenates
  <2>4. DOMAIN rs = 1 .. m + l /\ DOMAIN ms = 1 .. l
    BY <2>1, <2>3, SeqFacts
  <2>5. QED
    BY <2>2, <2>3, <2>4 DEF Concatenates
<1>7. ASSUME NEW i \in 1 .. m
      PROVE  j + i \in DOMAIN log /\ j + i > j /\ rs[i] = log[j + i]
  <2>1. j + i \in 1 .. n /\ j + i > j
    BY <1>2, <1>4
  <2>2. QED
    BY <1>2, <1>3, <1>4, <1>6, <2>1
<1>8. \A k \in DOMAIN log : k > j => \E i \in 1 .. m : k = j + i
  <2>1. ASSUME NEW k \in DOMAIN log, k > j
        PROVE  \E i \in 1 .. m : k = j + i
    <3>1. k - j \in 1 .. m /\ k = j + (k - j)
      BY <1>2, <1>4, <2>1
    <3>2. QED
      BY <3>1
  <2>2. QED
    BY <2>1
<1>9. ASSUME NEW k \in DOMAIN log, k > j
      PROVE  /\ log[k].kind = "tool" /\ log[k].turn = log[j].turn
             /\ \E c \in log[j].calls : log[k].calls = {c}
  BY <1>9 DEF Unfinished
<1>10. \A i \in DOMAIN rs : (i \in 1 .. m) \/ \E k \in 1 .. l : i = m + k
  <2>1. ASSUME NEW i \in DOMAIN rs, i \notin 1 .. m
        PROVE  \E k \in 1 .. l : i = m + k
    <3>1. i - m \in 1 .. l /\ i = m + (i - m)
      BY <1>5, <1>6, <2>1
    <3>2. QED
      BY <3>1
  <2>2. QED
    BY <2>1
<1>11. ASSUME NEW i \in DOMAIN rs
       PROVE  /\ rs[i].kind = "tool" /\ rs[i].turn = log[j].turn
              /\ \E c \in log[j].calls : rs[i].calls = {c}
  <2>1. CASE i \in 1 .. m
    BY <1>7, <1>9, <2>1
  <2>2. CASE \E k \in 1 .. l : i = m + k
    <3>1. PICK k \in 1 .. l : i = m + k
      BY <2>2
    <3>2. rs[i] = ms[k] /\ k \in DOMAIN ms
      BY <1>6, <3>1
    <3>3. QED
      BY <3>2 DEF Finishes
  <2>3. QED
    BY <1>10, <2>1, <2>2
<1>12. ASSUME NEW i \in 1 .. m, NEW k \in 1 .. l
       PROVE  rs[i].calls # rs[m + k].calls
  <2>1. rs[m + k] = ms[k] /\ k \in DOMAIN ms
    BY <1>6
  <2>2. PICK c \in log[j].calls :
          /\ ms[k].calls = {c}
          /\ \A x \in DOMAIN log : x > j => log[x].calls # {c}
    BY <2>1 DEF Finishes
  <2>3. QED
    BY <1>7, <2>1, <2>2
<1>13. ASSUME NEW i \in DOMAIN rs, NEW k \in DOMAIN rs, rs[i].calls = rs[k].calls
       PROVE  i = k
  <2>1. CASE i \in 1 .. m /\ k \in 1 .. m
    <3>1. PICK x, y : x = j + i /\ y = j + k
      OBVIOUS
    <3>2. /\ x \in DOMAIN log /\ y \in DOMAIN log /\ x > j /\ y > j
          /\ log[x] = rs[i] /\ log[y] = rs[k]
      BY <1>7, <2>1, <3>1
    <3>3. SameResult(log[x], log[y])
      BY <1>9, <1>13, <3>2 DEF SameResult
    <3>4. x = y
      BY <3>2, <3>3 DEF LogSound, Once
    <3>5. QED
      BY <1>2, <2>1, <3>1, <3>4
  <2>2. CASE i \in 1 .. m /\ \E x \in 1 .. l : k = m + x
    BY <1>12, <1>13, <2>2
  <2>3. CASE k \in 1 .. m /\ \E x \in 1 .. l : i = m + x
    BY <1>12, <1>13, <2>3
  <2>4. CASE (\E x \in 1 .. l : i = m + x) /\ (\E x \in 1 .. l : k = m + x)
    <3>1. PICK x \in 1 .. l, y \in 1 .. l : i = m + x /\ k = m + y
      BY <2>4
    <3>2. ms[x].calls = ms[y].calls /\ x \in DOMAIN ms /\ y \in DOMAIN ms
      BY <1>6, <1>13, <3>1
    <3>3. QED
      BY <3>1, <3>2 DEF Finishes
  <2>5. QED
    BY <1>10, <2>1, <2>2, <2>3, <2>4
<1>14. ASSUME NEW c \in log[j].calls
       PROVE  \E i \in DOMAIN rs : rs[i].calls = {c}
  <2>1. CASE \E k \in DOMAIN log : k > j /\ log[k].calls = {c}
    <3>1. PICK i \in 1 .. m : log[j + i].calls = {c}
      BY <1>8, <2>1
    <3>2. i \in DOMAIN rs
      BY <1>5, <1>6
    <3>3. QED
      BY <1>7, <3>1, <3>2
  <2>2. CASE \E i \in DOMAIN ms : ms[i].calls = {c}
    <3>1. PICK i \in 1 .. l : ms[i].calls = {c}
      BY <1>6, <2>2
    <3>2. m + i \in DOMAIN rs
      BY <1>5, <1>6
    <3>3. QED
      BY <1>6, <3>1, <3>2
  <2>3. QED
    BY <2>1, <2>2 DEF Finishes
<1>15. QED
  BY <1>6, <1>11, <1>13, <1>14 DEF ResultsTo

LEMMA UnfinishedPaired ==
  ASSUME NEW log, LogSound(log), NEW j \in DOMAIN log, Unfinished(log, j),
         NEW ms, Finishes(log, j, ms), NEW all, all = log \o ms
  PROVE  LogPaired(all)
<1>1. PICK e, one, h, u, rs, more :
        /\ e = log[j] /\ one = <<e>> /\ h = Head2(log, j - 1)
        /\ u = Tail2(log, j) /\ rs = u \o ms /\ more = one \o rs
  OBVIOUS
<1>2. IsSeq(log) /\ Counted(log) /\ IsFiniteSet(e.calls)
  BY <1>1, SoundCounted
<1>3. IsSeq(ms)
  BY DEF Finishes
<1>4. j \in 0 .. Len(log) /\ j - 1 \in 0 .. Len(log)
  BY <1>2, SeqFacts
<1>5. IsSeq(h) /\ DOMAIN h = 1 .. j - 1 /\ \A i \in 1 .. j - 1 : h[i] = log[i]
  BY <1>1, <1>2, <1>4, Head2Is
<1>6. IsSeq(u) /\ IsSeq(one) /\ IsSeq(rs)
  <2>1. IsSeq(u)
    BY <1>1, <1>2, <1>4, Tail2Is
  <2>2. IsSeq(one)
    BY <1>1, SingleSeq
  <2>3. QED
    BY <1>1, <1>3, <2>1, <2>2, ConcatSeq
<1>7. Counted(h)
  <2>1. DOMAIN log = 1 .. Len(log) /\ Len(log) \in Nat
    BY <1>2, SeqFacts
  <2>2. \A i \in DOMAIN h : i \in DOMAIN log /\ h[i] = log[i]
    BY <1>4, <1>5, <2>1
  <2>3. QED
    BY <1>2, <2>2 DEF Counted
<1>8. all = h \o more
  <2>1. PICK v : v = Tail2(log, j - 1)
    OBVIOUS
  <2>2. log = h \o v
    BY <1>1, <1>2, <1>4, <2>1, HeadTail
  <2>3. v = one \o u
    BY <1>1, <1>2, <2>1, TailFirst
  <2>4. IsSeq(v)
    BY <1>6, <2>3, ConcatSeq
  <2>5. all = h \o (v \o ms)
    BY <1>3, <1>5, <2>2, <2>4, Associates
  <2>6. v \o ms = one \o rs
    BY <1>1, <1>3, <1>6, <2>3, Associates
  <2>7. QED
    BY <1>1, <2>5, <2>6
<1>9. LogPaired(h) /\ e.kind = "assistant"
  BY <1>1 DEF Unfinished, Head2
<1>10. ResultsTo(e, rs)
  BY <1>1, FinishedReply
<1>11. FitsPaired(h, more)
  BY <1>1, <1>2, <1>9, <1>10, ReplyFits
<1>12. QED
  BY <1>5, <1>7, <1>8, <1>9, <1>11, LogJoined

(* An unfinished turn is the last one, and open.                            *)
LEMMA UnfinishedIsOpen ==
  ASSUME NEW st, Sound(st), NEW j \in DOMAIN st.log, Unfinished(st.log, j)
  PROVE  /\ st.log[j].turn = Len(st.turns) /\ Len(st.turns) \in DOMAIN st.turns
         /\ st.turns[Len(st.turns)] = "open"
<1>1. PICK log, turns, t : log = st.log /\ turns = st.turns /\ t = Len(turns)
  OBVIOUS
<1>2. t \in Nat /\ DOMAIN turns = 1 .. t
  BY <1>1, SoundLog
<1>3. log[j].turn \in Nat \ {0} /\ log[j].turn <= t
  BY <1>1 DEF Sound, LogSound, EventTyped, RowsSound
<1>4. t \in DOMAIN turns
  BY <1>2, <1>3
<1>5. PICK i \in DOMAIN log : Begins(log, i, t)
  BY <1>1, <1>4 DEF Sound, RowsSound
<1>6. t <= log[j].turn
  BY <1>1, <1>5 DEF Unfinished, Begins
<1>7. log[j].turn = t
  BY <1>2, <1>3, <1>6
<1>8. \A x \in DOMAIN log : ~Ends(log, x, t)
  BY <1>1, <1>7 DEF Unfinished
<1>9. turns[t] = "open"
  BY <1>1, <1>4, <1>8 DEF Sound, RowsSound
<1>10. QED
  BY <1>1, <1>4, <1>7, <1>9

(* What is left to answer in the last turn.                                 *)
LEMMA NoneLeft ==
  ASSUME NEW st, Sound(st), LogPaired(st.log), NEW t
  PROVE  Unanswered(st, t) = {}
<1>1. IsSeq(st.log) /\ Counted(st.log)
  BY SoundCounted DEF Sound
<1>2. SUFFICES ASSUME NEW c \in CallsOf(st, t, "assistant")
      PROVE  c \in CallsOf(st, t, "tool")
  BY DEF Unanswered
<1>3. PICK i \in InTurn(st, t, "assistant") : c \in st.log[i].calls
  BY <1>2 DEF CallsOf
<1>4. i \in DOMAIN st.log /\ st.log[i].kind = "assistant" /\ st.log[i].turn = t
  BY <1>3 DEF InTurn
<1>5. PICK j \in DOMAIN st.log : /\ st.log[j].kind = "tool" /\ st.log[j].turn = t
                                 /\ c \in st.log[j].calls
  BY <1>1, <1>3, <1>4, PairedAnswers
<1>6. j \in InTurn(st, t, "tool")
  BY <1>5 DEF InTurn
<1>7. QED
  BY <1>5, <1>6 DEF CallsOf

LEMMA SomeLeft ==
  ASSUME NEW st, Sound(st), NEW j \in DOMAIN st.log, Unfinished(st.log, j),
         NEW t, t = st.log[j].turn, NEW c
  PROVE  c \in Unanswered(st, t) <=>
           /\ c \in st.log[j].calls
           /\ \A k \in DOMAIN st.log : k > j => st.log[k].calls # {c}
<1>1. PICK log, h : log = st.log /\ h = Head2(log, j - 1)
  OBVIOUS
<1>2. IsSeq(log) /\ Counted(log) /\ DOMAIN log = 1 .. Len(log) /\ Len(log) \in Nat
  BY <1>1, SoundLog, SoundCounted DEF Sound
<1>3. IsSeq(h) /\ DOMAIN h = 1 .. j - 1 /\ \A i \in 1 .. j - 1 : h[i] = log[i]
  <2>1. j - 1 \in 0 .. Len(log)
    BY <1>1, <1>2
  <2>2. QED
    BY <1>1, <1>2, <2>1, Head2Is
<1>4. LogPaired(h)
  BY <1>1 DEF Unfinished, Head2
<1>5. \A i \in DOMAIN h : i \in DOMAIN log /\ h[i] = log[i] /\ i < j
  BY <1>1, <1>2, <1>3
<1>6. Counted(h)
  BY <1>2, <1>5 DEF Counted
<1>7. \A i \in DOMAIN log : i < j => i \in DOMAIN h
  BY <1>1, <1>2, <1>3
<1>8. log[j].kind = "assistant"
  BY <1>1 DEF Unfinished
<1>9. \A i \in DOMAIN log : i > j =>
        /\ log[i].turn = t /\ log[i].kind = "tool"
        /\ \E d \in log[j].calls : log[i].calls = {d}
  BY <1>1 DEF Unfinished
<1>10. \A i \in DOMAIN log : i < j /\ log[i].turn = t /\ log[i].kind = "tool" =>
         log[i].calls \cap log[j].calls = {}
  BY <1>1 DEF Unfinished
<1>11. ASSUME c \in Unanswered(st, t)
       PROVE  /\ c \in log[j].calls
              /\ \A k \in DOMAIN log : k > j => log[k].calls # {c}
  <2>1. PICK i \in InTurn(st, t, "assistant") : c \in log[i].calls
    BY <1>1, <1>11 DEF Unanswered, CallsOf
  <2>2. i \in DOMAIN log /\ log[i].kind = "assistant" /\ log[i].turn = t
    BY <1>1, <2>1 DEF InTurn
  <2>3. \A k \in DOMAIN log : log[k].turn = t /\ log[k].kind = "tool" =>
          c \notin log[k].calls
    BY <1>1, <1>11 DEF Unanswered, CallsOf, InTurn
  <2>4. ~(i < j)
    <3>1. SUFFICES ASSUME i < j
          PROVE  FALSE
      OBVIOUS
    <3>2. /\ i \in DOMAIN h /\ h[i].kind = "assistant" /\ h[i].turn = t
          /\ c \in h[i].calls
      BY <1>5, <1>7, <2>1, <2>2, <3>1
    <3>3. \E k \in DOMAIN h : /\ h[k].kind = "tool" /\ h[k].turn = h[i].turn
                              /\ c \in h[k].calls
      <4>1. IsSeq(h)
        BY <1>3
      <4>2. QED
        BY <1>4, <1>6, <3>2, <4>1, PairedAnswers, Zenon
    <3>4. QED
      BY <1>5, <2>3, <3>2, <3>3
  <2>5. ~(i > j)
    BY <1>9, <2>2
  <2>6. i = j
    BY <1>1, <1>2, <2>2, <2>4, <2>5
  <2>7. QED
    BY <1>9, <2>1, <2>3, <2>6
<1>12. ASSUME c \in log[j].calls,
              \A k \in DOMAIN log : k > j => log[k].calls # {c}
       PROVE  c \in Unanswered(st, t)
  <2>1. j \in InTurn(st, t, "assistant")
    BY <1>1, <1>8 DEF InTurn
  <2>2. c \in CallsOf(st, t, "assistant")
    BY <1>1, <1>12, <2>1 DEF CallsOf
  <2>3. ASSUME NEW k \in InTurn(st, t, "tool"), c \in log[k].calls
        PROVE  FALSE
    <3>1. k \in DOMAIN log /\ log[k].turn = t /\ log[k].kind = "tool"
      BY <1>1, <2>3 DEF InTurn
    <3>2. ~(k < j)
      BY <1>10, <1>12, <2>3, <3>1
    <3>3. k # j
      BY <1>8, <3>1
    <3>4. k > j
      BY <1>1, <1>2, <3>1, <3>2, <3>3
    <3>5. QED
      BY <1>9, <1>12, <2>3, <3>1, <3>4
  <2>4. c \notin CallsOf(st, t, "tool")
    BY <1>1, <2>3 DEF CallsOf
  <2>5. QED
    BY <2>2, <2>4 DEF Unanswered
<1>13. QED
  BY <1>1, <1>11, <1>12

LEMMA RepairPaired ==
  ASSUME NEW st, Sound(st), MayBePaired(st.log), NEW t, t = Len(st.turns),
         NEW ms, ms = ResultsFor(t, Unanswered(st, t)),
         NEW all, all = st.log \o ms
  PROVE  LogPaired(all)
<1>1. PICK calls : calls = Unanswered(st, t)
  OBVIOUS
<1>2. IsFiniteSet(calls)
  BY <1>1, UnansweredFinite
<1>3. /\ IsSeq(ms)
      /\ \A i \in DOMAIN ms : \E c \in calls : ms[i] = ToolResult(t, c)
      /\ \A i, k \in DOMAIN ms : ms[i].calls = ms[k].calls => i = k
      /\ \A c \in calls : \E i \in DOMAIN ms : ms[i] = ToolResult(t, c)
  BY <1>1, <1>2, ResultsAre
<1>4. \A c : /\ ToolResult(t, c).kind = "tool" /\ ToolResult(t, c).turn = t
             /\ ToolResult(t, c).calls = {c}
  BY DEF ToolResult, Event
<1>5. LogSound(st.log)
  BY DEF Sound
<1>6. CASE LogPaired(st.log)
  <2>1. calls = {}
    BY <1>1, <1>6, NoneLeft
  <2>2. DOMAIN ms = {}
    BY <1>3, <2>1
  <2>3. FitsPaired(st.log, ms)
    BY <1>3, <2>2, PlainFits
  <2>4. IsSeq(st.log) /\ Counted(st.log)
    BY <1>5, SoundCounted
  <2>5. QED
    BY <1>6, <2>3, <2>4, LogJoined
<1>7. CASE \E j \in DOMAIN st.log : Unfinished(st.log, j)
  <2>1. PICK j \in DOMAIN st.log : Unfinished(st.log, j)
    BY <1>7
  <2>2. st.log[j].turn = t
    BY <2>1, UnfinishedIsOpen
  <2>3. PICK log : log = st.log
    OBVIOUS
  <2>4. \A c : c \in calls <=>
          /\ c \in log[j].calls
          /\ \A k \in DOMAIN log : k > j => log[k].calls # {c}
    <3>1. \A c : c \in Unanswered(st, t) <=>
            /\ c \in st.log[j].calls
            /\ \A k \in DOMAIN st.log : k > j => st.log[k].calls # {c}
      BY <2>1, <2>2, SomeLeft
    <3>2. QED
      BY <1>1, <2>3, <3>1
  <2>5. ASSUME NEW i \in DOMAIN ms
        PROVE  /\ ms[i].kind = "tool" /\ ms[i].turn = log[j].turn
               /\ \E c \in log[j].calls :
                    /\ ms[i].calls = {c}
                    /\ \A k \in DOMAIN log : k > j => log[k].calls # {c}
    <3>1. PICK c \in calls : ms[i] = ToolResult(t, c)
      BY <1>3
    <3>2. ms[i].kind = "tool" /\ ms[i].turn = t /\ ms[i].calls = {c}
      BY <1>4, <3>1
    <3>3. QED
      BY <2>2, <2>3, <2>4, <3>1, <3>2
  <2>6. ASSUME NEW c \in log[j].calls
        PROVE  \/ \E k \in DOMAIN log : k > j /\ log[k].calls = {c}
               \/ \E i \in DOMAIN ms : ms[i].calls = {c}
    <3>1. CASE c \in calls
      <4>1. PICK i \in DOMAIN ms : ms[i] = ToolResult(t, c)
        BY <1>3, <3>1
      <4>2. QED
        BY <1>4, <4>1
    <3>2. CASE c \notin calls
      BY <2>4, <3>2
    <3>3. QED
      BY <3>1, <3>2
  <2>7. Finishes(log, j, ms)
    BY <1>3, <2>5, <2>6 DEF Finishes
  <2>8. QED
    BY <1>5, <2>1, <2>3, <2>7, UnfinishedPaired
<1>8. QED
  BY <1>6, <1>7 DEF MayBePaired

(* An event that ends a turn, or begins one or a step, or what a person     *)
(* says.                                                                    *)
LEMMA EventPaired ==
  ASSUME NEW log, LogSound(log), LogPaired(log),
         NEW e, e.kind \notin {"assistant", "tool", "summary"}, e.calls = {},
         NEW all, all = log \o <<e>>
  PROVE  LogPaired(all)
<1>1. PICK ms : ms = <<e>>
  OBVIOUS
<1>2. FitsPaired(log, ms)
  BY <1>1, EventFitsPaired
<1>3. IsSeq(log) /\ Counted(log)
  BY SoundCounted
<1>4. all = log \o ms
  BY <1>1
<1>5. QED
  BY <1>2, <1>3, <1>4, LogJoined

LEMMA EndTurnPaired ==
  ASSUME NEW st, Sound(st), LogPaired(st.log),
         NEW t \in DOMAIN st.turns, NEW reason \in Reason
  PROVE  LogPaired(EndTurn(st, t, reason).log)
<1>1. PICK e : e = Event("turnEnd", t, reason, {})
  OBVIOUS
<1>2. e.kind = "turnEnd" /\ e.calls = {}
  BY <1>1 DEF Event
<1>3. EndTurn(st, t, reason).log = st.log \o <<e>>
  <2>1. Grows(st, <<e>>, EndTurn(st, t, reason))
    BY <1>1, EndTurnGrows
  <2>2. QED
    BY <2>1 DEF Grows
<1>4. e.kind \notin {"assistant", "tool", "summary"}
  BY <1>2
<1>5. LogSound(st.log)
  BY DEF Sound
<1>6. QED
  BY <1>2, <1>3, <1>4, <1>5, EventPaired, Zenon

LEMMA RepairedPaired ==
  ASSUME NEW st, Sound(st), MayBePaired(st.log), SteeringsApart
  PROVE  LogPaired(Repaired(st).log)
<1>1. PICK t : t = Len(st.turns)
  OBVIOUS
<1>2. t \in Nat /\ DOMAIN st.turns = 1 .. t
  BY <1>1, SoundLog
<1>3. CASE t = 0 \/ st.turns[t] # "open"
  <2>1. Repaired(st) = st
    BY <1>1, <1>3 DEF Repaired
  <2>2. ~ \E j \in DOMAIN st.log : Unfinished(st.log, j)
    BY <1>1, <1>2, <1>3, UnfinishedIsOpen
  <2>3. QED
    BY <2>1, <2>2 DEF MayBePaired
<1>4. CASE t # 0 /\ st.turns[t] = "open"
  <2>1. PICK ms, said, new, reason :
          /\ ms = ResultsFor(t, Unanswered(st, t)) /\ said = Say(st, ms)
          /\ reason = "interrupted" /\ new = EndTurn(said, t, reason)
    OBVIOUS
  <2>2. Repaired(st) = new
    BY <1>1, <1>4, <2>1 DEF Repaired
  <2>3. t \in DOMAIN st.turns /\ reason \in Reason
    BY <1>2, <1>4, <2>1 DEF Reason
  <2>4. Fits(st, ms)
    BY <2>1, <2>3, ResultsFit
  <2>5. Grows(st, ms, said) /\ said.turns = st.turns
    BY <2>1, <2>4, SayGrows DEF Fits
  <2>6. Sound(said)
    BY <2>4, <2>5, Grown
  <2>7. said.log = st.log \o ms
    BY <2>5 DEF Grows
  <2>8. LogPaired(said.log)
    BY <1>1, <2>1, <2>7, RepairPaired
  <2>9. t \in DOMAIN said.turns
    BY <2>3, <2>5
  <2>10. LogPaired(new.log)
    BY <2>1, <2>3, <2>6, <2>8, <2>9, EndTurnPaired
  <2>11. QED
    BY <2>2, <2>10
<1>5. QED
  BY <1>3, <1>4

-----------------------------------------------------------------------------
(* fork_session copies what precedes a user's message.                      *)

LEMMA HeadPaired ==
  ASSUME NEW log, IsSeq(log), Counted(log), LogPaired(log),
         NEW n \in Nat, n + 1 \in DOMAIN log, log[n + 1].kind # "tool",
         NEW h, h = Head2(log, n)
  PROVE  LogPaired(h)
<1>1. PICK l : l = Len(log)
  OBVIOUS
<1>2. l \in Nat /\ DOMAIN log = 1 .. l /\ n + 1 <= l
  BY <1>1, SeqFacts
<1>3. IsSeq(h) /\ Len(h) = n /\ DOMAIN h = 1 .. n /\ \A i \in 1 .. n : h[i] = log[i]
  <2>1. n \in 0 .. Len(log)
    BY <1>1, <1>2
  <2>2. QED
    BY <2>1, Head2Is
<1>4. \A i \in DOMAIN h : i \in DOMAIN log /\ h[i] = log[i]
  BY <1>2, <1>3
<1>5. Paired(log)
  BY DEF LogPaired
<1>6. ASSUME NEW i \in DOMAIN h, h[i].kind = "assistant",
             NEW m, m = Cardinality(h[i].calls)
      PROVE  /\ m \in Nat /\ i + m <= n
             /\ AnsweredBy(log, i, m) /\ m = Cardinality(log[i].calls)
  <2>1. i \in DOMAIN log /\ log[i].kind = "assistant" /\ i \in 1 .. n
        /\ m = Cardinality(log[i].calls)
    BY <1>3, <1>4, <1>6
  <2>2. m \in Nat /\ AnsweredBy(log, i, m)
    BY <1>5, <2>1, PairedIs DEF PairedAt, Counted
  <2>3. \A k \in 1 .. m : log[i + k].kind = "tool"
    BY <2>2 DEF AnsweredBy
  <2>4. ~(i + m > n)
    <3>1. SUFFICES ASSUME i + m > n
          PROVE  FALSE
      OBVIOUS
    <3>2. (n + 1) - i \in 1 .. m /\ i + ((n + 1) - i) = n + 1
      BY <2>1, <2>2, <3>1
    <3>3. QED
      BY <2>3, <3>2
  <2>5. QED
    BY <2>1, <2>2, <2>4
<1>7. ASSUME NEW i \in DOMAIN h
      PROVE  PairedAt(h, i)
  <2>1. ASSUME h[i].kind = "assistant"
        PROVE  AnsweredBy(h, i, Cardinality(h[i].calls))
    <3>1. PICK m : m = Cardinality(h[i].calls)
      OBVIOUS
    <3>2. m \in Nat /\ i + m <= n /\ AnsweredBy(log, i, m)
      BY <1>6, <2>1, <3>1
    <3>3. i \in Nat /\ i + m <= Len(h)
      BY <1>3, <3>2
    <3>4. \A k \in 0 .. m : i + k \in 1 .. n
      BY <1>3, <3>2
    <3>5. \A k \in 0 .. m : h[i + k] = log[i + k]
      BY <1>3, <3>4
    <3>6. AnsweredBy(h, i, m)
      BY <3>2, <3>3, <3>5, AnsweredThere, Zenon
    <3>7. QED
      BY <3>1, <3>6
  <2>2. ASSUME h[i].kind = "tool"
        PROVE  IsCalledFor(h, i)
    <3>1. i \in 1 .. n /\ i \in DOMAIN log /\ log[i] = h[i]
      BY <1>3, <1>4
    <3>2. PICK j \in 1 .. i - 1 : /\ log[j].kind = "assistant"
                                  /\ log[i].calls \subseteq log[j].calls
                                  /\ i <= j + Cardinality(log[j].calls)
      BY <1>5, <2>2, <3>1, PairedIs DEF PairedAt, IsCalledFor
    <3>3. h[j] = log[j]
      <4>1. j \in 1 .. n
        BY <3>1
      <4>2. QED
        BY <1>3, <4>1
    <3>4. QED
      BY <3>1, <3>2, <3>3 DEF IsCalledFor
  <2>3. QED
    BY <2>1, <2>2 DEF PairedAt
<1>8. Paired(h)
  BY <1>7, PairedIs
<1>9. ASSUME NEW i \in DOMAIN h, h[i].kind = "assistant",
             NEW j \in ResultsAt(h, i)
      PROVE  h[j].turn = h[i].turn
  <2>1. PICK m : m = Cardinality(h[i].calls)
    OBVIOUS
  <2>2. m \in Nat /\ i + m <= n /\ m = Cardinality(log[i].calls)
    BY <1>6, <1>9, <2>1
  <2>3. j \in i + 1 .. i + m /\ j \in ResultsAt(log, i) /\ i \in 1 .. n
    BY <1>3, <1>9, <2>1, <2>2 DEF ResultsAt
  <2>4. j \in DOMAIN h
    BY <1>3, <2>2, <2>3
  <2>5. log[j].turn = log[i].turn
    BY <1>4, <1>9, <2>3 DEF LogPaired
  <2>6. QED
    BY <1>4, <2>4, <2>5
<1>10. ASSUME NEW i \in DOMAIN h, h[i].kind = "summary"
       PROVE  h[i].cutoff \in 0 .. i - 1 /\ CutsNone(h, h[i].cutoff)
  <2>1. log[i].cutoff \in 0 .. i - 1 /\ CutsNone(log, log[i].cutoff)
    BY <1>4, <1>10 DEF LogPaired
  <2>2. \A c : CutsNone(log, c) => CutsNone(h, c)
    BY <1>4 DEF CutsNone
  <2>3. QED
    BY <1>4, <2>1, <2>2
<1>11. QED
  BY <1>8, <1>9, <1>10 DEF LogPaired

LEMMA HeadOfHead ==
  ASSUME NEW log, IsSeq(log), NEW m \in 0 .. Len(log), NEW n \in 0 .. m,
         NEW h, h = Head2(log, m)
  PROVE  Head2(h, n) = Head2(log, n) /\ IsSeq(h) /\ Len(h) = m
<1>1. Len(log) \in Nat
  BY SeqFacts
<1>2. IsSeq(h) /\ Len(h) = m /\ \A i \in 1 .. m : h[i] = log[i]
  BY Head2Is
<1>3. PICK a, b : a = Head2(h, n) /\ b = Head2(log, n)
  OBVIOUS
<1>4. n \in 0 .. Len(h) /\ n \in 0 .. Len(log)
  BY <1>1, <1>2
<1>5. IsSeq(a) /\ Len(a) = n /\ \A i \in 1 .. n : a[i] = h[i]
  BY <1>2, <1>3, <1>4, Head2Is
<1>6. IsSeq(b) /\ Len(b) = n /\ \A i \in 1 .. n : b[i] = log[i]
  BY <1>3, <1>4, Head2Is
<1>7. \A i \in 1 .. n : i \in 1 .. m
  BY <1>1
<1>8. \A i \in 1 .. n : a[i] = b[i]
  BY <1>2, <1>5, <1>6, <1>7
<1>9. a = b
  BY <1>5, <1>6, <1>8, SeqSame
<1>10. QED
  BY <1>2, <1>3, <1>9

LEMMA ForkedPaired ==
  ASSUME NEW st, Sound(st), MayBePaired(st.log), NEW at \in DOMAIN st.log,
         st.log[at].kind = "user"
  PROVE  LogPaired(Forked(st, at).log)
<1>1. PICK log, n, h : log = st.log /\ n = at - 1 /\ h = Head2(log, n)
  OBVIOUS
<1>2. LogSound(log) /\ IsSeq(log) /\ Counted(log)
  BY <1>1, SoundCounted DEF Sound
<1>3. DOMAIN log = 1 .. Len(log) /\ Len(log) \in Nat
  BY <1>2, SeqFacts
<1>4. n \in Nat /\ n + 1 = at /\ n + 1 \in DOMAIN log /\ log[n + 1].kind = "user"
  BY <1>1, <1>3
<1>5. Forked(st, at).log = h
  <2>1. Forked(st, at) = Projected(h)
    BY <1>1, Zenon DEF Forked, Head2
  <2>2. QED
    BY <2>1 DEF Projected
<1>6. CASE LogPaired(log)
  BY <1>1, <1>2, <1>4, <1>5, <1>6, HeadPaired
<1>7. CASE \E j \in DOMAIN log : Unfinished(log, j)
  <2>1. PICK j \in DOMAIN log : Unfinished(log, j)
    BY <1>7
  <2>2. log[j].kind = "assistant" /\ \A i \in DOMAIN log : i > j => log[i].kind = "tool"
    BY <2>1 DEF Unfinished
  <2>3. at < j
    <3>1. at # j /\ ~(at > j)
      BY <1>1, <1>4, <2>2
    <3>2. at \in Nat /\ j \in Nat
      BY <1>1, <1>3
    <3>3. QED
      BY <3>1, <3>2
  <2>4. PICK m, g : m = j - 1 /\ g = Head2(log, m)
    OBVIOUS
  <2>5. m \in 0 .. Len(log) /\ n \in 0 .. m /\ n + 1 \in 1 .. m
    BY <1>3, <1>4, <2>3, <2>4
  <2>6. Head2(g, n) = Head2(log, n) /\ IsSeq(g) /\ Len(g) = m
    BY <1>2, <2>4, <2>5, HeadOfHead
  <2>7. DOMAIN g = 1 .. m /\ \A i \in 1 .. m : g[i] = log[i]
    BY <1>2, <2>4, <2>5, Head2Is
  <2>8. LogPaired(g)
    BY <2>1, <2>4 DEF Unfinished, Head2
  <2>9. Counted(g)
    <3>1. \A i \in 1 .. m : i \in DOMAIN log
      BY <1>3, <2>5
    <3>2. QED
      BY <1>2, <2>7, <3>1 DEF Counted
  <2>10. n + 1 \in DOMAIN g /\ g[n + 1].kind # "tool"
    BY <1>4, <2>5, <2>7
  <2>11. h = Head2(g, n)
    BY <1>1, <2>6
  <2>12. LogPaired(h)
    BY <1>4, <2>6, <2>8, <2>9, <2>10, <2>11, HeadPaired
  <2>13. QED
    BY <1>5, <2>12
<1>8. QED
  BY <1>1, <1>6, <1>7 DEF MayBePaired

-----------------------------------------------------------------------------
(* A history has a reply with all of its results, one after the other, or   *)
(* none of them.                                                            *)

LEMMA FirstOf ==
  ASSUME NEW S \in SUBSET Nat, S # {}
  PROVE  \E i \in S : \A j \in S : ~(j < i)
<1>1. PICK x \in S : \A y \in S : ~ (<<y, x>> \in OpToRel(<, Nat))
  BY WFMin, NatLessThanWellFounded
<1>2. QED
  BY <1>1 DEF OpToRel

LEMMA HiddenTogether ==
  ASSUME NEW log, IsSeq(log), Counted(log), LogPaired(log),
         NEW i \in DOMAIN log, log[i].kind = "assistant",
         NEW n, n = Cardinality(log[i].calls), NEW k \in 0 .. n,
         NEW x, x = i + k
  PROVE  /\ x \in DOMAIN log /\ log[x].kind # "summary" /\ n \in Nat
         /\ Shows(log, x) <=> Shows(log, i)
         /\ k # 0 => log[x].kind = "tool"
<1>1. n \in Nat /\ i \in Nat /\ DOMAIN log = 1 .. Len(log) /\ Len(log) \in Nat
      /\ Paired(log)
  BY SeqFacts DEF Counted, LogPaired
<1>2. AnsweredBy(log, i, n)
  BY <1>1, PairedIs DEF PairedAt
<1>3. i + n <= Len(log) /\ \A y \in 1 .. n : log[i + y].kind = "tool"
  BY <1>2 DEF AnsweredBy
<1>4. x \in DOMAIN log
  BY <1>1, <1>3
<1>5. k # 0 => log[x].kind = "tool"
  <2>1. k # 0 => k \in 1 .. n
    BY <1>1
  <2>2. QED
    BY <1>3, <2>1
<1>6. log[x].kind \in {"assistant", "tool"}
  <2>1. k = 0 => x = i
    BY <1>1
  <2>2. QED
    BY <1>5, <2>1
<1>7. ASSUME NEW j \in DOMAIN log
      PROVE  Hides(log, j, x) <=> Hides(log, j, i)
  <2>1. CASE log[j].kind # "summary"
    BY <2>1 DEF Hides
  <2>2. CASE log[j].kind = "summary"
    <3>1. PICK c : c = log[j].cutoff
      OBVIOUS
    <3>2. c \in 0 .. j - 1 /\ CutsNone(log, c)
      BY <2>2, <3>1 DEF LogPaired
    <3>3. i <= c => i + n <= c
      BY <3>2 DEF CutsNone
    <3>4. c < j /\ c \in Nat /\ j \in Nat
      BY <1>1, <3>2
    <3>5. (x < j /\ x <= c) <=> (i < j /\ i <= c)
      BY <1>1, <3>3, <3>4
    <3>6. QED
      BY <1>6, <3>1, <3>5 DEF Hides
  <2>3. QED
    BY <2>1, <2>2
<1>8. log[x].kind \in MessageKind /\ log[i].kind \in MessageKind
  BY <1>6 DEF MessageKind
<1>9. Shows(log, x) <=> Shows(log, i)
  BY <1>7, <1>8 DEF Shows
<1>10. QED
  BY <1>1, <1>4, <1>5, <1>6, <1>9

(* Rows in the order of the log, where the log has them one after another.  *)
ShownFrom(log, S, i, n) ==
  \A k \in 0 .. n : i + k \in S /\ log[i + k].kind # "summary"
OneByOne(R, x, i, n) ==
  \A k \in 0 .. n : x + k \in DOMAIN R /\ R[x + k] = i + k
LEMMA InARowIs ==
  ASSUME NEW log, DOMAIN log \subseteq Nat, NEW S, S \subseteq DOMAIN log,
         NEW R, NEW a, Ordered(log, S, R, a),
         NEW x \in DOMAIN R, a < x, NEW n \in Nat, NEW i, i = R[x],
         ShownFrom(log, S, i, n)
  PROVE  OneByOne(R, x, i, n)
<1>1. /\ a \in Nat /\ Len(R) \in Nat /\ DOMAIN R = 1 .. Len(R)
      /\ x \in Nat /\ i \in Nat
  BY DEF Ordered
<1>2. \A y \in DOMAIN R : R[y] \in Nat /\ y \in Nat
  BY <1>1 DEF Ordered
<1>3. PICK B : B = {k \in 0 .. n : ~(x + k \in DOMAIN R /\ R[x + k] = i + k)}
  OBVIOUS
<1>4. SUFFICES ASSUME B # {}
      PROVE  FALSE
  BY <1>3 DEF OneByOne
<1>5. B \in SUBSET Nat
  BY <1>3
<1>6. PICK k \in B : \A l \in B : ~(l < k)
  BY <1>4, <1>5, FirstOf
<1>7. k \in 0 .. n /\ ~(x + k \in DOMAIN R /\ R[x + k] = i + k) /\ k \in Nat
  BY <1>3, <1>6
<1>8. k # 0
  <2>1. x + 0 = x /\ i + 0 = i
    BY <1>1
  <2>2. QED
    BY <1>7, <2>1
<1>9. PICK l, p : l = k - 1 /\ p = x + l
  OBVIOUS
<1>10. l \in 0 .. n /\ l < k /\ l \in Nat
  BY <1>7, <1>8, <1>9
<1>11. p \in DOMAIN R /\ R[p] = i + l
  <2>1. l \notin B
    BY <1>6, <1>10
  <2>2. QED
    BY <1>3, <1>9, <1>10, <2>1
<1>12. PICK y \in DOMAIN R : R[y] = i + k
  <2>1. i + k \in S
    BY <1>7 DEF ShownFrom
  <2>2. QED
    BY <2>1 DEF Ordered
<1>13. ~(y <= a)
  <2>1. log[R[y]].kind # "summary"
    BY <1>7, <1>12 DEF ShownFrom
  <2>2. QED
    BY <2>1 DEF Ordered
<1>14. R[p] < R[y]
  BY <1>1, <1>7, <1>8, <1>9, <1>10, <1>11, <1>12
<1>15. a < p /\ p \in Nat /\ p + 1 = x + k
  BY <1>1, <1>7, <1>9, <1>10
<1>16. a < y /\ y \in Nat
  BY <1>1, <1>2, <1>13
<1>17. ~(y < p)
  <2>1. y < p => R[y] < R[p]
    BY <1>11, <1>16 DEF Ordered
  <2>2. R[p] \in Nat /\ R[y] \in Nat
    BY <1>2, <1>11
  <2>3. QED
    BY <1>14, <2>1, <2>2
<1>18. y # p
  BY <1>2, <1>14
<1>19. p + 1 <= y
  BY <1>15, <1>16, <1>17, <1>18
<1>20. p + 1 \in DOMAIN R
  BY <1>1, <1>15, <1>19
<1>21. R[p] < R[p + 1]
  <2>1. p < p + 1
    BY <1>15
  <2>2. QED
    BY <1>11, <1>15, <1>20, <2>1 DEF Ordered
<1>22. p + 1 # y
  BY <1>7, <1>12, <1>15, <1>20
<1>23. R[p + 1] < R[y]
  <2>1. p + 1 < y /\ a < p + 1
    BY <1>1, <1>15, <1>16, <1>19, <1>22
  <2>2. QED
    BY <1>20, <2>1 DEF Ordered
<1>24. R[p] = i + (k - 1) /\ R[y] = i + k
  BY <1>9, <1>11, <1>12
<1>25. R[p + 1] \in Nat
  BY <1>2, <1>20
<1>26. QED
  BY <1>1, <1>7, <1>21, <1>23, <1>24, <1>25

LEMMA ReplyInARow ==
  ASSUME NEW log, IsSeq(log), Counted(log), LogPaired(log),
         NEW S, S = {y \in DOMAIN log : Shows(log, y)},
         NEW R, NEW a, Ordered(log, S, R, a),
         NEW x \in DOMAIN R, NEW i, i = R[x], log[i].kind = "assistant",
         NEW n, n = Cardinality(log[i].calls)
  PROVE  /\ n \in Nat /\ i \in DOMAIN log /\ a < x /\ AnsweredBy(log, i, n)
         /\ OneByOne(R, x, i, n)
<1>1. /\ DOMAIN log \subseteq Nat /\ S \subseteq DOMAIN log /\ Paired(log)
  BY SeqFacts DEF LogPaired
<1>2. i \in S /\ i \in DOMAIN log /\ Shows(log, i)
  BY DEF Ordered
<1>3. a < x
  <2>1. ~(x <= a)
    BY DEF Ordered
  <2>2. a \in Nat /\ x \in Nat
    BY DEF Ordered
  <2>3. QED
    BY <2>1, <2>2
<1>4. n \in Nat
  BY <1>2 DEF Counted
<1>5. AnsweredBy(log, i, n)
  BY <1>1, <1>2, PairedIs DEF PairedAt
<1>6. ASSUME NEW k \in 0 .. n
      PROVE  i + k \in S /\ log[i + k].kind # "summary"
  <2>1. PICK y : y = i + k
    OBVIOUS
  <2>2. y \in DOMAIN log /\ log[y].kind # "summary" /\ (Shows(log, y) <=> Shows(log, i))
    BY <1>2, <2>1, HiddenTogether
  <2>3. QED
    BY <1>2, <2>1, <2>2
<1>7. OneByOne(R, x, i, n)
  <2>1. ShownFrom(log, S, i, n)
    BY <1>6 DEF ShownFrom
  <2>2. QED
    BY <1>1, <1>3, <1>4, <2>1, InARowIs
<1>8. QED
  BY <1>2, <1>3, <1>4, <1>5, <1>7

LEMMA ReplyShown ==
  ASSUME NEW log, NEW ms, NEW R, NEW x, NEW i, NEW n \in Nat,
         x \in DOMAIN ms, DOMAIN ms = 1 .. Len(ms), Len(ms) \in Nat,
         DOMAIN ms = DOMAIN R, \A z \in DOMAIN R : ms[z] = log[R[z]],
         AnsweredBy(log, i, n), OneByOne(R, x, i, n), i \in Nat
  PROVE  AnsweredBy(ms, x, n)
<1>1. \A k \in 0 .. n : ms[x + k] = log[i + k]
  BY DEF OneByOne
<1>2. x \in Nat
  OBVIOUS
<1>3. x + n <= Len(ms)
  <2>1. n \in 0 .. n
    OBVIOUS
  <2>2. x + n \in DOMAIN ms
    BY <2>1 DEF OneByOne
  <2>3. QED
    BY <2>2
<1>4. \A k \in 1 .. n : ms[x + k] = log[i + k]
  BY <1>1
<1>5. ms[x] = log[i]
  <2>1. 0 \in 0 .. n /\ x + 0 = x /\ i + 0 = i
    BY <1>2
  <2>2. QED
    BY <1>1, <2>1
<1>6. QED
  BY <1>3, <1>4, <1>5 DEF AnsweredBy

LEMMA OrderedPaired ==
  ASSUME NEW log, IsSeq(log), Counted(log), LogPaired(log),
         NEW S, S = {y \in DOMAIN log : Shows(log, y)},
         NEW R, NEW a, Ordered(log, S, R, a),
         NEW ms, IsSeq(ms), DOMAIN ms = DOMAIN R,
         \A x \in DOMAIN R : ms[x] = log[R[x]]
  PROVE  Paired(ms)
<1>1. /\ a \in Nat /\ Len(R) \in Nat /\ DOMAIN R = 1 .. Len(R)
      /\ DOMAIN log = 1 .. Len(log) /\ Len(log) \in Nat /\ Paired(log)
  BY SeqFacts DEF Ordered, LogPaired
<1>2. DOMAIN ms = 1 .. Len(ms) /\ Len(ms) \in Nat
  BY SeqFacts
<1>3. ASSUME NEW x \in DOMAIN ms, ms[x].kind = "assistant"
      PROVE  AnsweredBy(ms, x, Cardinality(ms[x].calls))
  <2>1. PICK i, n : i = R[x] /\ n = Cardinality(log[i].calls)
    OBVIOUS
  <2>2. x \in DOMAIN R /\ log[i].kind = "assistant" /\ ms[x] = log[i]
    BY <1>3, <2>1
  <2>3. n \in Nat /\ i \in DOMAIN log /\ AnsweredBy(log, i, n) /\ OneByOne(R, x, i, n)
    BY <2>1, <2>2, ReplyInARow
  <2>4. i \in Nat
    BY <1>1, <2>3
  <2>5. AnsweredBy(ms, x, n)
    BY <1>2, <2>3, <2>4, ReplyShown
  <2>6. QED
    BY <2>1, <2>2, <2>5
<1>4. ASSUME NEW x \in DOMAIN ms, ms[x].kind = "tool"
      PROVE  IsCalledFor(ms, x)
  <2>1. PICK i : i = R[x]
    OBVIOUS
  <2>2. x \in DOMAIN R /\ log[i].kind = "tool" /\ ms[x] = log[i]
    BY <1>4, <2>1
  <2>3. i \in S /\ i \in DOMAIN log /\ Shows(log, i)
    BY <2>1, <2>2 DEF Ordered
  <2>4. PICK j \in 1 .. i - 1 : /\ log[j].kind = "assistant"
                                /\ log[i].calls \subseteq log[j].calls
                                /\ i <= j + Cardinality(log[j].calls)
    BY <1>1, <2>2, <2>3, PairedIs DEF PairedAt, IsCalledFor
  <2>5. j \in DOMAIN log
    BY <1>1, <2>3
  <2>6. PICK n, k : n = Cardinality(log[j].calls) /\ k = i - j
    OBVIOUS
  <2>7. n \in Nat
    BY <2>5, <2>6 DEF Counted
  <2>8. k \in 0 .. n /\ i = j + k /\ k # 0
    <3>1. i \in Nat /\ j \in Nat /\ j < i /\ i <= j + n
      BY <1>1, <2>3, <2>4, <2>5, <2>6
    <3>2. QED
      BY <2>6, <2>7, <3>1
  <2>9. Shows(log, j)
    BY <2>3, <2>4, <2>5, <2>6, <2>8, HiddenTogether
  <2>10. PICK y \in DOMAIN R : R[y] = j
    BY <2>5, <2>9 DEF Ordered
  <2>11. a < y /\ OneByOne(R, y, j, n)
    BY <2>4, <2>6, <2>10, ReplyInARow
  <2>12. y + k \in DOMAIN R /\ R[y + k] = i
    BY <2>8, <2>11 DEF OneByOne
  <2>13. ~(x <= a)
    BY <2>1, <2>2 DEF Ordered
  <2>14. y \in Nat /\ x \in Nat /\ k \in Nat /\ a < x /\ a < y + k
    BY <1>1, <1>2, <2>8, <2>10, <2>11, <2>13
  <2>15. PICK z : z = y + k
    OBVIOUS
  <2>16. x = z
    <3>1. z \in DOMAIN R /\ R[z] = i /\ R[x] = i /\ a < z /\ z \in Nat /\ i \in Nat
      BY <1>1, <2>1, <2>3, <2>12, <2>14, <2>15
    <3>2. x < z => i < i
      BY <2>2, <2>14, <3>1 DEF Ordered
    <3>3. z < x => i < i
      BY <2>2, <2>14, <3>1 DEF Ordered
    <3>4. /\ x \in Nat /\ z \in Nat /\ i \in Nat
          /\ x < z => i < i
          /\ z < x => i < i
      BY <2>14, <3>1, <3>2, <3>3
    <3>5. QED
      BY <3>4
  <2>17. y \in 1 .. x - 1
    BY <1>1, <2>8, <2>10, <2>14, <2>15, <2>16
  <2>18. x <= y + n
    BY <2>7, <2>8, <2>14, <2>15, <2>16
  <2>19. ms[y] = log[j] /\ ms[x] = log[i]
    BY <2>2, <2>10
  <2>20. QED
    BY <2>4, <2>6, <2>17, <2>18, <2>19 DEF IsCalledFor
<1>5. \A x \in DOMAIN ms : PairedAt(ms, x)
  BY <1>3, <1>4 DEF PairedAt
<1>6. QED
  BY <1>5, PairedIs

(* A summary of messages that a request may show cuts between replies.      *)
LEMMA OrderedCuts ==
  ASSUME NEW log, IsSeq(log), Counted(log), LogPaired(log),
         NEW S, S = {y \in DOMAIN log : Shows(log, y)},
         NEW R, NEW a, Ordered(log, S, R, a),
         NEW E, DOMAIN E = DOMAIN R,
         \A x \in DOMAIN R : E[x] = IF x <= a THEN 0 ELSE R[x],
         NEW k \in DOMAIN R, NEW c, c = ShadowedThrough(E, k),
         NEW hd, IsSeq(hd), Len(hd) = k, Paired(hd), Counted(hd),
         \A x \in 1 .. k : hd[x] = log[R[x]]
  PROVE  CutsNone(log, c)
<1>1. /\ a \in Nat /\ Len(R) \in Nat /\ DOMAIN R = 1 .. Len(R)
      /\ DOMAIN log = 1 .. Len(log) /\ Len(log) \in Nat
      /\ k \in Nat /\ DOMAIN hd = 1 .. k /\ S \subseteq DOMAIN log
  BY SeqFacts DEF Ordered
<1>2. IsLastOf(E, k, c)
  <2>1. PICK n : n = Len(log)
    OBVIOUS
  <2>2. n \in Nat /\ DOMAIN log = 1 .. n /\ S \subseteq DOMAIN log
    BY <1>1, <2>1
  <2>3. QED
    BY <2>2, ShadowedOrdered, Zenon
<1>3. \A x \in DOMAIN R : R[x] \in DOMAIN log /\ R[x] \in Nat
  BY <1>1 DEF Ordered
<1>4. SUFFICES ASSUME NEW i \in DOMAIN log, log[i].kind = "assistant", i <= c
      PROVE  i + Cardinality(log[i].calls) <= c
  BY DEF CutsNone
<1>5. PICK n : n = Cardinality(log[i].calls)
  OBVIOUS
<1>6. n \in Nat /\ i \in Nat /\ 1 <= i
  BY <1>1, <1>4, <1>5 DEF Counted
<1>7. \A x \in 1 .. k : x \in DOMAIN R
  BY <1>1
<1>8. c \in Nat
  BY <1>2, <1>3, <1>7 DEF IsLastOf
<1>9. PICK y \in 1 .. k : E[y] = c
  BY <1>2, <1>4, <1>6 DEF IsLastOf
<1>10. ~(y <= a) /\ R[y] = c /\ y \in DOMAIN R
  BY <1>4, <1>6, <1>7, <1>9
<1>11. c \in S /\ c \in DOMAIN log /\ Shows(log, c)
  BY <1>10 DEF Ordered
<1>12. CASE Shows(log, i)
  <2>1. PICK x \in DOMAIN R : i = R[x]
    BY <1>4, <1>12 DEF Ordered
  <2>2. a < x /\ OneByOne(R, x, i, n)
    <3>1. log[i].kind = "assistant" /\ n = Cardinality(log[i].calls)
      BY <1>4, <1>5
    <3>2. QED
      BY <2>1, <3>1, ReplyInARow
  <2>3. ~(y < x)
    <3>1. a < y /\ y \in Nat
      BY <1>1, <1>10
    <3>2. y < x => R[y] < R[x]
      BY <1>10, <2>1, <3>1 DEF Ordered
    <3>3. QED
      BY <1>4, <1>6, <1>8, <1>10, <2>1, <3>2
  <2>4. x \in 1 .. k
    BY <1>1, <2>1, <2>3
  <2>5. hd[x] = log[i]
    BY <2>1, <2>4
  <2>6. AnsweredBy(hd, x, n)
    BY <1>1, <1>4, <1>5, <2>4, <2>5, PairedIs DEF PairedAt
  <2>7. x + n <= k
    BY <2>6 DEF AnsweredBy
  <2>8. x + n \in 1 .. k /\ ~(x + n <= a)
    BY <1>1, <1>6, <2>2, <2>4, <2>7
  <2>9. x + n \in DOMAIN R /\ R[x + n] = i + n
    <3>1. n \in 0 .. n
      BY <1>6
    <3>2. QED
      BY <2>2, <3>1 DEF OneByOne
  <2>10. E[x + n] = i + n
    BY <2>8, <2>9
  <2>11. E[x + n] <= c
    BY <1>2, <2>8 DEF IsLastOf
  <2>12. QED
    BY <1>5, <2>10, <2>11
<1>13. CASE ~Shows(log, i)
  <2>1. SUFFICES ASSUME ~(i + n <= c)
        PROVE  FALSE
    BY <1>5
  <2>2. PICK m : m = c - i
    OBVIOUS
  <2>3. m \in 0 .. n /\ c = i + m
    BY <1>4, <1>6, <1>8, <2>1, <2>2
  <2>4. Shows(log, c) <=> Shows(log, i)
    BY <1>4, <1>5, <2>3, HiddenTogether
  <2>5. QED
    BY <1>11, <1>13, <2>4
<1>14. QED
  BY <1>12, <1>13

-----------------------------------------------------------------------------
(* Runs whose session's log goes on.                                        *)

Lengthens(log, all) ==
  /\ Len(log) \in Nat /\ Len(all) \in Nat /\ Len(log) <= Len(all)
  /\ DOMAIN log = 1 .. Len(log) /\ DOMAIN all = 1 .. Len(all)
  /\ \A i \in DOMAIN log : all[i] = log[i]

LEMMA ExtendedLengthens ==
  ASSUME NEW log, NEW all, Extended(log, all)
  PROVE  Lengthens(log, all)
BY DEF Extended, Lengthens

LEMMA BaseStill ==
  ASSUME NEW log, NEW all, Lengthens(log, all), NEW call, NEW after,
         after.base = call.base,
         \A k \in DOMAIN call.base : call.base[k] \in DOMAIN log
  PROVE  BaseIn(after, all) = BaseIn(call, log)
<1>1. PICK base : base = call.base
  OBVIOUS
<1>2. \A k \in DOMAIN base : all[base[k]] = log[base[k]]
  BY <1>1 DEF Lengthens
<1>3. [k \in DOMAIN base |-> all[base[k]]] = [k \in DOMAIN base |-> log[base[k]]]
  BY <1>2
<1>4. QED
  BY <1>1, <1>3 DEF BaseIn

LEMMA HistoryStill ==
  ASSUME NEW log, NEW all, Lengthens(log, all), all = log \/ LogPaired(all),
         NEW call, NEW after, HistoryPaired(call, log),
         IsOpen(after) => IsOpen(call) /\ after.base = call.base
  PROVE  HistoryPaired(after, all)
<1>1. SUFFICES ASSUME IsOpen(after)
      PROVE  HistoryPaired(after, all)
  BY DEF HistoryPaired
<1>2. /\ LogPaired(log) /\ IsSeq(call.base) /\ after.base = call.base
      /\ \A k \in DOMAIN call.base : call.base[k] \in DOMAIN log
      /\ Paired(BaseIn(call, log))
  BY <1>1 DEF HistoryPaired
<1>3. BaseIn(after, all) = BaseIn(call, log)
  BY <1>2, BaseStill
<1>4. LogPaired(all)
  BY <1>2
<1>5. \A k \in DOMAIN after.base : after.base[k] \in DOMAIN all
  BY <1>2 DEF Lengthens
<1>6. QED
  BY <1>2, <1>3, <1>4, <1>5 DEF HistoryPaired

LEMMA CutsCarry ==
  ASSUME NEW log, NEW all, Lengthens(log, all),
         NEW call, NEW after, HistoryPaired(call, log), CutsPaired(call, log),
         RunReplays(call, log),
         MaySummarise(after) => /\ MaySummarise(call)
                                /\ after.base = call.base
                                /\ after.entries = call.entries
  PROVE  CutsPaired(after, all)
<1>1. SUFFICES ASSUME MaySummarise(after), NEW k \in 1 .. Len(after.base) - 1,
                      Paired(SubSeq(BaseIn(after, all), 1, k))
      PROVE  CutsNone(all, ShadowedThrough(after.entries, k))
  BY DEF CutsPaired
<1>2. /\ MaySummarise(call) /\ after.base = call.base
      /\ after.entries = call.entries /\ k \in 1 .. Len(call.base) - 1
  BY <1>1
<1>3. IsOpen(call)
  BY <1>2 DEF MaySummarise
<1>4. BaseIn(after, all) = BaseIn(call, log)
  BY <1>2, <1>3, BaseStill DEF HistoryPaired
<1>5. PICK c : c = ShadowedThrough(call.entries, k)
  OBVIOUS
<1>6. CutsNone(log, c)
  BY <1>1, <1>2, <1>4, <1>5 DEF CutsPaired
<1>7. Takes(call, log, k)
  BY <1>2 DEF RunReplays
<1>8. c \in 0 .. Len(log)
  BY <1>5, <1>7 DEF Takes
<1>9. DOMAIN all \subseteq Nat \ {0}
  BY DEF Lengthens
<1>10. CutsNone(all, c)
  BY <1>6, <1>8, <1>9, CutsStill DEF Lengthens
<1>11. QED
  BY <1>2, <1>5, <1>10

(* What a run still carries of its history after a step.                    *)
CarriesOn(old, after) ==
  /\ IsOpen(after) => /\ IsOpen(old) /\ after.session = old.session
  /\ MaySummarise(after) => /\ MaySummarise(old)
                            /\ after.entries = old.entries
  /\ IsOpen(after) => after.base = old.base

LEMMA RunStill ==
  ASSUME NEW log, NEW all, NEW call, NEW after,
         RunPaired(call, log), RunReplays(call, log),
         SaidPaired(after), CarriesOn(call, after),
         IsOpen(after) => /\ Lengthens(log, all)
                          /\ all = log \/ LogPaired(all)
  PROVE  RunPaired(after, all)
<1>1. CASE ~IsOpen(after)
  BY <1>1 DEF RunPaired, HistoryPaired, CutsPaired, MaySummarise
<1>2. CASE IsOpen(after)
  <2>1. HistoryPaired(call, log) /\ CutsPaired(call, log)
    BY DEF RunPaired
  <2>2. HistoryPaired(after, all)
    BY <1>2, <2>1, HistoryStill DEF CarriesOn
  <2>3. CutsPaired(after, all)
    BY <1>2, <2>1, CutsCarry DEF CarriesOn
  <2>4. QED
    BY <2>2, <2>3 DEF RunPaired
<1>3. QED
  BY <1>1, <1>2

LEMMA PairedStill ==
  ASSUME SettledInv, KeptInv, PairedInv, NEW q \in Runs,
         SaidPaired(run'[q]), CarriesOn(run[q], run'[q]),
         NEW s, s = run[q].session,
         IsOpen(run'[q]) => /\ Lengthens(store[s].log, store'[s].log)
                            /\ \/ store'[s].log = store[s].log
                               \/ LogPaired(store'[s].log)
  PROVE  RunPaired(run'[q], store'[run'[q].session].log)
<1>1. PICK call, after, log, all :
        /\ call = run[q] /\ after = run'[q]
        /\ log = store[s].log /\ all = store'[run'[q].session].log
  OBVIOUS
<1>2. RunPaired(call, log) /\ RunReplays(call, log)
  BY <1>1 DEF PairedInv, KeptInv
<1>3. SaidPaired(after) /\ CarriesOn(call, after)
  BY <1>1
<1>4. IsOpen(after) => Lengthens(log, all) /\ (all = log \/ LogPaired(all))
  BY <1>1, <1>3 DEF CarriesOn
<1>5. RunPaired(after, all)
  BY <1>2, <1>3, <1>4, RunStill
<1>6. QED
  BY <1>1, <1>5

(* Steps that only make logs longer.                                        *)
LongerPaired(s) ==
  /\ Extended(store[s].log, store'[s].log)
  /\ store'[s].log = store[s].log \/ LogPaired(store'[s].log)
LEMMA PairedNow ==
  ASSUME SettledInv, KeptInv, PairedInv,
         \A s \in Sessions : LongerPaired(s),
         \A q \in Runs : SaidPaired(run'[q]) /\ CarriesOn(run[q], run'[q])
  PROVE  PairedInv'
<1>1. ASSUME NEW s \in Sessions
      PROVE  MayBePaired(store'[s].log)
  <2>1. MayBePaired(store[s].log)
    BY DEF PairedInv
  <2>2. store'[s].log = store[s].log \/ LogPaired(store'[s].log)
    BY DEF LongerPaired
  <2>3. QED
    BY <2>1, <2>2 DEF MayBePaired
<1>2. ASSUME NEW q \in Runs
      PROVE  RunPaired(run'[q], store'[run'[q].session].log)
  <2>1. PICK s : s = run[q].session
    OBVIOUS
  <2>2. SaidPaired(run'[q]) /\ CarriesOn(run[q], run'[q])
    OBVIOUS
  <2>3. ASSUME IsOpen(run'[q])
        PROVE  /\ Lengthens(store[s].log, store'[s].log)
               /\ \/ store'[s].log = store[s].log
                  \/ LogPaired(store'[s].log)
    <3>1. IsOpen(run[q])
      BY <2>2, <2>3 DEF CarriesOn
    <3>2. s \in Sessions
      BY <2>1, <3>1, OpenRun
    <3>3. LongerPaired(s)
      BY <3>2
    <3>4. QED
      BY <3>3, ExtendedLengthens DEF LongerPaired
  <2>4. QED
    BY <2>1, <2>2, <2>3, PairedStill
<1>3. QED
  BY <1>1, <1>2 DEF PairedInv

(* The sessions, when one of them has grown, or none.                       *)
LEMMA OneLonger ==
  ASSUME SettledInv, NEW s \in Sessions, NEW new,
         store' = [store EXCEPT ![s] = new], Extended(store[s].log, new.log),
         LogPaired(new.log), NEW o \in Sessions
  PROVE  LongerPaired(o)
<1>1. Extended(store[o].log, store'[o].log)
  BY OneGrown
<1>2. store'[o] = IF o = s THEN new ELSE store[o]
  BY DEF SettledInv, Shapes
<1>3. store'[o].log = store[o].log \/ LogPaired(store'[o].log)
  BY <1>2
<1>4. QED
  BY <1>1, <1>3 DEF LongerPaired

LEMMA NoneLonger ==
  ASSUME SettledInv, UNCHANGED store, NEW o \in Sessions
  PROVE  LongerPaired(o)
<1>1. Extended(store[o].log, store'[o].log)
  BY NoneGrown
<1>2. QED
  BY <1>1 DEF LongerPaired

(* Runs that stay as they are, or are no longer in a turn.                  *)
LEMMA SilentCarriesOn ==
  ASSUME NEW old, NEW after, SaidPaired(old), after = old \/ ~IsOpen(after)
  PROVE  SaidPaired(after) /\ CarriesOn(old, after)
<1>1. CASE after = old
  BY <1>1 DEF CarriesOn
<1>2. CASE ~IsOpen(after)
  BY <1>2 DEF SaidPaired, CarriesOn, MaySummarise, IsOpen, InLoop, IsWorking
<1>3. QED
  BY <1>1, <1>2

LEMMA SilentPaired ==
  ASSUME SettledInv, KeptInv, PairedInv,
         \A s \in Sessions : LongerPaired(s),
         \A q \in Runs : run'[q] = run[q] \/ ~IsOpen(run'[q])
  PROVE  PairedInv'
<1>1. ASSUME NEW q \in Runs
      PROVE  SaidPaired(run'[q]) /\ CarriesOn(run[q], run'[q])
  <2>1. PICK old, after : old = run[q] /\ after = run'[q]
    OBVIOUS
  <2>2. SaidPaired(old) /\ (after = old \/ ~IsOpen(after))
    BY <2>1 DEF PairedInv, RunPaired
  <2>3. SaidPaired(after) /\ CarriesOn(old, after)
    BY <2>2, SilentCarriesOn
  <2>4. QED
    BY <2>1, <2>3
<1>2. QED
  BY <1>1, PairedNow

LEMMA DroppedIsSilent ==
  ASSUME SettledInv, NEW r \in Runs,
         run' = [run EXCEPT ![r] = [IdleRun EXCEPT !.at = "gone"]]
  PROVE  \A q \in Runs : run'[q] = run[q] \/ ~IsOpen(run'[q])
<1>1. DOMAIN run = Runs
  BY DEF SettledInv, Shapes
<1>2. ~IsOpen([IdleRun EXCEPT !.at = "gone"])
  BY DEF IsOpen, IdleRun
<1>3. QED
  BY <1>1, <1>2

LEMMA ForgetIsSilent ==
  ASSUME Forget
  PROVE  \A q \in Runs : ~IsOpen(run'[q])
<1>1. ~IsOpen([IdleRun EXCEPT !.at = "gone"])
  BY DEF IsOpen, IdleRun
<1>2. ASSUME NEW q \in Runs, ~IsRegistered(q)
      PROVE  ~IsOpen(run[q])
  BY <1>2 DEF IsRegistered, IsOpen
<1>3. QED
  BY <1>1, <1>2 DEF Forget

LEMMA BeginIsSilent ==
  ASSUME SettledInv, NEW r \in Runs, NEW s, Begin(r, s)
  PROVE  \A q \in Runs : run'[q] = run[q] \/ ~IsOpen(run'[q])
<1>1. PICK old, after : old = run[r] /\ after = run'[r]
  OBVIOUS
<1>2. old.at = "new" /\ RunTyped(r, old)
  BY <1>1 DEF Begin, MayBegin, SettledInv, RunsInv
<1>3. run' = [run EXCEPT ![r].at = "begun"] /\ DOMAIN run = Runs
      /\ DOMAIN old = DOMAIN IdleRun
  BY <1>1, <1>2 DEF Begin, SettledInv, Shapes, RunTyped
<1>4. after.at = "begun"
  BY <1>1, <1>3 DEF IdleRun
<1>5. ~IsOpen(after)
  BY <1>4 DEF IsOpen
<1>6. QED
  BY <1>1, <1>3, <1>5

(* What opening a turn appends to a paired log.                             *)
LEMMA StartPaired ==
  ASSUME NEW st, Sound(st), LogPaired(st.log), NEW t
  PROVE  LogPaired(StartTurn(st, t).log)
<1>1. PICK e : e = Event("turnStart", t, "said", {})
  OBVIOUS
<1>2. e.kind \notin {"assistant", "tool", "summary"} /\ e.calls = {}
  BY <1>1 DEF Event
<1>3. StartTurn(st, t).log = Append(st.log, e)
  BY <1>1 DEF StartTurn, Logged, Sound, RowsSound
<1>4. IsSeq(st.log) /\ LogSound(st.log)
  BY DEF Sound, LogSound
<1>5. Append(st.log, e) = st.log \o <<e>>
  BY <1>4, AppendIs
<1>6. QED
  BY <1>2, <1>3, <1>4, <1>5, EventPaired, Zenon

LEMMA PromptPaired ==
  ASSUME NEW st, Sound(st), LogPaired(st.log), NEW t
  PROVE  LogPaired(Say(st, <<User(t, "prompt")>>).log)
<1>1. PICK e, ms : e = User(t, "prompt") /\ ms = <<e>>
  OBVIOUS
<1>2. e.kind \notin {"assistant", "tool", "summary"} /\ e.calls = {}
  BY <1>1 DEF User, Event
<1>3. Say(st, ms).log = st.log \o ms
  BY DEF Say, Sound, RowsSound
<1>4. LogSound(st.log)
  BY DEF Sound
<1>5. LogPaired(st.log \o <<e>>)
  BY <1>2, <1>4, EventPaired
<1>6. QED
  BY <1>1, <1>3, <1>5

LEMMA LoggedPaired ==
  ASSUME NEW st, Sound(st), LogPaired(st.log),
         NEW e, e.kind \notin {"assistant", "tool", "summary"}, e.calls = {}
  PROVE  LogPaired(Logged(st, e).log)
<1>1. Logged(st, e).log = Append(st.log, e)
  BY DEF Logged, Sound, RowsSound
<1>2. IsSeq(st.log) /\ LogSound(st.log)
  BY DEF Sound, LogSound
<1>3. Append(st.log, e) = st.log \o <<e>>
  BY <1>2, AppendIs
<1>4. QED
  BY <1>1, <1>2, <1>3, EventPaired, Zenon

-----------------------------------------------------------------------------
(* Steps that are not of a run in its turn, and its last ones.              *)

LEMMA NothingWrittenPaired ==
  ASSUME SettledInv, KeptInv, PairedInv, UNCHANGED store,
         \A q \in Runs : run'[q] = run[q] \/ ~IsOpen(run'[q])
  PROVE  PairedInv'
BY NoneLonger, SilentPaired

LEMMA QuietPaired ==
  ASSUME SettledInv, KeptInv, PairedInv, UNCHANGED store,
         UNCHANGED run \/ Forget
  PROVE  PairedInv'
<1>1. \A q \in Runs : run'[q] = run[q] \/ ~IsOpen(run'[q])
  BY ForgetIsSilent
<1>2. QED
  BY <1>1, NothingWrittenPaired

LEMMA BeginPaired ==
  ASSUME SettledInv, KeptInv, PairedInv, NEW r \in Runs, NEW s, Begin(r, s)
  PROVE  PairedInv'
<1>1. UNCHANGED store
  BY DEF Begin
<1>2. QED
  BY <1>1, BeginIsSilent, NothingWrittenPaired

LEMMA BeginFailsPaired ==
  ASSUME SettledInv, KeptInv, PairedInv, NEW r \in Runs, BeginFails(r)
  PROVE  PairedInv'
<1>1. /\ run' = [run EXCEPT ![r] = [IdleRun EXCEPT !.at = "gone"]]
      /\ UNCHANGED store
  BY DEF BeginFails, Dropped
<1>2. QED
  BY <1>1, DroppedIsSilent, NothingWrittenPaired

LEMMA OpenLogPaired ==
  ASSUME PairedInv, NEW r \in Runs, IsOpen(run[r])
  PROVE  LogPaired(store[run[r].session].log)
BY DEF PairedInv, RunPaired, HistoryPaired

LEMMA CloseTurnPaired ==
  ASSUME SettledInv, KeptInv, PairedInv, NEW r \in Runs, CloseTurn(r)
  PROVE  PairedInv'
<1>1. PICK old, s, st, t, reason :
        /\ old = run[r] /\ s = old.session /\ st = store[s] /\ t = old.turn
        /\ reason = IF old.outcome = "ok" THEN "complete" ELSE old.outcome
  OBVIOUS
<1>2. old.at = "closed" /\ IsOpen(old)
  BY <1>1 DEF CloseTurn, IsOpen
<1>3. /\ s \in Sessions /\ Sound(st) /\ RunLogged(old, st) /\ RunTyped(r, old)
  BY <1>1, <1>2, OpenRun
<1>4. reason \in Reason /\ t \in DOMAIN st.turns
  BY <1>1, <1>2, <1>3 DEF RunTyped, RunLogged, Reason
<1>5. PICK new : new = EndTurn(st, t, reason)
  OBVIOUS
<1>6. LogPaired(st.log)
  BY <1>1, <1>2, OpenLogPaired
<1>7. Extended(st.log, new.log) /\ LogPaired(new.log)
  BY <1>3, <1>4, <1>5, <1>6, EndTurnExtends, EndTurnPaired
<1>8. store' = [store EXCEPT ![s] = new]
  BY <1>1, <1>5 DEF CloseTurn, Write, Own, Turn
<1>9. \A o \in Sessions : LongerPaired(o)
  BY <1>1, <1>3, <1>7, <1>8, OneLonger
<1>10. run' = [run EXCEPT ![r] = [IdleRun EXCEPT !.at = "gone"]]
  BY DEF CloseTurn
<1>11. QED
  BY <1>9, <1>10, DroppedIsSilent, SilentPaired

LEMMA ViewPaired ==
  ASSUME SteeringsApart, SettledInv, KeptInv, PairedInv,
         NEW s \in Sessions, View(s)
  PROVE  PairedInv'
<1>1. PICK st, new : st = store[s] /\ new = Repaired(st)
  OBVIOUS
<1>2. Sound(st) /\ MayBePaired(st.log)
  BY <1>1 DEF SettledInv, LogsInv, PairedInv
<1>3. Extended(st.log, new.log) /\ LogPaired(new.log)
  BY <1>1, <1>2, RepairedExtends, RepairedPaired
<1>4. store' = [store EXCEPT ![s] = new] /\ UNCHANGED run
  BY <1>1 DEF View, SettledInv, Shapes
<1>5. \A o \in Sessions : LongerPaired(o)
  BY <1>1, <1>3, <1>4, OneLonger
<1>6. QED
  BY <1>4, <1>5, SilentPaired

LEMMA CrashWhileOpeningPaired ==
  ASSUME SteeringsApart, SettledInv, KeptInv, PairedInv, NEW r \in Runs,
         CrashWhileOpening(r)
  PROVE  PairedInv'
<1>1. PICK s \in Sessions :
        store' = [store EXCEPT ![s] =
          StartTurn(Repaired(store[s]), Len(Repaired(store[s]).turns) + 1)]
  BY DEF CrashWhileOpening
<1>2. PICK st, mid, t, open, said :
        /\ st = store[s] /\ mid = Repaired(st) /\ t = Len(mid.turns) + 1
        /\ open = StartTurn(mid, t) /\ said = Say(open, <<User(t, "prompt")>>)
  OBVIOUS
<1>3. Sound(st) /\ MayBePaired(st.log)
  BY <1>2 DEF SettledInv, LogsInv, PairedInv
<1>4. Extended(st.log, open.log)
  BY <1>2, <1>3, OpenedExtends, ExtendedTwice
<1>5. Sound(mid) /\ LogPaired(mid.log)
  BY <1>2, <1>3, RepairedSound, RepairedPaired
<1>6. LogPaired(open.log)
  BY <1>2, <1>5, StartPaired
<1>7. store' = [store EXCEPT ![s] = open]
  BY <1>1, <1>2
<1>8. \A o \in Sessions : LongerPaired(o)
  BY <1>2, <1>4, <1>6, <1>7, OneLonger
<1>9. Forget
  BY DEF CrashWhileOpening
<1>10. QED
  BY <1>8, <1>9, ForgetIsSilent, SilentPaired

LEMMA OpenFailsPaired ==
  ASSUME SteeringsApart, SettledInv, KeptInv, PairedInv, NEW r \in Runs,
         NEW said \in BOOLEAN, OpenFails(r, said)
  PROVE  PairedInv'
<1>1. PICK s \in Sessions :
        store' = [store EXCEPT ![s] =
          LET t == Len(Repaired(store[s]).turns) + 1
              opening == StartTurn(Repaired(store[s]), t)
          IN  IF said THEN Say(opening, <<User(t, "prompt")>>) ELSE opening]
  BY DEF OpenFails
<1>2. PICK st, mid, t, open, prompted, new :
        /\ st = store[s] /\ mid = Repaired(st) /\ t = Len(mid.turns) + 1
        /\ open = StartTurn(mid, t) /\ prompted = Say(open, <<User(t, "prompt")>>)
        /\ new = IF said THEN prompted ELSE open
  OBVIOUS
<1>3. Sound(st) /\ RowsSound(st) /\ MayBePaired(st.log)
  BY <1>2 DEF SettledInv, LogsInv, PairedInv, Sound
<1>4. Extended(st.log, mid.log) /\ Extended(mid.log, new.log)
  BY <1>2, <1>3, OpenedExtends
<1>5. Extended(st.log, new.log)
  BY <1>4, ExtendedTwice
<1>6. Sound(mid) /\ LogPaired(mid.log)
  BY <1>2, <1>3, RepairedSound, RepairedPaired
<1>7. Sound(open)
  <2>1. HasOpened(st, open, t)
    BY <1>2, <1>3, OpenedSound
  <2>2. QED
    BY <2>1 DEF HasOpened
<1>8. LogPaired(open.log) /\ LogPaired(prompted.log)
  BY <1>2, <1>6, <1>7, StartPaired, PromptPaired
<1>9. LogPaired(new.log)
  BY <1>2, <1>8
<1>10. store' = [store EXCEPT ![s] = new]
  BY <1>1, <1>2
<1>11. \A o \in Sessions : LongerPaired(o)
  BY <1>2, <1>5, <1>9, <1>10, OneLonger
<1>12. run' = [run EXCEPT ![r] = [IdleRun EXCEPT !.at = "gone"]]
  BY DEF OpenFails, Dropped
<1>13. QED
  BY <1>11, <1>12, DroppedIsSilent, SilentPaired

LEMMA ForkPaired ==
  ASSUME SteeringsApart, SettledInv, KeptInv, PairedInv, NEW s \in Sessions,
         NEW new \in Sessions, NEW at \in DOMAIN store[s].log, Fork(s, at, new)
  PROVE  PairedInv'
<1>1. PICK st, mid, copy :
        st = store[s] /\ mid = Forked(st, at) /\ copy = Repaired(mid)
  OBVIOUS
<1>2. /\ Sound(st) /\ at \in DOMAIN st.log /\ MayBePaired(st.log)
      /\ st.log[at].kind = "user"
  BY <1>1 DEF SettledInv, LogsInv, PairedInv, Fork
<1>3. Sound(mid) /\ LogPaired(mid.log)
  BY <1>1, <1>2, ForkedSound, ForkedPaired
<1>4. LogPaired(copy.log)
  BY <1>1, <1>3, RepairedPaired DEF MayBePaired
<1>5. store' = [store EXCEPT ![new] = copy] /\ UNCHANGED run
      /\ new \notin sessions
  BY <1>1 DEF Fork
<1>6. /\ store'[new] = copy
      /\ \A o \in Sessions \ {new} : store'[o] = store[o]
  BY <1>5 DEF SettledInv, Shapes
<1>7. ASSUME NEW o \in Sessions
      PROVE  MayBePaired(store'[o].log)
  BY <1>4, <1>6 DEF PairedInv, MayBePaired
<1>8. ASSUME NEW q \in Runs
      PROVE  RunPaired(run'[q], store'[run'[q].session].log)
  <2>1. PICK o, all : o = run[q].session /\ all = store[o].log
    OBVIOUS
  <2>2. SaidPaired(run'[q]) /\ CarriesOn(run[q], run'[q])
    <3>1. PICK call : call = run[q]
      OBVIOUS
    <3>2. SaidPaired(call) /\ CarriesOn(call, call)
      BY <3>1, SilentCarriesOn DEF PairedInv, RunPaired
    <3>3. QED
      BY <1>5, <3>1, <3>2
  <2>3. ASSUME IsOpen(run'[q])
        PROVE  Lengthens(store[o].log, store'[o].log) /\ store'[o].log = store[o].log
    <3>1. IsOpen(run[q])
      BY <1>5, <2>3
    <3>2. o \in sessions /\ o \in Sessions /\ Sound(store[o])
      BY <2>1, <3>1, OpenRun
    <3>3. store'[o] = store[o]
      BY <1>5, <1>6, <3>2
    <3>4. IsSeq(all)
      BY <2>1, <3>2, SoundLog
    <3>5. Lengthens(all, all)
      BY <3>4, ExtendedByNothing, ExtendedLengthens
    <3>6. QED
      BY <2>1, <3>3, <3>5
  <2>4. QED
    BY <2>1, <2>2, <2>3, PairedStill
<1>9. QED
  BY <1>7, <1>8 DEF PairedInv

(* What is to be said when no calls are to be made.                         *)
LEMMA ToBeSaidIs ==
  ASSUME NEW call, IsSeq(call.fresh), call.todo = <<>>
  PROVE  ToBeSaid(call) = call.fresh
<1>1. PICK f, none, todo : f = call.fresh /\ none = <<>> /\ todo = call.todo
  OBVIOUS
<1>2. todo = none /\ DOMAIN none = {}
  BY <1>1, EmptyIsSeq
<1>3. [i \in DOMAIN todo |-> ToolResult(call.turn, todo[i])] = none
  BY <1>1, <1>2
<1>4. ToBeSaid(call) = f \o none
  BY <1>1, <1>3 DEF ToBeSaid
<1>5. f \o none = f
  BY <1>1, ConcatEmpty
<1>6. QED
  BY <1>1, <1>4, <1>5

LEMMA NothingPaired == Paired(<<>>) /\ Counted(<<>>)
<1>1. PICK none : none = <<>>
  OBVIOUS
<1>2. DOMAIN none = {}
  BY <1>1, EmptyIsSeq
<1>3. QED
  BY <1>1, <1>2 DEF Paired, Counted

(* The messages at some rows of a log.                                      *)
RowsOf(log, R) == [x \in DOMAIN R |-> log[R[x]]]
RowsAre(ms, log, R) ==
  /\ IsSeq(ms) /\ Len(ms) = Len(R) /\ DOMAIN ms = DOMAIN R
  /\ \A x \in DOMAIN R : ms[x] = log[R[x]]
  /\ Counted(ms)
LEMMA RowsOfAre ==
  ASSUME NEW log, NEW R, IsSeq(R), Counted(log),
         \A x \in DOMAIN R : R[x] \in DOMAIN log
  PROVE  RowsAre(RowsOf(log, R), log, R)
<1> DEFINE ms == RowsOf(log, R)
<1> HIDE DEF ms
<1>1. PICK n : n = Len(R)
  OBVIOUS
<1>2. n \in Nat /\ DOMAIN R = 1 .. n
  BY <1>1, SeqFacts
<1>3. DOMAIN ms = 1 .. n /\ \A x \in 1 .. n : ms[x] = log[R[x]]
  BY <1>2 DEF RowsOf, ms
<1>4. ms = [x \in 1 .. n |-> ms[x]]
  BY <1>2 DEF RowsOf, ms
<1>5. IsSeq(ms) /\ Len(ms) = n
  BY <1>2, <1>3, <1>4, FunSeq
<1>6. Counted(ms)
  BY <1>2, <1>3 DEF Counted
<1>7. RowsAre(ms, log, R)
  BY <1>1, <1>2, <1>3, <1>5, <1>6 DEF RowsAre
<1>8. QED
  BY <1>7 DEF ms

(* The rows of one list and then of another, as the later log shows them.   *)
JoinsRows(log, all, R, p, base) ==
  RowsOf(all, base) = RowsOf(log, R) \o RowsOf(all, p)
LEMMA RowsJoined ==
  ASSUME NEW log, NEW all, Lengthens(log, all), Counted(all),
         NEW R, IsSeq(R), \A x \in DOMAIN R : R[x] \in DOMAIN log,
         NEW p, IsSeq(p), \A x \in DOMAIN p : p[x] \in DOMAIN all,
         NEW base, base = R \o p
  PROVE  /\ JoinsRows(log, all, R, p, base)
         /\ IsSeq(base) /\ \A x \in DOMAIN base : base[x] \in DOMAIN all
<1>1. PICK m, l, ms, qs, bs, both :
        /\ m = Len(R) /\ l = Len(p) /\ ms = RowsOf(log, R)
        /\ qs = RowsOf(all, p) /\ bs = RowsOf(all, base) /\ both = ms \o qs
  OBVIOUS
<1>2. /\ m \in Nat /\ l \in Nat /\ DOMAIN R = 1 .. m /\ DOMAIN p = 1 .. l
      /\ IsSeq(base) /\ Len(base) = m + l /\ DOMAIN base = 1 .. m + l
      /\ \A x \in 1 .. m : base[x] = R[x]
      /\ \A x \in 1 .. l : base[m + x] = p[x]
  BY <1>1, ConcatSeq
<1>3. ASSUME NEW x \in 1 .. m + l
      PROVE  x \in 1 .. m \/ (x - m \in 1 .. l /\ m + (x - m) = x)
  BY <1>2
<1>4. \A x \in DOMAIN base : base[x] \in DOMAIN all
  <2>1. DOMAIN log \subseteq DOMAIN all
    BY DEF Lengthens
  <2>2. QED
    BY <1>2, <1>3, <2>1
<1>5. Counted(log)
  BY DEF Lengthens, Counted
<1>6. /\ IsSeq(ms) /\ Len(ms) = m /\ DOMAIN ms = 1 .. m
      /\ \A x \in 1 .. m : ms[x] = log[R[x]]
  <2>1. ms = RowsOf(log, R)
    BY <1>1
  <2>2. RowsAre(ms, log, R)
    BY <1>5, <2>1, RowsOfAre
  <2>3. QED
    BY <1>1, <1>2, <2>2 DEF RowsAre
<1>7. /\ IsSeq(qs) /\ Len(qs) = l /\ DOMAIN qs = 1 .. l
      /\ \A x \in 1 .. l : qs[x] = all[p[x]]
  <2>1. qs = RowsOf(all, p)
    BY <1>1
  <2>2. RowsAre(qs, all, p)
    BY <2>1, RowsOfAre
  <2>3. QED
    BY <1>1, <1>2, <2>2 DEF RowsAre
<1>8. /\ IsSeq(bs) /\ Len(bs) = m + l
      /\ \A x \in 1 .. m + l : bs[x] = all[base[x]]
  <2>1. bs = RowsOf(all, base) /\ IsSeq(base)
    BY <1>1, <1>2
  <2>2. RowsAre(bs, all, base)
    BY <1>4, <2>1, RowsOfAre
  <2>3. QED
    BY <1>2, <2>2 DEF RowsAre
<1>9. /\ IsSeq(both) /\ Len(both) = m + l
      /\ \A x \in 1 .. m : both[x] = ms[x]
      /\ \A x \in 1 .. l : both[m + x] = qs[x]
  <2>1. both = ms \o qs /\ m = Len(ms) /\ l = Len(qs) /\ IsSeq(ms) /\ IsSeq(qs)
    BY <1>1, <1>6, <1>7
  <2>2. Concatenates(both, ms, qs, m, l)
    BY <2>1, ConcatAre
  <2>3. QED
    BY <2>2 DEF Concatenates
<1>10. ASSUME NEW x \in 1 .. m + l
       PROVE  bs[x] = both[x]
  <2>1. CASE x \in 1 .. m
    <3>1. bs[x] = all[R[x]] /\ both[x] = log[R[x]]
      BY <1>2, <1>6, <1>8, <1>9, <1>10, <2>1
    <3>2. R[x] \in DOMAIN log
      BY <1>2, <2>1
    <3>3. QED
      BY <3>1, <3>2 DEF Lengthens
  <2>2. CASE x - m \in 1 .. l /\ m + (x - m) = x
    <3>1. PICK y : y = x - m
      OBVIOUS
    <3>2. y \in 1 .. l /\ m + y = x
      BY <2>2, <3>1
    <3>3. both[x] = qs[y] /\ qs[y] = all[p[y]] /\ base[x] = p[y]
      BY <1>2, <1>7, <1>9, <3>2
    <3>4. bs[x] = all[base[x]]
      BY <1>8, <1>10
    <3>5. QED
      BY <3>3, <3>4
  <2>3. QED
    BY <1>3, <1>10, <2>1, <2>2
<1>11. bs = both
  BY <1>8, <1>9, <1>10, SeqSame
<1>12. QED
  BY <1>1, <1>2, <1>4, <1>11 DEF JoinsRows

(* Messages that people sent.                                               *)
LEMMA UsersPaired ==
  ASSUME NEW ms, \A i \in DOMAIN ms : ms[i].kind = "user"
  PROVE  Paired(ms)
BY DEF Paired

LEMMA BaseInIs ==
  ASSUME NEW call, NEW log
  PROVE  BaseIn(call, log) = RowsOf(log, call.base)
BY DEF BaseIn, RowsOf

(* The same, in words that are easy to find again.                          *)
RowsIn(R, log) == IsSeq(R) /\ \A x \in DOMAIN R : R[x] \in DOMAIN log
SurfaceIs(S, log) == S = {y \in DOMAIN log : Shows(log, y)}
EntriesAre(E, R, a) == /\ DOMAIN E = DOMAIN R
                       /\ \A x \in DOMAIN R : E[x] = IF x <= a THEN 0 ELSE R[x]
WellPaired(log) == IsSeq(log) /\ Counted(log) /\ LogPaired(log)
IsHead(hd, log, R, k) == /\ IsSeq(hd) /\ Len(hd) = k /\ Counted(hd)
                         /\ \A x \in 1 .. k : hd[x] = log[R[x]]

LEMMA SurfacePaired ==
  ASSUME NEW log, WellPaired(log), NEW S, SurfaceIs(S, log),
         NEW R, NEW a, Ordered(log, S, R, a), NEW ms, RowsAre(ms, log, R)
  PROVE  Paired(ms)
<1>1. IsSeq(log) /\ Counted(log) /\ LogPaired(log)
  BY DEF WellPaired
<1>2. S = {y \in DOMAIN log : Shows(log, y)}
  BY DEF SurfaceIs
<1>3. IsSeq(ms) /\ DOMAIN ms = DOMAIN R /\ \A x \in DOMAIN R : ms[x] = log[R[x]]
  BY DEF RowsAre
<1>4. QED
  BY <1>1, <1>2, <1>3, OrderedPaired

LEMMA SurfaceCuts ==
  ASSUME NEW log, WellPaired(log), NEW S, SurfaceIs(S, log),
         NEW R, NEW a, Ordered(log, S, R, a), NEW E, EntriesAre(E, R, a),
         NEW k \in DOMAIN R, NEW c, c = ShadowedThrough(E, k),
         NEW hd, IsHead(hd, log, R, k), Paired(hd)
  PROVE  CutsNone(log, c)
<1>1. IsSeq(log) /\ Counted(log) /\ LogPaired(log)
  BY DEF WellPaired
<1>2. S = {y \in DOMAIN log : Shows(log, y)}
  BY DEF SurfaceIs
<1>3. /\ DOMAIN E = DOMAIN R
      /\ \A x \in DOMAIN R : E[x] = IF x <= a THEN 0 ELSE R[x]
  BY DEF EntriesAre
<1>4. /\ IsSeq(hd) /\ Len(hd) = k /\ Counted(hd)
      /\ \A x \in 1 .. k : hd[x] = log[R[x]]
  BY DEF IsHead
<1>5. QED
  BY <1>1, <1>2, <1>3, <1>4, OrderedCuts

LEMMA SurfaceTakes ==
  ASSUME NEW log, IsSeq(log), NEW S, SurfaceIs(S, log),
         NEW R, NEW a, Ordered(log, S, R, a), NEW E, EntriesAre(E, R, a),
         NEW call, call.entries = E, \A x \in DOMAIN R : call.base[x] = R[x],
         NEW k \in DOMAIN R
  PROVE  Takes(call, log, k)
<1>1. PICK n : n = Len(log)
  OBVIOUS
<1>2. n \in Nat /\ DOMAIN log = 1 .. n
  BY <1>1, SeqFacts
<1>3. S = {y \in DOMAIN log : Shows(log, y)}
  BY DEF SurfaceIs
<1>4. /\ DOMAIN E = DOMAIN R
      /\ \A x \in DOMAIN R : E[x] = IF x <= a THEN 0 ELSE R[x]
  BY DEF EntriesAre
<1>5. QED
  BY <1>1, <1>2, <1>3, <1>4, OrderedTakes

LEMMA RowsConcat ==
  ASSUME NEW log, NEW all, Lengthens(log, all), Counted(all),
         NEW R, RowsIn(R, log), NEW p, RowsIn(p, all),
         NEW base, base = R \o p
  PROVE  RowsIn(base, all)
<1>1. IsSeq(R) /\ \A x \in DOMAIN R : R[x] \in DOMAIN log
  BY DEF RowsIn
<1>2. IsSeq(p) /\ \A x \in DOMAIN p : p[x] \in DOMAIN all
  BY DEF RowsIn
<1>3. IsSeq(base) /\ \A x \in DOMAIN base : base[x] \in DOMAIN all
  BY <1>1, <1>2, RowsJoined
<1>4. QED
  BY <1>3 DEF RowsIn

LEMMA RowsOfConcat ==
  ASSUME NEW log, NEW all, Lengthens(log, all), Counted(all),
         NEW R, RowsIn(R, log), NEW p, RowsIn(p, all),
         NEW base, base = R \o p
  PROVE  JoinsRows(log, all, R, p, base)
<1>1. IsSeq(R) /\ \A x \in DOMAIN R : R[x] \in DOMAIN log
  BY DEF RowsIn
<1>2. IsSeq(p) /\ \A x \in DOMAIN p : p[x] \in DOMAIN all
  BY DEF RowsIn
<1>3. QED
  BY <1>1, <1>2, RowsJoined

(* The first k messages of a history with a person's prompt after it.       *)
LEMMA HeadOfRows ==
  ASSUME NEW log, NEW all, NEW R, NEW p, Len(p) <= 1,
         Counted(log), Counted(all), RowsIn(R, log), RowsIn(p, all),
         NEW bs, bs = RowsOf(log, R) \o RowsOf(all, p),
         NEW k, k \in 1 .. Len(R) + Len(p) - 1, NEW hd, hd = SubSeq(bs, 1, k)
  PROVE  k \in DOMAIN R /\ IsHead(hd, log, R, k)
<1>1. PICK m, l, ms, qs :
        /\ m = Len(R) /\ l = Len(p) /\ ms = RowsOf(log, R) /\ qs = RowsOf(all, p)
  OBVIOUS
<1>2. /\ IsSeq(R) /\ \A x \in DOMAIN R : R[x] \in DOMAIN log
      /\ IsSeq(p) /\ \A x \in DOMAIN p : p[x] \in DOMAIN all
  BY DEF RowsIn
<1>3. m \in Nat /\ l \in Nat /\ DOMAIN R = 1 .. m /\ l <= 1
  BY <1>1, <1>2, SeqFacts
<1>4. k \in 1 .. m
  BY <1>1, <1>3
<1>5. RowsAre(ms, log, R) /\ RowsAre(qs, all, p)
  BY <1>1, <1>2, RowsOfAre
<1>6. IsSeq(ms) /\ IsSeq(qs) /\ m = Len(ms) /\ l = Len(qs)
  BY <1>1, <1>5 DEF RowsAre
<1>7. Concatenates(bs, ms, qs, m, l)
  <2>1. bs = ms \o qs
    BY <1>1
  <2>2. QED
    BY <1>6, <2>1, ConcatAre
<1>8. IsSeq(bs) /\ k \in 0 .. Len(bs)
  BY <1>3, <1>4, <1>7 DEF Concatenates
<1>9. hd = Head2(bs, k)
  BY DEF Head2
<1>10. /\ IsSeq(hd) /\ Len(hd) = k /\ DOMAIN hd = 1 .. k
       /\ \A x \in 1 .. k : hd[x] = bs[x]
  BY <1>8, <1>9, Head2Is
<1>11. \A x \in 1 .. k : x \in 1 .. m /\ x \in DOMAIN R
  BY <1>3, <1>4
<1>12. \A x \in 1 .. k : hd[x] = log[R[x]] /\ R[x] \in DOMAIN log
  BY <1>2, <1>5, <1>7, <1>10, <1>11 DEF Concatenates, RowsAre
<1>13. Counted(hd)
  <2>1. ASSUME NEW x \in DOMAIN hd
        PROVE  Cardinality(hd[x].calls) \in Nat
    <3>1. PICK i : i = R[x]
      OBVIOUS
    <3>2. i \in DOMAIN log /\ hd[x] = log[i]
      BY <1>10, <1>12, <3>1
    <3>3. QED
      BY <3>2 DEF Counted
  <2>2. QED
    BY <2>1 DEF Counted
<1>14. QED
  BY <1>3, <1>4, <1>10, <1>12, <1>13 DEF IsHead

(* A turn that is opened with the history of its session, and perhaps with  *)
(* what a person says.                                                      *)
LEMMA OpenedPaired ==
  ASSUME NEW st, Sound(st), RowsTell(st), NoBlanks(st.log), LogPaired(st.log),
         NEW all, Lengthens(st.log, all), LogPaired(all), Counted(all),
         NEW p, IsSeq(p), Len(p) <= 1,
         \A x \in DOMAIN p : p[x] \in DOMAIN all /\ all[p[x]].kind = "user",
         NEW call, call.entries = Entries(st), call.base = History(st) \o p,
         call.at = "step", call.todo = <<>>, call.fresh = <<>>
  PROVE  RunPaired(call, all)
<1>1. PICK log, S, R, E, n :
        /\ log = st.log /\ S = st.surface /\ R = Replayed(st)
        /\ E = Entries(st) /\ n = Len(log)
  OBVIOUS
<1>2. PICK a : Ordered(log, S, R, a)
  BY <1>1, ReplayedOrdered
<1>3. /\ n \in Nat /\ DOMAIN log = 1 .. n /\ IsSeq(log) /\ Counted(log)
      /\ S \subseteq DOMAIN log /\ n = Len(log) /\ WellPaired(log)
  BY <1>1, SoundLog, SoundCounted DEF Sound, WellPaired
<1>4. SurfaceIs(S, log)
  BY <1>1 DEF RowsTell, SurfaceIs
<1>5. E = [x \in DOMAIN R |->
             IF log[R[x]].kind = "summary" THEN 0 ELSE R[x]]
  BY <1>1 DEF Entries
<1>6. EntriesAre(E, R, a)
  BY <1>2, <1>5 DEF Ordered, EntriesAre
<1>7. PICK base : base = R \o p
  OBVIOUS
<1>8. call.base = base
  BY <1>1, <1>7, HistoryIs
<1>9. RowsIn(R, log) /\ RowsIn(p, all) /\ Lengthens(log, all)
  BY <1>1, <1>2, <1>3 DEF Ordered, RowsIn
<1>10. PICK ms, qs, bs :
         /\ ms = RowsOf(log, R) /\ qs = RowsOf(all, p) /\ bs = RowsOf(all, base)
  OBVIOUS
<1>11. bs = ms \o qs
  <2>1. JoinsRows(log, all, R, p, base)
    BY <1>7, <1>9, RowsOfConcat
  <2>2. QED
    BY <1>10, <2>1 DEF JoinsRows
<1>12. RowsIn(base, all)
  BY <1>7, <1>9, RowsConcat
<1>13. RowsAre(ms, log, R) /\ RowsAre(qs, all, p)
  BY <1>3, <1>9, <1>10, RowsOfAre DEF RowsIn
<1>14. IsSeq(ms) /\ IsSeq(qs) /\ Counted(ms) /\ Counted(qs)
  BY <1>13 DEF RowsAre
<1>15. Paired(ms)
  BY <1>2, <1>3, <1>4, <1>13, SurfacePaired
<1>16. Paired(qs)
  BY <1>13, UsersPaired DEF RowsAre
<1>17. Paired(bs)
  BY <1>11, <1>14, <1>15, <1>16, PairedJoined
<1>18. BaseIn(call, all) = bs
  BY <1>8, <1>10, BaseInIs
<1>19. HistoryPaired(call, all)
  BY <1>8, <1>12, <1>17, <1>18 DEF HistoryPaired, RowsIn
<1>20. SaidPaired(call)
  <2>1. IsSeq(call.fresh) /\ ToBeSaid(call) = call.fresh
    BY EmptyIsSeq, ToBeSaidIs
  <2>2. Paired(ToBeSaid(call))
    BY <2>1, NothingPaired
  <2>3. QED
    BY <2>2 DEF SaidPaired, IsWorking
<1>21. CutsPaired(call, all)
  <2>1. SUFFICES ASSUME NEW k \in 1 .. Len(call.base) - 1,
                        Paired(SubSeq(BaseIn(call, all), 1, k))
        PROVE  CutsNone(all, ShadowedThrough(call.entries, k))
    BY DEF CutsPaired
  <2>2. PICK hd, c : hd = SubSeq(bs, 1, k) /\ c = ShadowedThrough(E, k)
    OBVIOUS
  <2>3. Paired(hd)
    BY <1>18, <2>1, <2>2
  <2>4. k \in 1 .. Len(R) + Len(p) - 1
    <3>1. Len(base) = Len(R) + Len(p)
      BY <1>7, <1>9, ConcatSeq DEF RowsIn
    <3>2. QED
      BY <1>8, <2>1, <3>1
  <2>5. k \in DOMAIN R /\ IsHead(hd, log, R, k)
    <3>1. bs = RowsOf(log, R) \o RowsOf(all, p)
      BY <1>10, <1>11
    <3>2. QED
      BY <1>3, <1>9, <2>2, <2>4, <3>1, HeadOfRows
  <2>6. CutsNone(log, c)
    BY <1>2, <1>3, <1>4, <1>6, <2>2, <2>3, <2>5, SurfaceCuts
  <2>7. c \in 0 .. n
    <3>1. Takes(call, log, k)
      <4>1. /\ call.entries = E /\ \A x \in DOMAIN R : call.base[x] = R[x]
        BY <1>1, <1>7, <1>8, <1>9, ConcatSeq DEF RowsIn
      <4>2. QED
        BY <1>2, <1>3, <1>4, <1>6, <2>5, <4>1, SurfaceTakes
    <3>2. call.entries = E
      BY <1>1
    <3>3. QED
      BY <1>3, <2>2, <3>1, <3>2 DEF Takes
  <2>8. CutsNone(all, c)
    <3>1. /\ DOMAIN log = 1 .. Len(log) /\ Len(log) \in Nat /\ c \in 0 .. Len(log)
          /\ \A i \in DOMAIN log : all[i] = log[i]
          /\ DOMAIN all \subseteq Nat \ {0}
      BY <1>1, <1>3, <2>7 DEF Lengthens
    <3>2. QED
      BY <2>6, <3>1, CutsStill
  <2>9. QED
    BY <1>1, <2>2, <2>8
<1>22. QED
  BY <1>19, <1>20, <1>21 DEF RunPaired

(* What a person's prompt adds to the history of a turn.                    *)
PromptIn(p, all) ==
  /\ IsSeq(p) /\ Len(p) <= 1
  /\ \A x \in DOMAIN p : p[x] \in DOMAIN all /\ all[p[x]].kind = "user"
OpensTurn(call, st, p) ==
  /\ call.entries = Entries(st) /\ call.base = History(st) \o p
  /\ call.at = "step" /\ call.todo = <<>> /\ call.fresh = <<>>

LEMMA PromptIsIn ==
  ASSUME NEW st, Sound(st), NEW t, NEW said, said = Say(st, <<User(t, "prompt")>>),
         NEW p, p = <<Len(st.log) + 1>>
  PROVE  PromptIn(p, said.log)
<1>1. PICK e, ms, n : e = User(t, "prompt") /\ ms = <<e>> /\ n = Len(st.log)
  OBVIOUS
<1>2. IsSeq(st.log) /\ n \in Nat
  BY <1>1, SeqFacts DEF Sound, LogSound
<1>3. IsSeq(ms) /\ Len(ms) = 1 /\ DOMAIN ms = {1} /\ ms[1] = e
  BY <1>1, SingleSeq
<1>4. said.log = st.log \o ms
  BY <1>1 DEF Say, Sound, RowsSound
<1>5. DOMAIN said.log = 1 .. n + 1 /\ said.log[n + 1] = ms[1]
  BY <1>1, <1>2, <1>3, <1>4, ConcatSeq
<1>6. e.kind = "user"
  BY <1>1 DEF User, Event
<1>7. IsSeq(p) /\ Len(p) = 1 /\ DOMAIN p = {1} /\ p[1] = n + 1
  BY <1>1, SingleSeq
<1>8. n + 1 \in DOMAIN said.log /\ said.log[n + 1].kind = "user"
  BY <1>2, <1>3, <1>5, <1>6
<1>9. QED
  BY <1>7, <1>8 DEF PromptIn

LEMMA NoPromptIsIn ==
  ASSUME NEW all, NEW p, p = <<>>
  PROVE  PromptIn(p, all)
BY EmptyIsSeq DEF PromptIn

LEMMA TurnOpensPaired ==
  ASSUME NEW st, Sound(st), RowsTell(st), NoBlanks(st.log), LogPaired(st.log),
         NEW all, Lengthens(st.log, all), LogPaired(all), Counted(all),
         NEW p, PromptIn(p, all), NEW call, OpensTurn(call, st, p)
  PROVE  RunPaired(call, all)
<1>1. /\ IsSeq(p) /\ Len(p) <= 1
      /\ \A x \in DOMAIN p : p[x] \in DOMAIN all /\ all[p[x]].kind = "user"
  BY DEF PromptIn
<1>2. /\ call.entries = Entries(st) /\ call.base = History(st) \o p
      /\ call.at = "step" /\ call.todo = <<>> /\ call.fresh = <<>>
  BY DEF OpensTurn
<1>3. QED
  BY <1>1, <1>2, OpenedPaired

LEMMA OpenTurnPaired ==
  ASSUME SteeringsApart, SettledInv, RowsInv, KeptInv, PairedInv, NEW r \in Runs,
         NEW say \in BOOLEAN, OpenTurn(r, say), SettledInv'
  PROVE  PairedInv'
<1>1. PICK s \in Sessions : Opened(r, s, Repaired(store[s]), say)
  BY DEF OpenTurn
<1>2. PICK st, mid, t, open, said, new, p :
        /\ st = store[s] /\ mid = Repaired(st) /\ t = Len(mid.turns) + 1
        /\ open = StartTurn(mid, t) /\ said = Say(open, <<User(t, "prompt")>>)
        /\ new = IF say THEN said ELSE open
        /\ p = IF say THEN <<Len(open.log) + 1>> ELSE <<>>
  OBVIOUS
<1>3. PICK entries, base, after :
        /\ entries = Entries(mid) /\ base = History(mid) \o p
        /\ after = run'[r]
  OBVIOUS
<1>4. /\ store' = [store EXCEPT ![s] = new]
      /\ run' = [run EXCEPT ![r] =
           [IdleRun EXCEPT
              !.at = "step", !.session = s, !.turn = t, !.step = 1,
              !.entries = entries, !.base = base]]
  <2>1. Opened(r, s, mid, say)
    BY <1>1, <1>2
  <2>2. CASE say
    BY <1>2, <1>3, <2>1, <2>2 DEF Opened
  <2>3. CASE ~say
    BY <1>2, <1>3, <2>1, <2>3 DEF Opened
  <2>4. QED
    BY <2>2, <2>3
<1>5. PICK none : none = <<>>
  OBVIOUS
<1>6. /\ after.session = s /\ after.entries = entries /\ after.base = base
      /\ after.fresh = none /\ after.todo = none /\ after.at = "step"
  BY <1>3, <1>4, <1>5 DEF IdleRun, SettledInv, Shapes
<1>7. /\ \A q \in Runs \ {r} : run'[q] = run[q]
      /\ store'[s] = new
  BY <1>4 DEF SettledInv, Shapes
<1>8. Sound(st) /\ RowsTell(st) /\ LogKept(st.log) /\ MayBePaired(st.log)
  BY <1>2 DEF SettledInv, LogsInv, RowsInv, KeptInv, PairedInv
<1>9. Sound(mid) /\ RowsTell(mid) /\ LogPaired(mid.log)
  BY <1>2, <1>8, RepairedSound, RepairedTells, RepairedPaired
<1>10. Extended(st.log, mid.log) /\ Extended(mid.log, new.log)
  BY <1>2, <1>8, OpenedExtends
<1>11. Extended(st.log, new.log)
  BY <1>10, ExtendedTwice
<1>12. NoBlanks(mid.log)
  BY <1>8, <1>10, KeptExtended DEF LogKept
<1>13. Sound(open)
  BY <1>2, <1>8, OpenedTells
<1>14. LogPaired(open.log) /\ LogPaired(said.log)
  BY <1>2, <1>9, <1>13, StartPaired, PromptPaired
<1>15. LogPaired(new.log)
  BY <1>2, <1>14
<1>16. PromptIn(p, new.log)
  <2>1. CASE say
    <3>1. p = <<Len(open.log) + 1>> /\ new = said
      BY <1>2, <2>1
    <3>2. PromptIn(p, said.log)
      BY <1>2, <1>13, <3>1, PromptIsIn
    <3>3. QED
      BY <3>1, <3>2
  <2>2. CASE ~say
    BY <1>2, <2>2, NoPromptIsIn
  <2>3. QED
    BY <2>1, <2>2
<1>17. Counted(new.log)
  <2>1. Sound(store'[s])
    BY DEF SettledInv, LogsInv
  <2>2. LogSound(new.log)
    BY <1>7, <2>1 DEF Sound
  <2>3. QED
    BY <2>2, SoundCounted
<1>18. RunPaired(after, new.log)
  <2>1. OpensTurn(after, mid, p)
    BY <1>3, <1>5, <1>6 DEF OpensTurn
  <2>2. Lengthens(mid.log, new.log)
    BY <1>10, ExtendedLengthens
  <2>3. QED
    BY <1>9, <1>12, <1>15, <1>16, <1>17, <2>1, <2>2, TurnOpensPaired
<1>19. \A o \in Sessions : LongerPaired(o)
  BY <1>2, <1>4, <1>11, <1>15, OneLonger
<1>20. ASSUME NEW q \in Runs
       PROVE  RunPaired(run'[q], store'[run'[q].session].log)
  <2>1. CASE q = r
    BY <1>3, <1>6, <1>7, <1>18, <2>1
  <2>2. CASE q # r
    <3>1. PICK o : o = run[q].session
      OBVIOUS
    <3>2. run'[q] = run[q]
      BY <1>7, <2>2
    <3>3. SaidPaired(run'[q]) /\ CarriesOn(run[q], run'[q])
      BY <3>2 DEF PairedInv, RunPaired, CarriesOn
    <3>4. ASSUME IsOpen(run'[q])
          PROVE  /\ Lengthens(store[o].log, store'[o].log)
                 /\ \/ store'[o].log = store[o].log
                    \/ LogPaired(store'[o].log)
      <4>1. o \in Sessions
        BY <3>1, <3>2, <3>4, OpenRun
      <4>2. LongerPaired(o)
        BY <1>19, <4>1
      <4>3. QED
        BY <4>2, ExtendedLengthens DEF LongerPaired
    <3>5. QED
      BY <3>1, <3>3, <3>4, PairedStill
  <2>3. QED
    BY <2>1, <2>2
<1>21. ASSUME NEW o \in Sessions
       PROVE  MayBePaired(store'[o].log)
  <2>1. MayBePaired(store[o].log)
    BY DEF PairedInv
  <2>2. store'[o].log = store[o].log \/ LogPaired(store'[o].log)
    BY <1>19 DEF LongerPaired
  <2>3. QED
    BY <2>1, <2>2 DEF MayBePaired
<1>22. QED
  BY <1>20, <1>21 DEF PairedInv

-----------------------------------------------------------------------------
(* Steps of the loop.                                                       *)

LEMMA GoesCarriesOn ==
  ASSUME PairedInv, NEW r \in Runs, IsOpen(run[r]), Goes(r), SaidPaired(run'[r]),
         NEW q \in Runs
  PROVE  SaidPaired(run'[q]) /\ CarriesOn(run[q], run'[q])
<1>1. PICK old, after : old = run[q] /\ after = run'[q]
  OBVIOUS
<1>2. CASE q = r
  <2>1. SameTurn(old, after) /\ IsOpen(old) /\ SaidPaired(after)
    BY <1>1, <1>2 DEF Goes
  <2>2. CarriesOn(old, after)
    BY <2>1 DEF CarriesOn, SameTurn, MaySummarise
  <2>3. QED
    BY <1>1, <2>1, <2>2
<1>3. CASE q # r
  <2>1. after = old /\ SaidPaired(old)
    BY <1>1, <1>3 DEF Goes, PairedInv, RunPaired
  <2>2. QED
    BY <1>1, <2>1, SilentCarriesOn
<1>4. QED
  BY <1>2, <1>3

LEMMA GoesPaired ==
  ASSUME SettledInv, KeptInv, PairedInv, NEW r \in Runs, IsOpen(run[r]), Goes(r),
         SaidPaired(run'[r]), \A o \in Sessions : LongerPaired(o)
  PROVE  PairedInv'
<1>1. ASSUME NEW q \in Runs
      PROVE  SaidPaired(run'[q]) /\ CarriesOn(run[q], run'[q])
  BY GoesCarriesOn
<1>2. QED
  BY <1>1, PairedNow

LEMMA MarkPaired ==
  ASSUME SettledInv, PairedInv, NEW r \in Runs, IsOpen(run[r]),
         \/ Write(r, StartStep(Own(r), Turn(r)))
         \/ Write(r, EndStep(Own(r), Turn(r))),
         NEW o \in Sessions
  PROVE  LongerPaired(o)
<1>1. PICK s, st, t : s = run[r].session /\ st = store[s] /\ t = run[r].turn
  OBVIOUS
<1>2. s \in Sessions /\ Sound(st) /\ LogPaired(st.log)
  BY <1>1, OpenRun, OpenLogPaired
<1>3. PICK kind \in {"stepStart", "stepEnd"} :
        store' = [store EXCEPT ![s] = Logged(st, Event(kind, t, "said", {}))]
  BY <1>1 DEF Write, StartStep, EndStep, Own, Turn
<1>4. PICK e, new : e = Event(kind, t, "said", {}) /\ new = Logged(st, e)
  OBVIOUS
<1>5. e.kind \notin {"assistant", "tool", "summary"} /\ e.calls = {}
  BY <1>4 DEF Event
<1>6. Extended(st.log, new.log)
  BY <1>2, <1>4, <1>5, LoggedExtends
<1>7. LogPaired(new.log)
  BY <1>2, <1>4, <1>5, LoggedPaired
<1>8. QED
  BY <1>1, <1>2, <1>3, <1>4, <1>6, <1>7, OneLonger

(* The first messages of what is said, when more is.                        *)
LEMMA HeadOfMore ==
  ASSUME NEW f, NEW m, IsSeq(f), IsSeq(m), NEW g, g = f \o m,
         NEW k, k \in 0 .. Len(f)
  PROVE  Head2(g, k) = Head2(f, k) /\ k \in 0 .. Len(g) /\ IsSeq(g)
<1>1. PICK n, l : n = Len(f) /\ l = Len(m)
  OBVIOUS
<1>2. /\ n \in Nat /\ l \in Nat /\ IsSeq(g) /\ Len(g) = n + l
      /\ \A i \in 1 .. n : g[i] = f[i]
  BY <1>1, ConcatSeq
<1>3. k \in 0 .. Len(g) /\ \A i \in 1 .. k : i \in 1 .. n
  BY <1>1, <1>2
<1>4. PICK a, b : a = Head2(g, k) /\ b = Head2(f, k)
  OBVIOUS
<1>5. /\ IsSeq(a) /\ IsSeq(b) /\ Len(a) = k /\ Len(b) = k
      /\ \A i \in 1 .. k : a[i] = g[i] /\ b[i] = f[i]
  BY <1>2, <1>3, <1>4, Head2Is
<1>6. \A i \in 1 .. k : a[i] = b[i]
  BY <1>2, <1>3, <1>5
<1>7. a = b
  BY <1>5, <1>6, SeqSame
<1>8. QED
  BY <1>2, <1>3, <1>4, <1>7

(* What a turn says of itself is counted, and all of one turn.              *)
OfTurn(ms, t) ==
  /\ IsSeq(ms) /\ Counted(ms)
  /\ \A i \in DOMAIN ms : ms[i].turn = t /\ ms[i].kind # "summary"
LEMMA SaidOfTurn ==
  ASSUME NEW r, NEW call, RunTyped(r, call)
  PROVE  OfTurn(call.fresh, call.turn)
<1>1. /\ IsSeq(call.fresh)
      /\ \A i \in DOMAIN call.fresh :
           /\ call.fresh[i].kind \in {"user", "assistant", "tool"}
           /\ call.fresh[i].turn = call.turn
           /\ IsFiniteSet(call.fresh[i].calls)
  BY DEF RunTyped
<1>2. Counted(call.fresh)
  BY <1>1, FS_CardinalityType DEF Counted
<1>3. QED
  BY <1>1, <1>2 DEF OfTurn

LEMMA RestFits ==
  ASSUME NEW g, NEW t, OfTurn(g, t), Paired(g), NEW k, k \in 0 .. Len(g),
         Paired(Head2(g, k)), NEW ms, ms = Tail2(g, k), NEW log
  PROVE  FitsPaired(log, ms)
<1>1. PICK n, hd : n = Len(g) /\ hd = Head2(g, k)
  OBVIOUS
<1>2. IsSeq(g) /\ Counted(g) /\ n \in Nat /\ DOMAIN g = 1 .. n
  BY <1>1, SeqFacts DEF OfTurn
<1>3. IsSeq(hd) /\ g = hd \o ms
  BY <1>1, <1>2, Head2Is, HeadTail
<1>4. /\ IsSeq(ms) /\ DOMAIN ms = 1 .. n - k
      /\ \A i \in 1 .. n - k : ms[i] = g[k + i]
  BY <1>1, <1>2, Tail2Is
<1>5. ASSUME NEW i \in DOMAIN ms
      PROVE  ms[i].turn = t /\ ms[i].kind # "summary"
             /\ Cardinality(ms[i].calls) \in Nat
  <2>1. k + i \in DOMAIN g
    BY <1>1, <1>2, <1>4
  <2>2. ms[i] = g[k + i]
    BY <1>4
  <2>3. QED
    BY <1>2, <2>1, <2>2 DEF OfTurn, Counted
<1>6. Counted(ms)
  BY <1>5 DEF Counted
<1>7. Paired(ms)
  BY <1>1, <1>2, <1>3, <1>4, PairedRest
<1>8. TurnsAgree(ms)
  <2>1. SUFFICES ASSUME NEW i \in DOMAIN ms, ms[i].kind = "assistant",
                        NEW j \in ResultsAt(ms, i)
        PROVE  ms[j].turn = ms[i].turn
    BY DEF TurnsAgree
  <2>2. j \in DOMAIN ms
    BY <1>4, <1>6, <1>7, <2>1, ResultsAreIn
  <2>3. QED
    BY <1>5, <2>1, <2>2
<1>9. QED
  BY <1>4, <1>5, <1>6, <1>7, <1>8 DEF FitsPaired

(* A step is settled: all it is to say has been said.                       *)
LEMMA SettlePaired ==
  ASSUME SettledInv, SettledInv', KeptInv, PairedInv, NEW r \in Runs,
         IsWorking(run[r]), Goes(r), NEW more, IsSeq(more),
         NEW at \in {"settled", "answered"}, NEW outcome,
         Settle(r, more, at, outcome), Paired(run[r].fresh \o more)
  PROVE  PairedInv'
<1>1. PICK s, st, old, after, f, g, k, ms :
        /\ s = run[r].session /\ st = store[s] /\ old = run[r]
        /\ after = run'[r] /\ f = old.fresh /\ g = f \o more /\ k = old.mark
        /\ ms = Unsettled(r, more)
  OBVIOUS
<1>2. IsOpen(run[r])
  BY DEF IsOpen, IsWorking
<1>3. s \in Sessions /\ Sound(st) /\ RunTyped(r, old) /\ LogPaired(st.log)
  BY <1>1, <1>2, OpenRun, OpenLogPaired
<1>4. RunTyped(r, after) /\ DOMAIN run = Runs /\ DOMAIN old = DOMAIN IdleRun
  BY <1>1, <1>3 DEF SettledInv, Shapes, RunsInv, RunTyped
<1>5. PICK none : none = <<>>
  OBVIOUS
<1>6. run' = [run EXCEPT ![r].at = at, ![r].outcome = outcome,
                         ![r].fresh = @ \o more, ![r].todo = none]
  BY <1>5 DEF Settle
<1>7. after = [old EXCEPT !.at = at, !.outcome = outcome,
                          !.fresh = @ \o more, !.todo = none]
  BY <1>1, <1>4, <1>6
<1>8. after.at = at /\ after.fresh = g /\ after.todo = none
  <2>1. {"at", "outcome", "fresh", "todo"} \subseteq DOMAIN old
    BY <1>4 DEF IdleRun
  <2>2. QED
    BY <1>1, <1>7, <2>1
<1>9. IsSeq(f) /\ k \in 0 .. Len(f)
  BY <1>1, <1>3 DEF RunTyped
<1>10. PICK t : t = after.turn
  OBVIOUS
<1>11. OfTurn(g, t) /\ Paired(g)
  BY <1>1, <1>4, <1>8, <1>10, SaidOfTurn
<1>12. /\ Head2(g, k) = Head2(f, k) /\ k \in 0 .. Len(g) /\ IsSeq(g)
  BY <1>1, <1>9, HeadOfMore
<1>13. Paired(Head2(f, k))
  BY <1>1 DEF PairedInv, RunPaired, SaidPaired, Head2
<1>14. ms = Tail2(g, k)
  BY <1>1 DEF Unsettled, Tail2
<1>15. FitsPaired(st.log, ms)
  BY <1>11, <1>12, <1>13, <1>14, RestFits
<1>16. PICK new : new = Say(st, ms)
  OBVIOUS
<1>17. store' = [store EXCEPT ![s] = new]
  BY <1>1, <1>16 DEF Settle, Write, Own
<1>18. new.log = st.log \o ms
  BY <1>3, <1>16 DEF Say, Sound, RowsSound
<1>19. LogPaired(new.log)
  <2>1. IsSeq(st.log) /\ Counted(st.log)
    BY <1>3, SoundCounted DEF Sound
  <2>2. QED
    BY <1>3, <1>15, <1>18, <2>1, LogJoined
<1>20. \A o \in Sessions : LongerPaired(o)
  <2>1. NoBlanks(run'[r].fresh)
    BY <1>2, GoesCarries
  <2>2. \A o \in Sessions : Extended(store[o].log, store'[o].log)
    BY <1>2, <2>1, SettleExtends
  <2>3. \A o \in Sessions : store'[o] = IF o = s THEN new ELSE store[o]
    BY <1>17 DEF SettledInv, Shapes
  <2>4. QED
    BY <1>19, <2>2, <2>3 DEF LongerPaired
<1>21. SaidPaired(run'[r])
  <2>1. ToBeSaid(after) = g
    BY <1>5, <1>8, <1>12, ToBeSaidIs
  <2>2. ~IsWorking(after)
    BY <1>8 DEF IsWorking
  <2>3. SaidPaired(after)
    BY <1>5, <1>8, <1>11, <2>1, <2>2 DEF SaidPaired
  <2>4. QED
    BY <1>1, <2>3
<1>22. QED
  BY <1>2, <1>20, <1>21, GoesPaired

-----------------------------------------------------------------------------
(* What the steps of the loop have said.                                    *)

LEMMA SaidSoFar ==
  ASSUME SettledInv, PairedInv, NEW r \in Runs, InLoop(run[r]),
         run[r].todo = <<>> \/ run[r].at # "tools"
  PROVE  /\ IsOpen(run[r]) /\ RunTyped(r, run[r])
         /\ IsSeq(run[r].fresh) /\ Counted(run[r].fresh)
         /\ run[r].todo = <<>> /\ Paired(run[r].fresh)
<1>1. PICK old : old = run[r]
  OBVIOUS
<1>2. IsOpen(old)
  BY <1>1 DEF IsOpen, InLoop
<1>3. RunTyped(r, old)
  BY <1>1, <1>2, OpenRun
<1>4. SaidPaired(old)
  BY <1>1 DEF PairedInv, RunPaired
<1>5. old.todo = <<>> /\ Paired(ToBeSaid(old))
  BY <1>1, <1>4 DEF SaidPaired
<1>6. IsSeq(old.fresh) /\ Counted(old.fresh)
  BY <1>3, SaidOfTurn DEF OfTurn
<1>7. ToBeSaid(old) = old.fresh
  BY <1>5, <1>6, ToBeSaidIs
<1>8. QED
  BY <1>1, <1>2, <1>3, <1>5, <1>6, <1>7

LEMMA SettleNothingPaired ==
  ASSUME SettledInv, SettledInv', KeptInv, PairedInv, NEW r \in Runs,
         IsWorking(run[r]), run[r].todo = <<>> \/ run[r].at # "tools", Goes(r),
         NEW at \in {"settled", "answered"}, NEW outcome,
         Settle(r, <<>>, at, outcome)
  PROVE  PairedInv'
<1>1. PICK none, f : none = <<>> /\ f = run[r].fresh
  OBVIOUS
<1>2. InLoop(run[r])
  BY DEF IsWorking, InLoop
<1>3. IsSeq(f) /\ Paired(f)
  BY <1>1, <1>2, SaidSoFar
<1>4. f \o none = f /\ IsSeq(none)
  BY <1>1, <1>3, ConcatEmpty, EmptyIsSeq
<1>5. Paired(run[r].fresh \o none)
  BY <1>1, <1>3, <1>4
<1>6. Settle(r, none, at, outcome)
  BY <1>1
<1>7. QED
  BY <1>4, <1>5, <1>6, SettlePaired

LEMMA StepFailsPaired ==
  ASSUME SettledInv, SettledInv', KeptInv, PairedInv, NEW r \in Runs, Goes(r),
         StepFails(r) \/ ToolsDone(r)
  PROVE  PairedInv'
<1>1. PICK at \in {"settled", "answered"} : at = "settled"
  OBVIOUS
<1>2. IsWorking(run[r]) /\ (run[r].todo = <<>> \/ run[r].at # "tools")
  BY DEF StepFails, ToolsDone, IsWorking
<1>3. \E outcome : Settle(r, <<>>, at, outcome)
  BY <1>1 DEF StepFails, ToolsDone
<1>4. QED
  BY <1>2, <1>3, SettleNothingPaired

(* A reply and the results of its calls.                                    *)
AreCalls(calls, made) ==
  /\ IsSeq(calls) /\ IsFiniteSet(made) /\ made = SetOf(calls)
  /\ \A i, j \in DOMAIN calls : calls[i] = calls[j] => i = j
WholeReply(ms) == IsSeq(ms) /\ Counted(ms) /\ Paired(ms)
LEMMA ReplyIsPaired ==
  ASSUME SteeringsApart, NEW t, NEW calls, NEW made, AreCalls(calls, made),
         NEW e, e.kind = "assistant", e.turn = t, e.calls = made,
         NEW one, one = <<e>>, NEW rs, rs = ResultsIn(t, calls),
         NEW ms, ms = one \o rs
  PROVE  WholeReply(ms)
<1>1. /\ IsSeq(rs) /\ DOMAIN rs = DOMAIN calls
      /\ \A i \in DOMAIN rs : /\ rs[i].kind = "tool" /\ rs[i].turn = t
                              /\ rs[i].calls = {calls[i]}
  BY ResultsOf DEF AreCalls
<1>2. ResultsTo(e, rs)
  <2>1. made = {calls[i] : i \in DOMAIN calls}
    BY DEF AreCalls, SetOf
  <2>2. \A i \in DOMAIN rs : \E c \in e.calls : rs[i].calls = {c}
    BY <1>1, <2>1
  <2>3. ASSUME NEW i \in DOMAIN rs, NEW k \in DOMAIN rs, rs[i].calls = rs[k].calls
        PROVE  i = k
    <3>1. calls[i] = calls[k]
      BY <1>1, <2>3
    <3>2. QED
      BY <1>1, <3>1 DEF AreCalls
  <2>4. ASSUME NEW c \in e.calls
        PROVE  \E i \in DOMAIN rs : rs[i].calls = {c}
    BY <1>1, <2>1
  <2>5. \A i \in DOMAIN rs : rs[i].kind = "tool" /\ rs[i].turn = e.turn
    BY <1>1
  <2>6. QED
    BY <1>1, <2>2, <2>3, <2>4, <2>5 DEF ResultsTo
<1>3. PICK log : log = one
  OBVIOUS
<1>4. IsFiniteSet(e.calls)
  BY DEF AreCalls
<1>5. FitsPaired(log, ms)
  BY <1>2, <1>4, ReplyFits
<1>6. QED
  BY <1>5 DEF FitsPaired, WholeReply

LEMMA NoCallsPaired ==
  ASSUME SteeringsApart, NEW t, NEW calls, NEW made, AreCalls(calls, made),
         made = {}, NEW none, none = <<>>, NEW rs, rs = ResultsIn(t, calls),
         NEW ms, ms = none \o rs
  PROVE  WholeReply(ms)
<1>1. IsSeq(calls) /\ DOMAIN calls = {}
  BY DEF SetOf, AreCalls
<1>2. IsSeq(rs) /\ DOMAIN rs = {}
  BY <1>1, ResultsOf
<1>3. Counted(rs) /\ Paired(rs)
  BY <1>2 DEF Counted, Paired
<1>4. IsSeq(none) /\ Counted(none) /\ Paired(none)
  BY EmptyIsSeq, NothingPaired
<1>5. IsSeq(ms)
  BY <1>2, <1>4, ConcatSeq
<1>6. QED
  BY <1>2, <1>3, <1>4, <1>5, PairedJoined DEF WholeReply

LEMMA AddedPaired ==
  ASSUME SettledInv, PairedInv, NEW r \in Runs, run[r].at = "asking",
         NEW ms, WholeReply(ms)
  PROVE  Paired(run[r].fresh \o ms)
<1>1. PICK f, g : f = run[r].fresh /\ g = f \o ms
  OBVIOUS
<1>2. InLoop(run[r]) /\ run[r].at # "tools"
  BY DEF InLoop
<1>3. IsSeq(f) /\ Counted(f) /\ Paired(f)
  BY <1>1, <1>2, SaidSoFar
<1>4. Paired(g)
  BY <1>1, <1>3, PairedJoined DEF WholeReply
<1>5. QED
  BY <1>1, <1>4

(* What comes of the calls of a reply.                                      *)
LEMMA ReplyInterruptedPaired ==
  ASSUME SteeringsApart, SettledInv, SettledInv', KeptInv, PairedInv,
         NEW r \in Runs, Goes(r), NEW n \in Nat, NEW text,
         ReplyInterrupted(r, n, text)
  PROVE  PairedInv'
<1>1. PICK t, calls, made, e, rs, none, one, first, more, at :
        /\ t = Turn(r) /\ calls = Calls(r, n) /\ made = SetOf(calls)
        /\ e = Assistant(t, text, made) /\ rs = Results(r, calls)
        /\ none = <<>> /\ one = <<e>>
        /\ first = IF IsBlank(e) THEN none ELSE one
        /\ more = first \o rs /\ at = "settled"
  OBVIOUS
<1>2. AreCalls(calls, made)
  BY <1>1, CallsAre DEF AreCalls
<1>3. rs = ResultsIn(t, calls)
  BY <1>1 DEF Results, ResultsIn
<1>4. e.kind = "assistant" /\ e.turn = t /\ e.calls = made
  BY <1>1 DEF Assistant, Event
<1>5. WholeReply(more)
  <2>1. CASE IsBlank(e)
    <3>1. made = {} /\ more = none \o rs
      BY <1>1, <1>4, <2>1 DEF IsBlank
    <3>2. QED
      BY <1>1, <1>2, <1>3, <3>1, NoCallsPaired
  <2>2. CASE ~IsBlank(e)
    <3>1. more = one \o rs
      BY <1>1, <2>2
    <3>2. QED
      BY <1>1, <1>2, <1>3, <1>4, <3>1, ReplyIsPaired
  <2>3. QED
    BY <2>1, <2>2
<1>6. run[r].at = "asking" /\ IsWorking(run[r])
  BY DEF ReplyInterrupted, IsWorking
<1>7. Settle(r, more, at, "cancelled")
  BY <1>1 DEF ReplyInterrupted
<1>8. Paired(run[r].fresh \o more)
  BY <1>5, <1>6, AddedPaired
<1>9. at \in {"settled", "answered"}
  BY <1>1
<1>10. QED
  BY <1>5, <1>6, <1>7, <1>8, <1>9, SettlePaired DEF WholeReply

LEMMA ReplyCutPaired ==
  ASSUME SteeringsApart, SettledInv, SettledInv', KeptInv, PairedInv,
         NEW r \in Runs, Goes(r), NEW n \in Nat, ReplyCut(r, n)
  PROVE  PairedInv'
<1>1. PICK t, calls, made, e, rs, one, more, at :
        /\ t = Turn(r) /\ calls = Calls(r, n) /\ made = SetOf(calls)
        /\ e = Assistant(t, "said", made) /\ rs = Results(r, calls)
        /\ one = <<e>> /\ more = one \o rs /\ at = "settled"
  OBVIOUS
<1>2. AreCalls(calls, made)
  BY <1>1, CallsAre DEF AreCalls
<1>3. rs = ResultsIn(t, calls)
  BY <1>1 DEF Results, ResultsIn
<1>4. e.kind = "assistant" /\ e.turn = t /\ e.calls = made
  BY <1>1 DEF Assistant, Event
<1>5. WholeReply(more)
  BY <1>1, <1>2, <1>3, <1>4, ReplyIsPaired
<1>6. run[r].at = "asking" /\ IsWorking(run[r])
  BY DEF ReplyCut, IsWorking
<1>7. Settle(r, more, at, "again")
  BY <1>1 DEF ReplyCut
<1>8. Paired(run[r].fresh \o more)
  BY <1>5, <1>6, AddedPaired
<1>9. at \in {"settled", "answered"}
  BY <1>1
<1>10. QED
  BY <1>5, <1>6, <1>7, <1>8, <1>9, SettlePaired DEF WholeReply

(* An answer without calls.                                                 *)
LEMMA AnswerIsPaired ==
  ASSUME NEW e, e.kind = "assistant", e.calls = {}, NEW ms, ms = <<e>>
  PROVE  WholeReply(ms)
<1>1. IsSeq(ms) /\ Len(ms) = 1 /\ DOMAIN ms = {1} /\ ms[1] = e
  BY SingleSeq
<1>2. Cardinality(e.calls) = 0
  BY FS_EmptySet
<1>3. Counted(ms)
  BY <1>1, <1>2 DEF Counted
<1>4. IsAnswered(ms, 1)
  <2>1. AnsweredBy(ms, 1, 0)
    BY <1>1 DEF AnsweredBy
  <2>2. QED
    BY <1>1, <1>2, <2>1, AnsweredIs
<1>5. Paired(ms)
  BY <1>1, <1>4 DEF Paired
<1>6. QED
  BY <1>1, <1>3, <1>5 DEF WholeReply

LEMMA ReplyAnswerPaired ==
  ASSUME SettledInv, SettledInv', KeptInv, PairedInv, NEW r \in Runs, Goes(r),
         NEW text, ReplyAnswer(r, text)
  PROVE  PairedInv'
<1>1. PICK e, none, one, more, at :
        /\ e = Assistant(Turn(r), text, {}) /\ none = <<>> /\ one = <<e>>
        /\ more = IF IsBlank(e) THEN none ELSE one
        /\ at = "answered"
  OBVIOUS
<1>2. e.kind = "assistant" /\ e.calls = {}
  BY <1>1 DEF Assistant, Event
<1>3. WholeReply(none) /\ WholeReply(one)
  BY <1>1, <1>2, EmptyIsSeq, NothingPaired, AnswerIsPaired DEF WholeReply
<1>4. WholeReply(more)
  BY <1>1, <1>3
<1>5. run[r].at = "asking" /\ IsWorking(run[r])
  BY DEF ReplyAnswer, IsWorking
<1>6. Settle(r, more, at, "ok")
  BY <1>1 DEF ReplyAnswer
<1>7. Paired(run[r].fresh \o more)
  BY <1>4, <1>5, AddedPaired
<1>8. at \in {"settled", "answered"}
  BY <1>1
<1>9. QED
  BY <1>4, <1>5, <1>6, <1>7, <1>8, SettlePaired DEF WholeReply

LEMMA ToolsStoppedPaired ==
  ASSUME SteeringsApart, SettledInv, SettledInv', KeptInv, PairedInv,
         NEW r \in Runs, Goes(r), ToolsStopped(r)
  PROVE  PairedInv'
<1>1. PICK old, calls, more, at :
        /\ old = run[r] /\ calls = old.todo /\ more = Results(r, calls)
        /\ at = "settled"
  OBVIOUS
<1>2. old.at = "tools" /\ IsWorking(old) /\ InLoop(old) /\ IsOpen(old)
  BY <1>1 DEF ToolsStopped, IsWorking, InLoop, IsOpen
<1>3. IsSeq(calls)
  BY <1>1, <1>2, OpenRun DEF RunTyped
<1>4. IsSeq(more)
  BY <1>1, <1>3, ResultsUnblank
<1>5. Paired(ToBeSaid(old))
  BY <1>1, <1>2 DEF PairedInv, RunPaired, SaidPaired
<1>6. ToBeSaid(old) = old.fresh \o more
  BY <1>1 DEF ToBeSaid, Results, Turn
<1>7. Settle(r, more, at, "cancelled")
  BY <1>1 DEF ToolsStopped
<1>8. Paired(run[r].fresh \o more)
  BY <1>1, <1>5, <1>6
<1>9. at \in {"settled", "answered"} /\ IsWorking(run[r])
  BY <1>1, <1>2
<1>10. QED
  BY <1>4, <1>7, <1>8, <1>9, SettlePaired

(* Steps that say nothing or that leave the loop.                           *)
LEMMA OutOfLoop ==
  ASSUME NEW call, call.at \in {"returned", "closed"}
  PROVE  SaidPaired(call)
BY DEF SaidPaired, InLoop, IsWorking

LEMMA ReturnPaired ==
  ASSUME SettledInv, NEW r \in Runs, IsOpen(run[r]), NEW outcome,
         Return(r, outcome, <<>>)
  PROVE  SaidPaired(run'[r])
<1>1. PICK old, after, more : /\ old = run[r] /\ after = run'[r]
                              /\ more = <<>>
  OBVIOUS
<1>2. DOMAIN run = Runs /\ DOMAIN old = DOMAIN IdleRun
  BY <1>1, OpenRun DEF SettledInv, Shapes, RunTyped
<1>3. run' = [run EXCEPT ![r].at = "returned", ![r].outcome = outcome,
                         ![r].fresh = @ \o more]
  BY <1>1 DEF Return
<1>4. after = [old EXCEPT !.at = "returned", !.outcome = outcome,
                          !.fresh = @ \o more]
  BY <1>1, <1>2, <1>3
<1>5. after.at = "returned"
  BY <1>2, <1>4 DEF IdleRun
<1>6. QED
  BY <1>1, <1>5, OutOfLoop

LEMMA LeavesLoopPaired ==
  ASSUME SettledInv, KeptInv, PairedInv, NEW r \in Runs, Goes(r),
         NoticeStop(r) \/ GiveUp(r)
  PROVE  PairedInv'
<1>1. IsOpen(run[r]) /\ UNCHANGED store
      /\ \E outcome : Return(r, outcome, <<>>)
  BY DEF NoticeStop, GiveUp, IsOpen
<1>2. SaidPaired(run'[r])
  BY <1>1, ReturnPaired
<1>3. \A o \in Sessions : LongerPaired(o)
  BY <1>1, NoneLonger
<1>4. QED
  BY <1>1, <1>2, <1>3, GoesPaired

LEMMA CloseInboxPaired ==
  ASSUME SettledInv, KeptInv, PairedInv, NEW r \in Runs, CloseInbox(r)
  PROVE  PairedInv'
<1>1. IsOpen(run[r]) /\ UNCHANGED store
      /\ run' = [run EXCEPT ![r].at = "closed"]
  BY DEF CloseInbox, IsOpen
<1>2. Goes(r)
  BY <1>1, MovesGoes
<1>3. PICK old, after : old = run[r] /\ after = run'[r]
  OBVIOUS
<1>4. DOMAIN run = Runs /\ DOMAIN old = DOMAIN IdleRun
  BY <1>1, <1>3, OpenRun DEF SettledInv, Shapes, RunTyped
<1>5. after = [old EXCEPT !.at = "closed"]
  BY <1>1, <1>3, <1>4
<1>6. after.at = "closed"
  BY <1>4, <1>5 DEF IdleRun
<1>7. SaidPaired(run'[r])
  BY <1>3, <1>6, OutOfLoop
<1>8. \A o \in Sessions : LongerPaired(o)
  BY <1>1, NoneLonger
<1>9. QED
  BY <1>1, <1>2, <1>7, <1>8, GoesPaired

(* The request is on its way.                                               *)
LEMMA SaidSame ==
  ASSUME NEW old, NEW after, SaidPaired(old),
         old.at = "prepared", after.at \in {"prepared", "asking"},
         after.fresh = old.fresh, after.todo = old.todo,
         after.mark = old.mark, after.turn = old.turn
  PROVE  SaidPaired(after)
<1>1. /\ old.todo = <<>> /\ Paired(ToBeSaid(old))
      /\ Paired(SubSeq(old.fresh, 1, old.mark))
  BY DEF SaidPaired, InLoop, IsWorking
<1>2. ToBeSaid(after) = ToBeSaid(old)
  BY DEF ToBeSaid
<1>3. QED
  BY <1>1, <1>2 DEF SaidPaired

LEMMA AskPaired ==
  ASSUME SettledInv, KeptInv, PairedInv, NEW r \in Runs, Goes(r), Ask(r)
  PROVE  PairedInv'
<1>1. /\ IsOpen(run[r]) /\ UNCHANGED store /\ run[r].at = "prepared"
      /\ run' = [run EXCEPT ![r].at = "asking"]
  BY DEF Ask, IsOpen
<1>2. PICK old, after : old = run[r] /\ after = run'[r]
  OBVIOUS
<1>3. DOMAIN run = Runs /\ DOMAIN old = DOMAIN IdleRun
  BY <1>1, <1>2, OpenRun DEF SettledInv, Shapes, RunTyped
<1>4. after = [old EXCEPT !.at = "asking"]
  BY <1>1, <1>2, <1>3
<1>5. {"at", "fresh", "todo", "mark", "turn"} \subseteq DOMAIN old
  BY <1>3 DEF IdleRun
<1>6. /\ after.at = "asking" /\ after.fresh = old.fresh /\ after.todo = old.todo
      /\ after.mark = old.mark /\ after.turn = old.turn
  BY <1>4, <1>5
<1>7. SaidPaired(old) /\ old.at = "prepared"
  BY <1>1, <1>2 DEF PairedInv, RunPaired
<1>8. SaidPaired(after)
  BY <1>6, <1>7, SaidSame
<1>9. \A o \in Sessions : LongerPaired(o)
  BY <1>1, NoneLonger
<1>10. QED
  BY <1>1, <1>2, <1>8, <1>9, GoesPaired

(* What was steered joins what is said.                                     *)
LEMMA SteeredPaired ==
  ASSUME SettledInv, NEW r \in Runs, NEW ms, ms = Steered(r)
  PROVE  WholeReply(ms)
<1>1. PICK p, t : p = inbox[r].pending /\ t = Turn(r)
  OBVIOUS
<1>2. SteeredIn(ms, p, t)
  BY <1>1, SteeredAre
<1>3. /\ IsSeq(ms)
      /\ \A i \in DOMAIN ms : ms[i].kind = "user" /\ IsFiniteSet(ms[i].calls)
  BY <1>2 DEF SteeredIn, Spoken
<1>4. Counted(ms)
  BY <1>3, FS_CardinalityType DEF Counted
<1>5. QED
  BY <1>3, <1>4, UsersPaired DEF WholeReply

LEMMA FreshPaired ==
  ASSUME SettledInv, PairedInv, NEW r \in Runs, InLoop(run[r]),
         run[r].todo = <<>> \/ run[r].at # "tools",
         NEW ms, WholeReply(ms), NEW g, g = run[r].fresh \o ms
  PROVE  WholeReply(g)
<1>1. PICK f : f = run[r].fresh
  OBVIOUS
<1>2. IsSeq(f) /\ Counted(f) /\ Paired(f) /\ IsSeq(ms) /\ Counted(ms) /\ Paired(ms)
  BY <1>1, SaidSoFar DEF WholeReply
<1>3. g = f \o ms
  BY <1>1
<1>4. IsSeq(g)
  BY <1>2, <1>3, ConcatSeq
<1>5. QED
  BY <1>2, <1>3, <1>4, PairedJoined DEF WholeReply

(* A run at a step, or with its request prepared, with nothing to answer.   *)
LEMMA SaidPairedBy ==
  ASSUME NEW call, WholeReply(call.fresh), call.todo = <<>>,
         ~IsWorking(call) \/ Paired(SubSeq(call.fresh, 1, call.mark))
  PROVE  SaidPaired(call)
<1>1. IsSeq(call.fresh) /\ Paired(call.fresh)
  BY DEF WholeReply
<1>2. ToBeSaid(call) = call.fresh
  BY <1>1, ToBeSaidIs
<1>3. QED
  BY <1>1, <1>2 DEF SaidPaired

StartsWith(g, n, f) == SubSeq(g, 1, n) = f
LEMMA StartsWithIs ==
  ASSUME NEW f, NEW ms, IsSeq(f), IsSeq(ms), NEW g, g = f \o ms,
         NEW n, n = Len(f)
  PROVE  StartsWith(g, n, f)
<1>1. n \in 0 .. Len(f)
  BY SeqFacts
<1>2. PICK hd : hd = Head2(f, n)
  OBVIOUS
<1>3. Head2(g, n) = hd
  BY <1>1, <1>2, HeadOfMore
<1>4. IsSeq(hd) /\ Len(hd) = n /\ \A i \in 1 .. n : hd[i] = f[i]
  BY <1>1, <1>2, Head2Is
<1>5. hd = f
  BY <1>4, SeqSame
<1>6. QED
  BY <1>3, <1>5 DEF StartsWith, Head2

LEMMA BeginStepPaired ==
  ASSUME SettledInv, KeptInv, PairedInv, NEW r \in Runs, Goes(r), BeginStep(r)
  PROVE  PairedInv'
<1>1. PICK old, after, f, more, g, n :
        /\ old = run[r] /\ after = run'[r] /\ f = old.fresh
        /\ more = Steered(r) /\ g = f \o more /\ n = Len(f)
  OBVIOUS
<1>2. IsOpen(run[r]) /\ InLoop(run[r]) /\ run[r].at # "tools"
  BY DEF BeginStep, IsOpen, InLoop
<1>3. DOMAIN run = Runs /\ DOMAIN old = DOMAIN IdleRun
  BY <1>1, <1>2, OpenRun DEF SettledInv, Shapes, RunTyped
<1>4. run' = [run EXCEPT ![r].at = "prepared", ![r].mark = n,
                         ![r].fresh = @ \o more]
  BY <1>1 DEF BeginStep
<1>5. after = [old EXCEPT !.at = "prepared", !.mark = n, !.fresh = @ \o more]
  BY <1>1, <1>3, <1>4
<1>6. {"at", "fresh", "todo", "mark"} \subseteq DOMAIN old
  BY <1>3 DEF IdleRun
<1>7. /\ after.fresh = g /\ after.todo = old.todo /\ after.mark = n
  BY <1>1, <1>5, <1>6
<1>8. IsSeq(f) /\ Paired(f) /\ old.todo = <<>>
  BY <1>1, <1>2, SaidSoFar
<1>9. WholeReply(more)
  BY <1>1, SteeredPaired
<1>10. WholeReply(g)
  BY <1>1, <1>2, <1>9, FreshPaired
<1>11. Paired(SubSeq(g, 1, n))
  <2>1. IsSeq(f) /\ IsSeq(more) /\ g = f \o more /\ n = Len(f)
    BY <1>1, <1>8, <1>9 DEF WholeReply
  <2>2. StartsWith(g, n, f)
    BY <2>1, StartsWithIs
  <2>3. QED
    BY <1>8, <2>2 DEF StartsWith
<1>12. SaidPaired(after)
  BY <1>7, <1>8, <1>10, <1>11, SaidPairedBy
<1>13. \A o \in Sessions : LongerPaired(o)
  BY <1>2, MarkPaired DEF BeginStep
<1>14. QED
  BY <1>1, <1>2, <1>12, <1>13, GoesPaired

(* On to the next step, or out of the loop.                                 *)
LEMMA OnwardPaired ==
  ASSUME SettledInv, PairedInv, NEW r \in Runs, Onward(r),
         run[r].at \in {"answered", "settled"}
  PROVE  SaidPaired(run'[r])
<1>1. PICK old, after, f, more, g :
        /\ old = run[r] /\ after = run'[r] /\ f = old.fresh
        /\ more = Steered(r) /\ g = f \o more
  OBVIOUS
<1>2. InLoop(run[r]) /\ run[r].at # "tools"
  BY DEF InLoop
<1>3. IsOpen(run[r]) /\ IsSeq(f) /\ Counted(f) /\ Paired(f) /\ old.todo = <<>>
  BY <1>1, <1>2, SaidSoFar
<1>4. RunTyped(r, old) /\ DOMAIN run = Runs /\ DOMAIN old = DOMAIN IdleRun
  BY <1>1, <1>3, OpenRun DEF SettledInv, Shapes, RunTyped
<1>5. {"at", "fresh", "todo"} \subseteq DOMAIN old
  BY <1>4 DEF IdleRun
<1>6. /\ after.at = "step" /\ after.todo = old.todo
      /\ after.fresh = g \/ after.fresh = f
  <2>1. CASE run' = [run EXCEPT ![r].at = "step", ![r].step = @ + 1,
                                ![r].outcome = "none",
                                ![r].fresh = @ \o Steered(r)]
    <3>1. after = [old EXCEPT !.at = "step", !.step = @ + 1,
                              !.outcome = "none", !.fresh = @ \o more]
      BY <1>1, <1>4, <2>1
    <3>2. QED
      BY <1>1, <1>5, <3>1
  <2>2. CASE run' = [run EXCEPT ![r].at = "step", ![r].step = @ + 1,
                                ![r].outcome = "none"]
    <3>1. after = [old EXCEPT !.at = "step", !.step = @ + 1,
                              !.outcome = "none"]
      BY <1>1, <1>4, <2>2
    <3>2. QED
      BY <1>1, <1>5, <3>1
  <2>3. QED
    BY <2>1, <2>2 DEF Onward
<1>7. WholeReply(f)
  BY <1>3 DEF WholeReply
<1>8. WholeReply(g)
  <2>1. WholeReply(more)
    BY <1>1, SteeredPaired
  <2>2. QED
    BY <1>1, <1>2, <2>1, FreshPaired
<1>9. WholeReply(after.fresh)
  BY <1>6, <1>7, <1>8
<1>10. ~IsWorking(after) /\ after.todo = <<>>
  BY <1>3, <1>6 DEF IsWorking
<1>11. SaidPaired(after)
  BY <1>9, <1>10, SaidPairedBy
<1>12. QED
  BY <1>1, <1>11

LEMMA LeavesPaired ==
  ASSUME SettledInv, KeptInv, PairedInv, NEW r \in Runs, Goes(r),
         Conclude(r) \/ LeaveStep(r)
  PROVE  PairedInv'
<1>1. /\ IsOpen(run[r]) /\ run[r].at \in {"answered", "settled"}
      /\ Write(r, EndStep(Own(r), Turn(r)))
  BY DEF Conclude, LeaveStep, IsOpen
<1>2. Onward(r) \/ \E outcome : Return(r, outcome, <<>>)
  BY DEF Conclude, LeaveStep, Onward
<1>3. SaidPaired(run'[r])
  BY <1>1, <1>2, ReturnPaired, OnwardPaired
<1>4. \A o \in Sessions : LongerPaired(o)
  BY <1>1, MarkPaired
<1>5. QED
  BY <1>1, <1>3, <1>4, GoesPaired

(* Calls that are made, and answered one after the other.                   *)
LEMMA AtToolsPaired ==
  ASSUME NEW call, call.at = "tools", Paired(ToBeSaid(call)),
         Paired(SubSeq(call.fresh, 1, call.mark))
  PROVE  SaidPaired(call)
BY DEF SaidPaired

LEMMA ToBeSaidOf ==
  ASSUME NEW call, NEW f, f = call.fresh, NEW t, t = call.turn,
         NEW todo, todo = call.todo, NEW rs, rs = ResultsIn(t, todo)
  PROVE  ToBeSaid(call) = f \o rs
BY DEF ToBeSaid, ResultsIn

(* There are as many results as calls.                                      *)
AsManyAs(ms, calls) == IsSeq(ms) /\ Len(ms) = Len(calls)
LEMMA ResultsAreAsMany ==
  ASSUME SteeringsApart, NEW t, NEW calls, IsSeq(calls),
         NEW ms, ms = ResultsIn(t, calls)
  PROVE  AsManyAs(ms, calls)
BY ResultsOf DEF AsManyAs

ResultsJoin(t, a, b, c) == ResultsIn(t, a) \o ResultsIn(t, b) = ResultsIn(t, c)
LEMMA ResultsJoined ==
  ASSUME SteeringsApart, NEW t, NEW a, NEW b, IsSeq(a), IsSeq(b),
         NEW c, c = a \o b
  PROVE  ResultsJoin(t, a, b, c)
<1>1. PICK m, l, f, g, h, both :
        /\ m = Len(a) /\ l = Len(b) /\ f = ResultsIn(t, a) /\ g = ResultsIn(t, b)
        /\ h = ResultsIn(t, c) /\ both = f \o g
  OBVIOUS
<1>2. Concatenates(c, a, b, m, l)
  BY <1>1, ConcatAre
<1>3. /\ IsSeq(c) /\ Len(c) = m + l /\ m \in Nat /\ l \in Nat
      /\ DOMAIN a = 1 .. m /\ DOMAIN b = 1 .. l /\ DOMAIN c = 1 .. m + l
      /\ \A x \in 1 .. m : c[x] = a[x]
      /\ \A x \in 1 .. l : c[m + x] = b[x]
  BY <1>1, <1>2, SeqFacts DEF Concatenates
<1>4. /\ IsSeq(f) /\ Len(f) = m /\ IsSeq(g) /\ Len(g) = l
      /\ IsSeq(h) /\ Len(h) = m + l
  <2>1. AsManyAs(f, a) /\ AsManyAs(g, b)
    BY <1>1, ResultsAreAsMany
  <2>2. IsSeq(c) /\ Len(c) = m + l /\ h = ResultsIn(t, c)
    BY <1>1, <1>3
  <2>3. AsManyAs(h, c)
    BY <2>2, ResultsAreAsMany
  <2>4. QED
    BY <1>1, <2>1, <2>2, <2>3 DEF AsManyAs
<1>5. Concatenates(both, f, g, m, l)
  BY <1>1, <1>4, ConcatAre
<1>6. /\ \A x \in 1 .. m : f[x] = ToolResult(t, a[x])
      /\ \A x \in 1 .. l : g[x] = ToolResult(t, b[x])
      /\ \A x \in 1 .. m + l : h[x] = ToolResult(t, c[x])
  BY <1>1, <1>3 DEF ResultsIn
<1>7. ASSUME NEW x \in 1 .. m + l
      PROVE  both[x] = h[x]
  <2>1. CASE x \in 1 .. m
    <3>1. both[x] = f[x] /\ c[x] = a[x]
      BY <1>3, <1>5, <2>1 DEF Concatenates
    <3>2. QED
      BY <1>6, <2>1, <3>1
  <2>2. CASE x \notin 1 .. m
    <3>1. PICK y : y = x - m
      OBVIOUS
    <3>2. y \in 1 .. l /\ m + y = x
      BY <1>3, <1>7, <2>2, <3>1
    <3>3. both[x] = g[y] /\ c[x] = b[y]
      BY <1>3, <1>5, <3>2 DEF Concatenates
    <3>4. QED
      BY <1>6, <3>2, <3>3
  <2>3. QED
    BY <2>1, <2>2
<1>8. IsSeq(both) /\ Len(both) = m + l
  BY <1>5 DEF Concatenates
<1>9. both = h
  BY <1>4, <1>7, <1>8, SeqSame
<1>10. QED
  BY <1>1, <1>9 DEF ResultsJoin

AssociatesIn(a, b, c) == (a \o b) \o c = a \o (b \o c)
LEMMA AssociatesAt ==
  ASSUME NEW a, NEW b, NEW c, IsSeq(a), IsSeq(b), IsSeq(c)
  PROVE  AssociatesIn(a, b, c)
BY Associates DEF AssociatesIn

LEMMA ReplyCallsPaired ==
  ASSUME SteeringsApart, SettledInv, KeptInv, PairedInv, NEW r \in Runs, Goes(r),
         NEW n \in Nat, ReplyCalls(r, n)
  PROVE  PairedInv'
<1>1. PICK old, after, t, calls, made, e, one, rs, more, f, g, k :
        /\ old = run[r] /\ after = run'[r] /\ t = Turn(r)
        /\ calls = Calls(r, n) /\ made = SetOf(calls)
        /\ e = Assistant(t, "said", made) /\ one = <<e>>
        /\ rs = ResultsIn(t, calls) /\ more = one \o rs
        /\ f = old.fresh /\ g = Append(f, e) /\ k = old.mark
  OBVIOUS
<1>2. /\ IsOpen(run[r]) /\ InLoop(run[r]) /\ run[r].at = "asking"
      /\ IsWorking(old) /\ UNCHANGED store
  BY <1>1 DEF ReplyCalls, IsOpen, InLoop, IsWorking
<1>3. RunTyped(r, old) /\ DOMAIN run = Runs /\ DOMAIN old = DOMAIN IdleRun
  BY <1>1, <1>2, OpenRun DEF SettledInv, Shapes, RunTyped
<1>4. run' = [run EXCEPT ![r].at = "tools", ![r].todo = calls,
                         ![r].fresh = Append(@, e)]
  BY <1>1 DEF ReplyCalls
<1>5. after = [old EXCEPT !.at = "tools", !.todo = calls,
                          !.fresh = Append(@, e)]
  BY <1>1, <1>3, <1>4
<1>6. {"at", "turn", "fresh", "todo", "mark"} \subseteq DOMAIN old
  BY <1>3 DEF IdleRun
<1>7. /\ after.at = "tools" /\ after.todo = calls /\ after.fresh = g
      /\ after.mark = k /\ after.turn = t
  BY <1>1, <1>5, <1>6 DEF Turn
<1>8. IsSeq(f) /\ k \in 0 .. Len(f)
  BY <1>1, <1>3 DEF RunTyped
<1>9. IsSeq(one) /\ g = f \o one
  BY <1>1, <1>8, AppendIs, SingleSeq
<1>10. AreCalls(calls, made)
  BY <1>1, CallsAre DEF AreCalls
<1>11. IsSeq(rs)
  BY <1>1, <1>10, ResultsOf DEF AreCalls
<1>12. e.kind = "assistant" /\ e.turn = t /\ e.calls = made
  BY <1>1 DEF Assistant, Event
<1>13. WholeReply(more)
  BY <1>1, <1>10, <1>12, ReplyIsPaired
<1>14. Paired(f \o more)
  BY <1>1, <1>2, <1>13, AddedPaired
<1>15. g \o rs = f \o more
  <2>1. AssociatesIn(f, one, rs)
    BY <1>8, <1>9, <1>11, AssociatesAt
  <2>2. QED
    BY <1>1, <1>9, <2>1 DEF AssociatesIn
<1>16. ToBeSaid(after) = g \o rs
  <2>1. g = after.fresh /\ t = after.turn /\ calls = after.todo
    BY <1>7
  <2>2. rs = ResultsIn(t, calls)
    BY <1>1
  <2>3. QED
    BY <2>1, <2>2, ToBeSaidOf
<1>17. Paired(SubSeq(g, 1, k))
  <2>1. Head2(g, k) = Head2(f, k)
    BY <1>8, <1>9, HeadOfMore
  <2>2. Paired(SubSeq(f, 1, k))
    BY <1>1, <1>2 DEF PairedInv, RunPaired, SaidPaired
  <2>3. QED
    BY <2>1, <2>2 DEF Head2
<1>18. SaidPaired(after)
  BY <1>7, <1>14, <1>15, <1>16, <1>17, AtToolsPaired
<1>19. \A o \in Sessions : LongerPaired(o)
  BY <1>2, NoneLonger
<1>20. QED
  BY <1>1, <1>2, <1>18, <1>19, GoesPaired

LEMMA RunToolsPaired ==
  ASSUME SteeringsApart, SettledInv, KeptInv, PairedInv, NEW r \in Runs, Goes(r),
         NEW n \in 1 .. Len(run[r].todo), RunTools(r, n)
  PROVE  PairedInv'
<1>1. PICK old, after, t, todo, calls, rest, f, g, k :
        /\ old = run[r] /\ after = run'[r] /\ t = Turn(r) /\ todo = old.todo
        /\ calls = Head2(todo, n) /\ rest = Tail2(todo, n)
        /\ f = old.fresh /\ g = f \o ResultsIn(t, calls) /\ k = old.mark
  OBVIOUS
<1>2. PICK more, left, rs :
        /\ more = ResultsIn(t, calls) /\ left = ResultsIn(t, rest)
        /\ rs = ResultsIn(t, todo)
  OBVIOUS
<1>3. /\ IsOpen(run[r]) /\ old.at = "tools" /\ IsWorking(old) /\ InLoop(old)
      /\ UNCHANGED store
  BY <1>1 DEF RunTools, IsOpen, InLoop, IsWorking
<1>4. RunTyped(r, old) /\ DOMAIN run = Runs /\ DOMAIN old = DOMAIN IdleRun
  BY <1>1, <1>3, OpenRun DEF SettledInv, Shapes, RunTyped
<1>5. more = Results(r, calls)
  BY <1>1, <1>2 DEF Results, ResultsIn
<1>6. PICK u : run' = [run EXCEPT ![r].todo = rest, ![r].unusable = u,
                                  ![r].fresh = @ \o more]
  BY <1>1, <1>5 DEF RunTools, Head2, Tail2
<1>7. after = [old EXCEPT !.todo = rest, !.unusable = u, !.fresh = @ \o more]
  BY <1>1, <1>4, <1>6
<1>8. {"at", "turn", "fresh", "todo", "mark"} \subseteq DOMAIN old
  BY <1>4 DEF IdleRun
<1>9. /\ after.at = "tools" /\ after.todo = rest /\ after.fresh = g
      /\ after.mark = k /\ after.turn = t
  BY <1>1, <1>2, <1>3, <1>7, <1>8 DEF Turn
<1>10. IsSeq(f) /\ k \in 0 .. Len(f) /\ IsSeq(todo)
  BY <1>1, <1>4 DEF RunTyped
<1>11. n \in 0 .. Len(todo)
  BY <1>1, <1>10, SeqFacts
<1>12. IsSeq(calls) /\ IsSeq(rest) /\ todo = calls \o rest
  BY <1>1, <1>10, <1>11, Head2Is, Tail2Is, HeadTail
<1>13. ResultsJoin(t, calls, rest, todo)
  BY <1>12, ResultsJoined
<1>14. more \o left = rs
  BY <1>2, <1>13 DEF ResultsJoin
<1>15. IsSeq(more) /\ IsSeq(left)
  BY <1>2, <1>12, ResultsOf
<1>16. g = f \o more
  BY <1>1, <1>2
<1>17. g \o left = f \o rs
  <2>1. AssociatesIn(f, more, left)
    BY <1>10, <1>15, AssociatesAt
  <2>2. QED
    BY <1>14, <1>16, <2>1 DEF AssociatesIn
<1>18. ToBeSaid(after) = g \o left
  <2>1. g = after.fresh /\ t = after.turn /\ rest = after.todo
    BY <1>9
  <2>2. left = ResultsIn(t, rest)
    BY <1>2
  <2>3. QED
    BY <2>1, <2>2, ToBeSaidOf
<1>19. ToBeSaid(old) = f \o rs
  <2>1. t = old.turn
    BY <1>1 DEF Turn
  <2>2. QED
    BY <1>1, <1>2, <2>1, ToBeSaidOf
<1>20. Paired(ToBeSaid(old)) /\ Paired(SubSeq(f, 1, k))
  BY <1>1, <1>3 DEF PairedInv, RunPaired, SaidPaired
<1>21. Paired(SubSeq(g, 1, k))
  <2>1. Head2(g, k) = Head2(f, k)
    BY <1>10, <1>15, <1>16, HeadOfMore
  <2>2. QED
    BY <1>20, <2>1 DEF Head2
<1>22. SaidPaired(after)
  BY <1>9, <1>17, <1>18, <1>19, <1>20, <1>21, AtToolsPaired
<1>23. \A o \in Sessions : LongerPaired(o)
  BY <1>3, NoneLonger
<1>24. QED
  BY <1>1, <1>3, <1>22, <1>23, GoesPaired

-----------------------------------------------------------------------------
(* A summary takes the place of whole replies.                              *)

LEMMA SummaryFits ==
  ASSUME NEW log, NEW e, e.kind = "summary", e.calls = {},
         e.cutoff \in 0 .. Len(log), CutsNone(log, e.cutoff),
         NEW ms, ms = <<e>>
  PROVE  FitsPaired(log, ms)
<1>1. IsSeq(ms) /\ Len(ms) = 1 /\ DOMAIN ms = {1} /\ ms[1] = e
  BY SingleSeq
<1>2. Cardinality(e.calls) = 0
  BY FS_EmptySet
<1>3. Counted(ms)
  <2>1. ASSUME NEW i \in DOMAIN ms
        PROVE  Cardinality(ms[i].calls) \in Nat
    <3>1. ms[i] = e
      BY <1>1
    <3>2. PICK calls : calls = ms[i].calls
      OBVIOUS
    <3>3. calls = {}
      BY <3>1, <3>2
    <3>4. Cardinality(calls) \in Nat
      BY <3>3, FS_EmptySet
    <3>5. QED
      BY <3>2, <3>4
  <2>2. QED
    BY <2>1 DEF Counted
<1>4. Paired(ms) /\ TurnsAgree(ms)
  BY <1>1 DEF Paired, TurnsAgree
<1>5. QED
  BY <1>1, <1>3, <1>4 DEF FitsPaired

LEMMA SameLengthens ==
  ASSUME NEW log, IsSeq(log)
  PROVE  Lengthens(log, log)
BY SeqFacts DEF Lengthens

(* What is left of a history when a summary is there for its first k.       *)
SummarisedRows(new, all) == RowsIn(new, all) /\ Paired(RowsOf(all, new))
LEMMA SummarisedBase ==
  ASSUME NEW all, IsSeq(all), Counted(all), NEW base, RowsIn(base, all),
         NEW bs, bs = RowsOf(all, base), Paired(bs),
         NEW k, k \in 1 .. Len(base) - 1, Paired(SubSeq(bs, 1, k)),
         NEW n, n \in DOMAIN all, all[n].kind = "summary",
         NEW one, one = <<n>>, NEW rest, rest = Tail2(base, k),
         NEW new, new = one \o rest
  PROVE  SummarisedRows(new, all)
<1>1. PICK head, hs, rs, os, ns :
        /\ head = Head2(base, k) /\ hs = RowsOf(all, head)
        /\ rs = RowsOf(all, rest) /\ os = RowsOf(all, one)
        /\ ns = RowsOf(all, new)
  OBVIOUS
<1>2. IsSeq(base) /\ \A x \in DOMAIN base : base[x] \in DOMAIN all
  BY DEF RowsIn
<1>3. PICK l : l = Len(base)
  OBVIOUS
<1>4. /\ l \in Nat /\ DOMAIN base = 1 .. l /\ k \in 0 .. Len(base)
      /\ k \in 0 .. l /\ k \in Nat
  BY <1>2, <1>3, SeqFacts
<1>5. /\ IsSeq(head) /\ Len(head) = k /\ DOMAIN head = 1 .. k
      /\ \A x \in 1 .. k : head[x] = base[x]
  BY <1>1, <1>2, <1>4, Head2Is
<1>6. /\ IsSeq(rest) /\ DOMAIN rest = 1 .. l - k
      /\ \A x \in 1 .. l - k : rest[x] = base[k + x]
  BY <1>2, <1>3, <1>4, Tail2Is
<1>7. base = head \o rest
  BY <1>1, <1>2, <1>4, HeadTail
<1>8. RowsIn(head, all)
  BY <1>2, <1>4, <1>5 DEF RowsIn
<1>9. RowsIn(rest, all)
  <2>1. ASSUME NEW x \in DOMAIN rest
        PROVE  rest[x] \in DOMAIN all
    <3>1. k + x \in DOMAIN base /\ rest[x] = base[k + x]
      BY <1>4, <1>6
    <3>2. QED
      BY <1>2, <3>1
  <2>2. QED
    BY <1>6, <2>1 DEF RowsIn
<1>10. IsSeq(one) /\ Len(one) = 1 /\ DOMAIN one = {1} /\ one[1] = n
  BY SingleSeq
<1>11. RowsIn(one, all)
  BY <1>10 DEF RowsIn
<1>12. Lengthens(all, all)
  BY SameLengthens
<1>13. JoinsRows(all, all, head, rest, base)
  BY <1>7, <1>8, <1>9, <1>12, RowsOfConcat
<1>14. JoinsRows(all, all, one, rest, new)
  BY <1>9, <1>11, <1>12, RowsOfConcat
<1>15. bs = hs \o rs /\ ns = os \o rs
  BY <1>1, <1>13, <1>14 DEF JoinsRows
<1>16. RowsAre(hs, all, head)
  BY <1>1, <1>8, RowsOfAre DEF RowsIn
<1>17. RowsAre(rs, all, rest)
  BY <1>1, <1>9, RowsOfAre DEF RowsIn
<1>18. RowsAre(os, all, one)
  BY <1>1, <1>11, RowsOfAre DEF RowsIn
<1>19. RowsAre(bs, all, base)
  BY <1>2, RowsOfAre
<1>20. /\ IsSeq(hs) /\ Len(hs) = k /\ IsSeq(rs) /\ Counted(rs)
       /\ IsSeq(os) /\ Counted(os) /\ Counted(bs)
  BY <1>5, <1>16, <1>17, <1>18, <1>19 DEF RowsAre
<1>21. StartsWith(bs, k, hs)
  BY <1>15, <1>20, StartsWithIs
<1>22. Paired(hs)
  BY <1>21 DEF StartsWith
<1>23. Paired(rs)
  BY <1>15, <1>20, <1>22, PairedRest
<1>24. Paired(os)
  <2>1. DOMAIN os = {1} /\ os[1] = all[n]
    BY <1>10, <1>18 DEF RowsAre
  <2>2. QED
    BY <2>1 DEF Paired
<1>25. Paired(ns)
  BY <1>15, <1>20, <1>23, <1>24, PairedJoined
<1>26. RowsIn(new, all)
  BY <1>9, <1>11, <1>12, RowsConcat
<1>27. QED
  BY <1>1, <1>25, <1>26 DEF SummarisedRows

(* A summary is given up, or it takes the place of messages that are whole. *)
TriesOnly(r) == UNCHANGED store /\ run' = [run EXCEPT ![r].tried = TRUE]
Summarises(r, s, log, base, k, e, rest) ==
  /\ k \in 1 .. Len(base) - 1
  /\ Paired(SubSeq(BaseIn(run[r], log), 1, k))
  /\ store' = [store EXCEPT ![s] = Summarise(store[s], e)]
  /\ e = Summary(Turn(r), ShadowedThrough(run[r].entries, k),
                 CoversOf(log, base, k))
  /\ rest = <<Len(log) + 1>> \o Tail2(base, k)
  /\ run' = [run EXCEPT ![r].tried = TRUE, ![r].base = rest]

LEMMA CompactSplit ==
  ASSUME SettledInv, KeptInv, NEW r \in Runs, Compact(r),
         NEW s, s = run[r].session, NEW log, log = store[s].log,
         NEW base, base = run[r].base
  PROVE  TriesOnly(r) \/ \E k, e, rest : Summarises(r, s, log, base, k, e, rest)
<1>1. PICK ms : ms = Base(r)
  OBVIOUS
<1>2. CASE TriesOnly(r)
  BY <1>2
<1>3. CASE ~TriesOnly(r)
  <2>1. PICK end \in CompactionEnds(Base(r)) :
          \E k \in Summarised(Base(r), end) :
            /\ Write(r, Summarise(Own(r), Summary(Turn(r),
                          ShadowedThrough(run[r].entries, k),
                          CoversOf(Own(r).log, run[r].base, k))))
            /\ run' = [run EXCEPT ![r].tried = TRUE,
                         ![r].base = <<Len(Own(r).log) + 1>>
                                       \o SubSeq(@, k + 1, Len(@))]
    BY <1>3, Zenon DEF Compact, CoversOf, TriesOnly
  <2>2. PICK k \in Summarised(Base(r), end) :
            /\ Write(r, Summarise(Own(r), Summary(Turn(r),
                          ShadowedThrough(run[r].entries, k),
                          CoversOf(Own(r).log, run[r].base, k))))
            /\ run' = [run EXCEPT ![r].tried = TRUE,
                         ![r].base = <<Len(Own(r).log) + 1>>
                                       \o SubSeq(@, k + 1, Len(@))]
    BY <2>1
  <2>3. MaySummarise(run[r])
    BY DEF Compact, MaySummarise, IsOpen
  <2>4. IsSeq(base)
    BY <2>3 DEF KeptInv, RunReplays
  <2>5. PICK n : n = Len(base)
    OBVIOUS
  <2>6. n \in Nat /\ DOMAIN base = 1 .. n
    BY <2>4, <2>5, SeqFacts
  <2>7. ms = [x \in 1 .. n |-> Own(r).log[base[x]]]
    BY <1>1, <2>6 DEF Base
  <2>8. DOMAIN ms = 1 .. n /\ ms = [x \in 1 .. n |-> ms[x]]
    BY <2>7
  <2>9. Len(ms) = n
    BY <2>6, <2>8, FunSeq
  <2>10. end \in 1 .. n - 1 /\ k \in 1 .. end /\ Paired(SubSeq(ms, 1, k))
    <3>1. end \in CompactionEnds(ms) /\ k \in Summarised(ms, end)
      BY <1>1, <2>1, <2>2
    <3>2. QED
      BY <2>9, <3>1 DEF CompactionEnds, Summarised
  <2>11. k \in 1 .. Len(base) - 1
    BY <2>5, <2>6, <2>10
  <2>12. ms = BaseIn(run[r], log)
    BY <1>1 DEF Base, BaseIn, Own
  <2>13. PICK e, rest :
           /\ e = Summary(Turn(r), ShadowedThrough(run[r].entries, k),
                          CoversOf(log, base, k))
           /\ rest = <<Len(log) + 1>> \o Tail2(base, k)
    OBVIOUS
  <2>14. store' = [store EXCEPT ![s] = Summarise(store[s], e)]
    BY <2>2, <2>13 DEF Write, Own
  <2>15. run' = [run EXCEPT ![r].tried = TRUE, ![r].base = rest]
    <3>1. Own(r).log = log
      BY DEF Own
    <3>2. run' = [run EXCEPT ![r].tried = TRUE,
                   ![r].base = <<Len(log) + 1>> \o SubSeq(@, k + 1, Len(@))]
      BY <2>2, <3>1
    <3>3. QED
      BY <2>13, <3>2 DEF Tail2
  <2>16. Summarises(r, s, log, base, k, e, rest)
    BY <2>10, <2>11, <2>12, <2>13, <2>14, <2>15 DEF Summarises
  <2>17. QED
    BY <2>16
<1>4. QED
  BY <1>2, <1>3

LEMMA TriesPaired ==
  ASSUME SettledInv, KeptInv, PairedInv, NEW r \in Runs, Compact(r), TriesOnly(r)
  PROVE  PairedInv'
<1>1. IsOpen(run[r]) /\ run[r].at = "prepared" /\ UNCHANGED store
  BY DEF Compact, IsOpen, TriesOnly
<1>2. PICK old, after : old = run[r] /\ after = run'[r]
  OBVIOUS
<1>3. DOMAIN run = Runs /\ DOMAIN old = DOMAIN IdleRun
  BY <1>1, <1>2, OpenRun DEF SettledInv, Shapes, RunTyped
<1>4. after = [old EXCEPT !.tried = TRUE]
  BY <1>2, <1>3 DEF TriesOnly
<1>5. {"at", "fresh", "todo", "mark", "turn", "session", "base", "tried"}
        \subseteq DOMAIN old
  BY <1>3 DEF IdleRun
<1>6. /\ after.at = old.at /\ after.fresh = old.fresh /\ after.todo = old.todo
      /\ after.mark = old.mark /\ after.turn = old.turn
      /\ after.session = old.session /\ after.base = old.base
      /\ after.tried = TRUE
  BY <1>4, <1>5
<1>7. SaidPaired(old) /\ old.at = "prepared" /\ IsOpen(old)
  BY <1>1, <1>2 DEF PairedInv, RunPaired
<1>8. SaidPaired(after)
  BY <1>6, <1>7, SaidSame
<1>9. CarriesOn(old, after)
  BY <1>6, <1>7 DEF CarriesOn, MaySummarise
<1>10. ASSUME NEW q \in Runs
       PROVE  SaidPaired(run'[q]) /\ CarriesOn(run[q], run'[q])
  <2>1. CASE q = r
    BY <1>2, <1>8, <1>9, <2>1
  <2>2. CASE q # r
    <3>1. PICK was, is : was = run[q] /\ is = run'[q]
      OBVIOUS
    <3>2. is = was /\ SaidPaired(was)
      BY <1>3, <2>2, <3>1 DEF TriesOnly, PairedInv, RunPaired
    <3>3. QED
      BY <3>1, <3>2, SilentCarriesOn
  <2>3. QED
    BY <2>1, <2>2
<1>11. \A o \in Sessions : LongerPaired(o)
  BY <1>1, NoneLonger
<1>12. QED
  BY <1>10, <1>11, PairedNow

(* The log as it is with a summary at its end.                              *)
AddsSummary(log, all) ==
  /\ LogPaired(all) /\ Counted(all) /\ IsSeq(all) /\ Lengthens(log, all)
  /\ Len(log) + 1 \in DOMAIN all /\ all[Len(log) + 1].kind = "summary"

LEMMA SummaryAdds ==
  ASSUME NEW log, IsSeq(log), Counted(log), LogPaired(log), NEW e,
         e.kind = "summary", e.calls = {}, e.cutoff \in 0 .. Len(log),
         CutsNone(log, e.cutoff), NEW one, one = <<e>>,
         NEW all, all = log \o one
  PROVE  AddsSummary(log, all)
<1>1. PICK n, l : n = Len(log) /\ l = Len(one)
  OBVIOUS
<1>2. FitsPaired(log, one)
  BY SummaryFits
<1>3. LogPaired(all) /\ Counted(all) /\ IsSeq(all)
  BY <1>2, LogJoined
<1>4. IsSeq(one) /\ l = 1 /\ one[1] = e
  BY <1>1, SingleSeq
<1>5. Concatenates(all, log, one, n, l)
  BY <1>1, <1>4, ConcatAre
<1>6. /\ Len(all) = n + 1 /\ all[n + 1] = one[1]
      /\ \A i \in 1 .. n : all[i] = log[i]
  <2>1. \A x \in 1 .. l : all[n + x] = one[x]
    BY <1>5 DEF Concatenates
  <2>2. 1 \in 1 .. l
    BY <1>4
  <2>3. all[n + 1] = one[1]
    BY <2>1, <2>2, Zenon
  <2>4. Len(all) = n + 1
    BY <1>4, <1>5 DEF Concatenates
  <2>5. QED
    BY <1>5, <2>3, <2>4 DEF Concatenates
<1>7. n \in Nat /\ DOMAIN log = 1 .. n
  BY <1>1, SeqFacts
<1>8. DOMAIN all = 1 .. n + 1
  BY <1>3, <1>6, SeqFacts
<1>9. Lengthens(log, all)
  BY <1>1, <1>3, <1>6, <1>7, <1>8 DEF Lengthens
<1>10. n + 1 \in DOMAIN all
  BY <1>7, <1>8
<1>11. all[n + 1].kind = "summary"
  BY <1>4, <1>6
<1>12. QED
  BY <1>1, <1>3, <1>9, <1>10, <1>11 DEF AddsSummary

WritesOnly(s, st) ==
  /\ s \in Sessions /\ store'[s] = st
  /\ \A o \in Sessions \ {s} : store'[o] = store[o]
LEMMA SummaryWrites ==
  ASSUME SettledInv, NEW r \in Runs, Compact(r),
         NEW s, s = run[r].session, NEW log, NEW base, NEW k, NEW e, NEW rest,
         Summarises(r, s, log, base, k, e, rest),
         NEW st, st = Summarise(store[s], e)
  PROVE  WritesOnly(s, st)
<1>1. IsOpen(run[r])
  BY DEF Compact, IsOpen
<1>2. s \in Sessions /\ DOMAIN store = Sessions
  BY <1>1, OpenRun DEF SettledInv, Shapes
<1>3. QED
  BY <1>2 DEF Summarises, WritesOnly

LEMMA SummaryLog ==
  ASSUME SettledInv, KeptInv, PairedInv, NEW r \in Runs, Compact(r),
         NEW s, s = run[r].session, NEW log, log = store[s].log,
         NEW base, base = run[r].base, NEW k, NEW e, NEW rest,
         Summarises(r, s, log, base, k, e, rest),
         NEW all, all = Summarise(store[s], e).log
  PROVE  AddsSummary(log, all)
<1>1. PICK old, st, cutoff, one, new :
        /\ old = run[r] /\ st = store[s] /\ one = <<e>>
        /\ cutoff = ShadowedThrough(old.entries, k) /\ new = Summarise(st, e)
  OBVIOUS
<1>2. IsOpen(old) /\ MaySummarise(old)
  BY <1>1 DEF Compact, MaySummarise, IsOpen
<1>3. s \in Sessions /\ Sound(st) /\ LogPaired(log)
  BY <1>1, <1>2, OpenRun, OpenLogPaired
<1>4. k \in 1 .. Len(old.base) - 1 /\ Paired(SubSeq(BaseIn(old, log), 1, k))
  BY <1>1 DEF Summarises
<1>5. CutsNone(log, cutoff)
  <2>1. CutsPaired(old, log)
    BY <1>1 DEF PairedInv, RunPaired
  <2>2. QED
    BY <1>1, <1>2, <1>4, <2>1 DEF CutsPaired
<1>6. cutoff \in 0 .. Len(log)
  <2>1. RunReplays(old, log)
    BY <1>1 DEF KeptInv
  <2>2. Takes(old, log, k)
    BY <1>2, <1>4, <2>1 DEF RunReplays
  <2>3. QED
    BY <1>1, <2>2 DEF Takes
<1>7. e.kind = "summary" /\ e.cutoff = cutoff /\ e.calls = {}
  BY <1>1 DEF Summarises, Summary, Event
<1>8. all = log \o one
  <2>1. Grows(st, one, new)
    BY <1>1, <1>3, SummariseGrows
  <2>2. QED
    BY <1>1, <1>3, <2>1, SoundLog DEF Grows
<1>9. IsSeq(log) /\ Counted(log)
  BY <1>1, <1>3, SoundCounted DEF Sound
<1>10. QED
  BY <1>1, <1>3, <1>5, <1>6, <1>7, <1>8, <1>9, SummaryAdds

LEMMA SummaryPaired ==
  ASSUME SettledInv, KeptInv, PairedInv, NEW r \in Runs, Compact(r),
         NEW s, s = run[r].session, NEW log, log = store[s].log,
         NEW base, base = run[r].base, NEW k, NEW e, NEW rest,
         Summarises(r, s, log, base, k, e, rest)
  PROVE  PairedInv'
<1>1. PICK old, after, all, n :
        /\ old = run[r] /\ after = run'[r] /\ all = store'[s].log
        /\ n = Len(log) + 1
  OBVIOUS
<1>2. /\ LogPaired(all) /\ Counted(all) /\ IsSeq(all) /\ Lengthens(log, all)
      /\ n \in DOMAIN all /\ all[n].kind = "summary"
      /\ s \in Sessions /\ \A o \in Sessions \ {s} : store'[o] = store[o]
  <2>1. PICK st : st = Summarise(store[s], e)
    OBVIOUS
  <2>2. WritesOnly(s, st)
    BY <2>1, SummaryWrites
  <2>3. all = Summarise(store[s], e).log
    BY <1>1, <2>1, <2>2 DEF WritesOnly
  <2>4. AddsSummary(log, all)
    BY <2>3, SummaryLog
  <2>5. QED
    BY <1>1, <2>2, <2>4 DEF AddsSummary, WritesOnly
<1>3. IsOpen(run[r]) /\ old.at = "prepared"
  BY <1>1 DEF Compact, IsOpen
<1>4. DOMAIN run = Runs /\ DOMAIN old = DOMAIN IdleRun
  BY <1>1, <1>3, OpenRun DEF SettledInv, Shapes, RunTyped
<1>5. /\ after = [old EXCEPT !.tried = TRUE, !.base = rest]
      /\ \A q \in Runs \ {r} : run'[q] = run[q]
  BY <1>1, <1>4 DEF Summarises
<1>6. {"at", "fresh", "todo", "mark", "turn", "session", "base", "tried"}
        \subseteq DOMAIN old
  BY <1>4 DEF IdleRun
<1>7. /\ after.at = old.at /\ after.fresh = old.fresh /\ after.todo = old.todo
      /\ after.mark = old.mark /\ after.turn = old.turn
      /\ after.session = old.session /\ after.base = rest
      /\ after.tried = TRUE
  BY <1>5, <1>6
<1>8. SaidPaired(after)
  <2>1. SaidPaired(old)
    BY <1>1 DEF PairedInv, RunPaired
  <2>2. QED
    BY <1>3, <1>7, <2>1, SaidSame
<1>9. HistoryPaired(old, log) /\ IsOpen(old)
  BY <1>1, <1>3 DEF PairedInv, RunPaired
<1>10. /\ IsSeq(base) /\ Paired(BaseIn(old, log))
       /\ \A x \in DOMAIN base : base[x] \in DOMAIN log
  BY <1>1, <1>9 DEF HistoryPaired
<1>11. PICK bs, one, tail :
         bs = RowsOf(all, base) /\ one = <<n>> /\ tail = Tail2(base, k)
  OBVIOUS
<1>12. bs = BaseIn(old, log)
  <2>1. \A x \in DOMAIN base : all[base[x]] = log[base[x]]
    BY <1>2, <1>10 DEF Lengthens
  <2>2. QED
    BY <1>1, <1>11, <2>1 DEF RowsOf, BaseIn
<1>13. RowsIn(base, all)
  BY <1>2, <1>10 DEF RowsIn, Lengthens
<1>14. k \in 1 .. Len(base) - 1 /\ Paired(SubSeq(bs, 1, k))
  BY <1>1, <1>12 DEF Summarises
<1>15. rest = one \o tail
  BY <1>1, <1>11 DEF Summarises
<1>16. SummarisedRows(rest, all)
  BY <1>2, <1>10, <1>11, <1>12, <1>13, <1>14, <1>15, SummarisedBase
<1>17. BaseIn(after, all) = RowsOf(all, rest)
  BY <1>7, BaseInIs
<1>18. HistoryPaired(after, all)
  BY <1>2, <1>7, <1>16, <1>17 DEF SummarisedRows, RowsIn, HistoryPaired
<1>19. CutsPaired(after, all)
  BY <1>7 DEF CutsPaired, MaySummarise
<1>20. RunPaired(after, all)
  BY <1>8, <1>18, <1>19 DEF RunPaired
<1>21. ASSUME NEW o \in Sessions
       PROVE  /\ Lengthens(store[o].log, store'[o].log)
              /\ store'[o].log = store[o].log \/ LogPaired(store'[o].log)
  <2>1. CASE o = s
    BY <1>1, <1>2, <2>1
  <2>2. CASE o # s
    <3>1. PICK l : l = store[o].log
      OBVIOUS
    <3>2. IsSeq(l)
      BY <3>1, SoundLog DEF SettledInv, LogsInv
    <3>3. Lengthens(l, l)
      BY <3>2, SameLengthens
    <3>4. store'[o] = store[o]
      BY <1>2, <2>2
    <3>5. QED
      BY <3>1, <3>3, <3>4
  <2>3. QED
    BY <2>1, <2>2
<1>22. ASSUME NEW q \in Runs
       PROVE  RunPaired(run'[q], store'[run'[q].session].log)
  <2>1. CASE q = r
    <3>1. after.session = s
      BY <1>1, <1>7
    <3>2. QED
      BY <1>1, <1>20, <2>1, <3>1
  <2>2. CASE q # r
    <3>1. PICK o : o = run[q].session
      OBVIOUS
    <3>2. run'[q] = run[q]
      BY <1>5, <2>2
    <3>3. SaidPaired(run'[q]) /\ CarriesOn(run[q], run'[q])
      BY <3>2 DEF PairedInv, RunPaired, CarriesOn
    <3>4. ASSUME IsOpen(run'[q])
          PROVE  /\ Lengthens(store[o].log, store'[o].log)
                 /\ \/ store'[o].log = store[o].log
                    \/ LogPaired(store'[o].log)
      <4>1. o \in Sessions
        BY <3>1, <3>2, <3>4, OpenRun
      <4>2. QED
        BY <1>21, <4>1
    <3>5. QED
      BY <3>1, <3>3, <3>4, PairedStill
  <2>3. QED
    BY <2>1, <2>2
<1>23. ASSUME NEW o \in Sessions
       PROVE  MayBePaired(store'[o].log)
  <2>1. MayBePaired(store[o].log)
    BY DEF PairedInv
  <2>2. store'[o].log = store[o].log \/ LogPaired(store'[o].log)
    BY <1>21
  <2>3. QED
    BY <2>1, <2>2 DEF MayBePaired
<1>24. QED
  BY <1>22, <1>23 DEF PairedInv

LEMMA CompactPaired ==
  ASSUME SettledInv, KeptInv, PairedInv, NEW r \in Runs, Compact(r)
  PROVE  PairedInv'
<1>1. PICK s, log, base :
        /\ s = run[r].session /\ log = store[s].log /\ base = run[r].base
  OBVIOUS
<1>2. CASE TriesOnly(r)
  BY <1>2, TriesPaired
<1>3. ASSUME NEW k, NEW e, NEW rest, Summarises(r, s, log, base, k, e, rest)
      PROVE  PairedInv'
  BY <1>1, <1>3, SummaryPaired
<1>4. TriesOnly(r) \/ \E k, e, rest : Summarises(r, s, log, base, k, e, rest)
  BY <1>1, CompactSplit
<1>5. QED
  BY <1>2, <1>3, <1>4

-----------------------------------------------------------------------------
(* Every step.                                                              *)

LEMMA LoopPaired ==
  ASSUME SteeringsApart, SettledInv, SettledInv', KeptInv, PairedInv,
         NEW r \in Runs, Loop(r)
  PROVE  PairedInv'
<1>1. CASE Compact(r)
  BY <1>1, CompactPaired
<1>2. CASE Goes(r)
  <2>1. CASE NoticeStop(r) \/ GiveUp(r)
    BY <1>2, <2>1, LeavesLoopPaired
  <2>2. CASE BeginStep(r)
    BY <1>2, <2>2, BeginStepPaired
  <2>3. CASE Ask(r)
    BY <1>2, <2>3, AskPaired
  <2>4. CASE StepFails(r) \/ ToolsDone(r)
    BY <1>2, <2>4, StepFailsPaired
  <2>5. CASE ToolsStopped(r)
    BY <1>2, <2>5, ToolsStoppedPaired
  <2>6. \A n \in {0} \cup CallCounts : n \in Nat
    BY ConstantsAssumption
  <2>7. ASSUME NEW n \in {0} \cup CallCounts, NEW text,
               ReplyInterrupted(r, n, text)
        PROVE  PairedInv'
    BY <1>2, <2>6, <2>7, ReplyInterruptedPaired
  <2>8. ASSUME NEW n \in CallCounts, ReplyCut(r, n)
        PROVE  PairedInv'
    BY <1>2, <2>6, <2>8, ReplyCutPaired
  <2>9. ASSUME NEW n \in CallCounts, ReplyCalls(r, n)
        PROVE  PairedInv'
    BY <1>2, <2>6, <2>9, ReplyCallsPaired
  <2>10. ASSUME NEW text, ReplyAnswer(r, text)
         PROVE  PairedInv'
    BY <1>2, <2>10, ReplyAnswerPaired
  <2>11. ASSUME NEW n \in 1 .. Len(run[r].todo), RunTools(r, n)
         PROVE  PairedInv'
    BY <1>2, <2>11, RunToolsPaired
  <2>12. CASE Conclude(r) \/ LeaveStep(r)
    BY <1>2, <2>12, LeavesPaired
  <2>13. CASE \/ \E n \in {0} \cup CallCounts : ReplyInterrupted(r, n, "said")
              \/ ReplyInterrupted(r, 0, "blank")
              \/ \E n \in CallCounts : ReplyCut(r, n) \/ ReplyCalls(r, n)
              \/ \E text \in {"said", "blank"} : ReplyAnswer(r, text)
              \/ \E n \in 1 .. Len(run[r].todo) : RunTools(r, n)
    BY <2>7, <2>8, <2>9, <2>10, <2>11, <2>13
  <2>14. QED
    BY <1>1, <2>1, <2>2, <2>3, <2>4, <2>5, <2>12, <2>13 DEF Loop
<1>3. QED
  BY <1>1, <1>2, LoopGoes

LEMMA ChatPaired ==
  ASSUME SteeringsApart, SettledInv, SettledInv', RowsInv, KeptInv, PairedInv,
         NEW r \in Runs, Chat(r)
  PROVE  PairedInv'
<1>1. CASE BeginFails(r)
  BY <1>1, BeginFailsPaired
<1>2. ASSUME NEW say \in BOOLEAN, OpenTurn(r, say)
      PROVE  PairedInv'
  BY <1>2, OpenTurnPaired
<1>3. CASE Loop(r)
  BY <1>3, LoopPaired
<1>4. CASE CloseInbox(r)
  BY <1>4, CloseInboxPaired
<1>5. CASE CloseTurn(r)
  BY <1>5, CloseTurnPaired
<1>6. ASSUME NEW said \in BOOLEAN, OpenFails(r, said)
      PROVE  PairedInv'
  BY <1>6, OpenFailsPaired
<1>7. QED
  BY <1>1, <1>2, <1>3, <1>4, <1>5, <1>6 DEF Chat

LEMMA NextPaired ==
  ASSUME SteeringsApart, SettledInv, SettledInv', RowsInv, KeptInv, PairedInv,
         [Next]_vars
  PROVE  PairedInv'
<1>1. ASSUME NEW r \in Runs, Chat(r)
      PROVE  PairedInv'
  BY <1>1, ChatPaired
<1>2. ASSUME NEW r \in Runs, CrashWhileOpening(r)
      PROVE  PairedInv'
  BY <1>2, CrashWhileOpeningPaired
<1>3. ASSUME NEW s \in Sessions, View(s)
      PROVE  PairedInv'
  BY <1>3, ViewPaired
<1>4. ASSUME NEW s \in Sessions, NEW new \in Sessions,
             NEW at \in DOMAIN store[s].log, Fork(s, at, new)
      PROVE  PairedInv'
  BY <1>4, ForkPaired
<1>5. ASSUME NEW r \in Runs, NEW s, Begin(r, s)
      PROVE  PairedInv'
  BY <1>5, BeginPaired
<1>6. CASE \/ \E r \in Runs : Stop(r)
           \/ \E m \in Steerings :
                SteerPushes(m) \/ \E r \in Runs : SteerFinds(m, r)
           \/ Crash \/ UNCHANGED vars
  <2>1. UNCHANGED store /\ (UNCHANGED run \/ Forget)
    BY <1>6 DEF Stop, SteerPushes, SteerFinds, Crash, vars
  <2>2. QED
    BY <2>1, QuietPaired
<1>7. QED
  BY <1>1, <1>2, <1>3, <1>4, <1>5, <1>6 DEF Next

LEMMA InitPaired ==
  ASSUME EarlierSound, EarlierPaired, Init
  PROVE  PairedInv
<1>1. PICK log \in Earlier :
        store = [s \in Sessions |-> IF s = First THEN Projected(log)
                                                 ELSE EmptyStore]
  BY DEF Init
<1>2. PICK none : none = <<>>
  OBVIOUS
<1>3. DOMAIN none = {}
  BY <1>2, EmptyIsSeq
<1>4. MayBePaired(none)
  BY <1>3 DEF MayBePaired, LogPaired, Paired
<1>5. MayBePaired(log)
  BY DEF EarlierPaired
<1>6. Projected(log).log = log
  BY ProjectedSound DEF EarlierSound
<1>7. ASSUME NEW s \in Sessions
      PROVE  MayBePaired(store[s].log)
  <2>1. store[s] = Projected(log) \/ store[s] = EmptyStore
    BY <1>1
  <2>2. store[s].log = log \/ store[s].log = none
    BY <1>2, <1>6, <2>1 DEF EmptyStore
  <2>3. QED
    BY <1>4, <1>5, <2>2
<1>8. ASSUME NEW r \in Runs
      PROVE  RunPaired(run[r], store[run[r].session].log)
  <2>1. run[r] = IdleRun
    BY DEF Init
  <2>2. PICK call, at, all :
          /\ call = run[r] /\ at = "new" /\ all = store[run[r].session].log
    OBVIOUS
  <2>3. call.at = at
    BY <2>1, <2>2 DEF IdleRun
  <2>4. ~IsOpen(call) /\ ~InLoop(call) /\ ~IsWorking(call)
    BY <2>2, <2>3 DEF IsOpen, InLoop, IsWorking
  <2>5. RunPaired(call, all)
    BY <2>4 DEF RunPaired, HistoryPaired, SaidPaired, CutsPaired, MaySummarise
  <2>6. QED
    BY <2>2, <2>5
<1>9. QED
  BY <1>7, <1>8 DEF PairedInv

(* What a request shows, and what the first request of the next turn will.  *)
LEMMA RequestPaired ==
  ASSUME SettledInv, PairedInv, NEW r \in Runs, run[r].at = "asking"
  PROVE  Paired(Request(r))
<1>1. PICK old, log, f, base :
        /\ old = run[r] /\ log = store[old.session].log
        /\ f = old.fresh /\ base = old.base
  OBVIOUS
<1>2. InLoop(old) /\ old.at # "tools" /\ IsOpen(old)
  BY <1>1 DEF InLoop, IsOpen
<1>3. IsSeq(f) /\ Counted(f) /\ Paired(f)
  BY <1>1, <1>2, SaidSoFar
<1>4. HistoryPaired(old, log)
  BY <1>1 DEF PairedInv, RunPaired
<1>5. /\ IsSeq(base) /\ Paired(BaseIn(old, log))
      /\ \A x \in DOMAIN base : base[x] \in DOMAIN log
  BY <1>1, <1>2, <1>4 DEF HistoryPaired
<1>6. Counted(log)
  <2>1. old.session \in Sessions
    BY <1>1, <1>2, OpenRun
  <2>2. Sound(store[old.session])
    BY <2>1 DEF SettledInv, LogsInv
  <2>3. LogSound(log)
    BY <1>1, <2>2 DEF Sound
  <2>4. QED
    BY <2>3, SoundCounted
<1>7. PICK bs : bs = RowsOf(log, base)
  OBVIOUS
<1>8. RowsAre(bs, log, base)
  BY <1>5, <1>6, <1>7, RowsOfAre
<1>9. Paired(bs)
  BY <1>1, <1>5, <1>7, BaseInIs
<1>10. PICK all : all = bs \o f
  OBVIOUS
<1>11. Paired(all)
  BY <1>3, <1>8, <1>9, <1>10, PairedJoined DEF RowsAre
<1>12. Request(r) = all
  BY <1>1, <1>7, <1>10 DEF Request, Base, Own, RowsOf
<1>13. QED
  BY <1>11, <1>12

LEMMA HistoryIsPaired ==
  ASSUME NEW st, Sound(st), RowsTell(st), NoBlanks(st.log), LogPaired(st.log),
         NEW R, R = History(st), NEW ms, ms = RowsOf(st.log, R)
  PROVE  Paired(ms)
<1>1. PICK log, S : log = st.log /\ S = st.surface
  OBVIOUS
<1>2. R = Replayed(st)
  BY HistoryIs
<1>3. PICK a : Ordered(log, S, R, a)
  BY <1>1, <1>2, ReplayedOrdered
<1>4. IsSeq(log) /\ Counted(log) /\ S \subseteq DOMAIN log /\ WellPaired(log)
  BY <1>1, SoundLog, SoundCounted DEF Sound, WellPaired
<1>5. SurfaceIs(S, log)
  BY <1>1 DEF RowsTell, SurfaceIs
<1>6. RowsIn(R, log)
  BY <1>3, <1>4 DEF Ordered, RowsIn
<1>7. ms = RowsOf(log, R)
  BY <1>1
<1>8. RowsAre(ms, log, R)
  BY <1>4, <1>6, <1>7, RowsOfAre DEF RowsIn
<1>9. QED
  BY <1>3, <1>4, <1>5, <1>8, SurfacePaired

LEMMA ResumedPaired ==
  ASSUME SteeringsApart, SettledInv, RowsInv, KeptInv, PairedInv,
         NEW s \in Sessions
  PROVE  Paired(Resumed(s))
<1>1. PICK st, mid, R, ms :
        /\ st = store[s] /\ mid = Repaired(st) /\ R = History(mid)
        /\ ms = RowsOf(mid.log, R)
  OBVIOUS
<1>2. Sound(st) /\ RowsTell(st) /\ LogKept(st.log) /\ MayBePaired(st.log)
  BY <1>1 DEF SettledInv, LogsInv, RowsInv, KeptInv, PairedInv
<1>3. Sound(mid) /\ RowsTell(mid) /\ LogPaired(mid.log)
  BY <1>1, <1>2, RepairedSound, RepairedTells, RepairedPaired
<1>4. Extended(st.log, mid.log)
  BY <1>1, <1>2, RepairedExtends
<1>5. NoBlanks(mid.log)
  BY <1>2, <1>4, KeptExtended DEF LogKept
<1>6. Paired(ms)
  BY <1>1, <1>3, <1>5, HistoryIsPaired
<1>7. Resumed(s) = ms
  BY <1>1 DEF Resumed, RowsOf
<1>8. QED
  BY <1>6, <1>7

(* Whatever request a turn sends, each reply in it that calls tools is      *)
(* followed by the results of just those calls, and a result is never       *)
(* without its reply (the provider refuses anything else); and so the first *)
(* request of the next turn will be, whatever the session's present turn    *)
(* was doing when it was lost.  This is of settle_step, which writes what a *)
(* step said whole, of the results that stand in for calls that a stop or   *)
(* the output limit left unrun, of repair_interrupted_turn, of fork_session *)
(* that cuts a copy anywhere before a user's message, and of load_history   *)
(* and compact_history, whose summary takes the place of replies with all   *)
(* of their results.  For any number of chats, sessions, steps and calls,   *)
(* and any logs to start with that can be made paired.                      *)
THEOREM RequestsStayPaired ==
  ASSUME EarlierSound, SteeringsApart, EarlierKept, EarlierPaired
  PROVE  Spec => []RequestsArePaired
<1> DEFINE Inv == SettledInv /\ RowsInv /\ ApartInv /\ KeptInv /\ PairedInv
<1>1. Init => Inv
  BY InitSettled, InitTells, InitApart, InitKept, InitPaired
<1>2. Inv /\ [Next]_vars => Inv'
  <2>1. SUFFICES ASSUME Inv, [Next]_vars
        PROVE  Inv'
    OBVIOUS
  <2>2. SettledInv' /\ RowsInv' /\ ApartInv'
    BY <2>1, NextSettled, NextTells, NextApart
  <2>3. KeptInv'
    BY <2>1, <2>2, NextKept
  <2>4. PairedInv'
    BY <2>1, <2>2, NextPaired
  <2>5. QED
    BY <2>2, <2>3, <2>4
<1>3. Inv => RequestsArePaired
  <2>1. SUFFICES ASSUME Inv
        PROVE  RequestsArePaired
    OBVIOUS
  <2>2. ASSUME NEW r \in Runs, run[r].at = "asking"
        PROVE  Paired(Request(r))
    BY <2>1, <2>2, RequestPaired
  <2>3. sessions \subseteq Sessions
    BY <2>1 DEF SettledInv, Shapes
  <2>4. ASSUME NEW s \in sessions
        PROVE  Paired(Resumed(s))
    BY <2>1, <2>3, <2>4, ResumedPaired
  <2>5. QED
    BY <2>2, <2>4 DEF RequestsArePaired
<1>4. QED
  BY <1>1, <1>2, <1>3, PTL DEF Spec
=============================================================================
