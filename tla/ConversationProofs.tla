------------------------- MODULE ConversationProofs -------------------------
(***************************************************************************)
(* Chats of one session take turns, each closes what the one before it     *)
(* left open, and nothing they do is recorded twice: what the ChatTurns    *)
(* and ChatsInTurn runs check of two chats, proved for every number of     *)
(* chats, sessions, steps and steering messages.  First the registry of    *)
(* runs, then the invariants of ConversationInvariant, each with the ones  *)
(* before it: SettledInv, RowsInv (a session's rows say what its log says),*)
(* ApartInv (which chats may be in one session) and KeptInv (whatever a    *)
(* summary hides is in the summary).                                       *)
(***************************************************************************)
EXTENDS ConversationInvariant, SequenceTheorems, FiniteSetTheorems,
        WellFoundedInduction, TLAPS

(* The registry's account of who runs where: a run that is registered has   *)
(* its session to itself, and the turn it opened is that session's.         *)
Registry ==
  /\ DOMAIN run = Runs
  /\ named \in [Runs -> Sessions \cup {NoSession}]
  /\ \A r \in Runs : "session" \in DOMAIN run[r] /\ "at" \in DOMAIN run[r]
Exclusive ==
  /\ \A r \in Runs : IsRegistered(r) => named[r] # NoSession
  /\ \A r, q \in Runs :
       IsRegistered(r) /\ IsRegistered(q) /\ r # q => named[r] # named[q]
TurnsAreNamed == \A r \in Runs : InTurnNow(r) => run[r].session = named[r]
RegistryInv == Registry /\ Exclusive /\ TurnsAreNamed

-----------------------------------------------------------------------------
(* Steps that leave the registry alone.                                     *)

(* What a step of the loop, and closing the inbox, do to the runs.          *)
SameSession(r) ==
  /\ UNCHANGED named
  /\ InTurnNow(r)
  /\ DOMAIN run' = Runs
  /\ \A q \in Runs \ {r} : run'[q] = run[q]
  /\ "session" \in DOMAIN run'[r] /\ "at" \in DOMAIN run'[r]
  /\ run'[r].session = run[r].session

LEMMA SameSessionKeeps ==
  ASSUME RegistryInv, NEW r \in Runs, SameSession(r)
  PROVE  RegistryInv'
<1> USE DEF RegistryInv, SameSession
<1>1. Registry'
  BY DEF Registry
<1>2. \A q \in Runs : /\ IsRegistered(q)' => IsRegistered(q)
                      /\ InTurnNow(q)' => InTurnNow(q)
                      /\ run'[q].session = run[q].session
  BY DEF IsRegistered, InTurnNow
<1>3. Exclusive'
  BY <1>2 DEF Exclusive
<1>4. TurnsAreNamed'
  BY <1>2 DEF TurnsAreNamed
<1>5. QED
  BY <1>1, <1>3, <1>4

(* A record keeps its fields, and the session in it, when others change.    *)
LEMMA ReturnKeepsSession ==
  ASSUME Registry, NEW r \in Runs, NEW outcome, NEW more,
         Return(r, outcome, more)
  PROVE  /\ DOMAIN run' = Runs
         /\ \A q \in Runs \ {r} : run'[q] = run[q]
         /\ "session" \in DOMAIN run'[r] /\ "at" \in DOMAIN run'[r]
         /\ run'[r].session = run[r].session
  BY DEF Registry, Return

LEMMA SettleKeeps ==
  ASSUME Registry, NEW r \in Runs, NEW more, NEW at, NEW outcome,
         Settle(r, more, at, outcome)
  PROVE  /\ DOMAIN run' = Runs
         /\ \A q \in Runs \ {r} : run'[q] = run[q]
         /\ "session" \in DOMAIN run'[r] /\ "at" \in DOMAIN run'[r]
         /\ run'[r].session = run[r].session
  BY DEF Registry, Settle

LEMMA LoopKeeps ==
  ASSUME RegistryInv, NEW r \in Runs, Loop(r) \/ CloseInbox(r)
  PROVE  SameSession(r)
<1> USE DEF RegistryInv, SameSession, InTurnNow, IsRegistered
<1>1. CASE NoticeStop(r)
  BY <1>1, ReturnKeepsSession DEF NoticeStop
<1>2. CASE BeginStep(r)
  BY <1>2 DEF BeginStep, Registry
<1>3. CASE Compact(r)
  BY <1>3 DEF Compact, Registry
<1>4. CASE Ask(r)
  BY <1>4 DEF Ask, Registry
<1>5. CASE StepFails(r)
  BY <1>5, SettleKeeps DEF StepFails
<1>6. ASSUME NEW n \in {0} \cup CallCounts, NEW text,
             ReplyInterrupted(r, n, text)
      PROVE  SameSession(r)
  BY <1>6, SettleKeeps DEF ReplyInterrupted
<1>7. ASSUME NEW n \in CallCounts, ReplyCut(r, n)
      PROVE  SameSession(r)
  BY <1>7, SettleKeeps DEF ReplyCut
<1>8. ASSUME NEW n \in CallCounts, ReplyCalls(r, n)
      PROVE  SameSession(r)
  BY <1>8 DEF ReplyCalls, Registry
<1>9. ASSUME NEW text, ReplyAnswer(r, text)
      PROVE  SameSession(r)
  BY <1>9, SettleKeeps DEF ReplyAnswer
<1>10. CASE Conclude(r)
  <2>1. CASE \E outcome : Return(r, outcome, <<>>)
    BY <1>10, <2>1, ReturnKeepsSession DEF Conclude
  <2>2. CASE run' = [run EXCEPT ![r].at = "step", ![r].step = @ + 1,
                                ![r].outcome = "none",
                                ![r].fresh = @ \o Steered(r)]
    BY <1>10, <2>2 DEF Conclude, Registry
  <2>3. QED
    BY <1>10, <2>1, <2>2 DEF Conclude
<1>11. ASSUME NEW n \in 1 .. Len(run[r].todo), RunTools(r, n)
       PROVE  SameSession(r)
  BY <1>11 DEF RunTools, Registry
<1>12. CASE GiveUp(r)
  BY <1>12, ReturnKeepsSession DEF GiveUp
<1>13. CASE ToolsStopped(r)
  BY <1>13, SettleKeeps DEF ToolsStopped
<1>14. CASE ToolsDone(r)
  BY <1>14, SettleKeeps DEF ToolsDone
<1>15. CASE LeaveStep(r)
  <2>1. CASE \E outcome : Return(r, outcome, <<>>)
    BY <1>15, <2>1, ReturnKeepsSession DEF LeaveStep
  <2>2. CASE run' = [run EXCEPT ![r].at = "step", ![r].step = @ + 1,
                                ![r].outcome = "none"]
    BY <1>15, <2>2 DEF LeaveStep, Registry
  <2>3. QED
    BY <1>15, <2>1, <2>2 DEF LeaveStep
<1>16. CASE CloseInbox(r)
  BY <1>16 DEF CloseInbox, Registry
<1>17. QED
  BY <1>1, <1>2, <1>3, <1>4, <1>5, <1>6, <1>7, <1>8, <1>9, <1>10, <1>11,
     <1>12, <1>13, <1>14, <1>15, <1>16 DEF Loop

-----------------------------------------------------------------------------
(* Steps that register a run, open its turn, or take it out.                *)

LEMMA InitRegistry == Init => RegistryInv
  BY DEF Init, RegistryInv, Registry, Exclusive, TurnsAreNamed, IsRegistered,
     InTurnNow, IdleRun

LEMMA BeginKeepsRegistry ==
  ASSUME RegistryInv, "new" \notin Events, NEW r \in Runs,
         NEW s \in Sessions \cup {NoSession}, Begin(r, s)
  PROVE  RegistryInv'
<1> USE DEF RegistryInv, Begin, MayBegin
<1>1. Registry'
  BY DEF Registry
<1>2. \A q \in Runs \ {r} : run'[q] = run[q] /\ named'[q] = named[q]
  BY DEF Registry
<1>3. /\ run'[r].at = "begun" /\ named'[r] = s
      /\ s # NoSession
      /\ \A q \in Runs : IsRegistered(q) => named[q] # s
  BY DEF Registry
<1>4. Exclusive'
  BY <1>2, <1>3 DEF Exclusive, IsRegistered
<1>5. TurnsAreNamed'
  BY <1>2, <1>3 DEF TurnsAreNamed, InTurnNow, IsRegistered
<1>6. QED
  BY <1>1, <1>4, <1>5

LEMMA OpenKeeps ==
  ASSUME RegistryInv, NEW r \in Runs, NEW say \in BOOLEAN, OpenTurn(r, say)
  PROVE  RegistryInv'
<1> USE DEF RegistryInv
<1>1. run[r].at = "begun" /\ IsRegistered(r) /\ UNCHANGED named
  BY DEF OpenTurn, IsRegistered
<1>2. PICK s \in Sessions :
        SessionFor(r, s) /\ Opened(r, s, Repaired(store[s]), say)
  BY DEF OpenTurn
<1>3. s = named[r]
  BY <1>1, <1>2 DEF SessionFor, Exclusive
<1>4. /\ DOMAIN run' = Runs
      /\ \A q \in Runs \ {r} : run'[q] = run[q]
      /\ DOMAIN run'[r] = DOMAIN IdleRun
      /\ run'[r].session = s /\ run'[r].at = "step"
  BY <1>2 DEF Opened, Registry, IdleRun
<1>5. Registry'
  BY <1>1, <1>4 DEF Registry, IdleRun
<1>6. Exclusive'
  BY <1>1, <1>4 DEF Exclusive, IsRegistered
<1>7. TurnsAreNamed'
  BY <1>1, <1>3, <1>4 DEF TurnsAreNamed, InTurnNow, IsRegistered
<1>8. QED
  BY <1>5, <1>6, <1>7

LEMMA GoneKeeps ==
  ASSUME RegistryInv, NEW r \in Runs,
         BeginFails(r) \/ CloseTurn(r) \/ \E said \in BOOLEAN : OpenFails(r, said)
  PROVE  RegistryInv'
<1> USE DEF RegistryInv
<1>1. /\ run' = [run EXCEPT ![r] = [IdleRun EXCEPT !.at = "gone"]]
      /\ named' = [named EXCEPT ![r] = NoSession]
  BY DEF BeginFails, OpenFails, Dropped, CloseTurn
<1>2. /\ DOMAIN run' = Runs
      /\ \A q \in Runs \ {r} : run'[q] = run[q] /\ named'[q] = named[q]
      /\ DOMAIN run'[r] = DOMAIN IdleRun /\ run'[r].at = "gone"
  BY <1>1 DEF Registry, IdleRun
<1>3. Registry'
  BY <1>1, <1>2 DEF Registry, IdleRun
<1>4. Exclusive' /\ TurnsAreNamed'
  BY <1>2 DEF Exclusive, TurnsAreNamed, InTurnNow, IsRegistered
<1>5. QED
  BY <1>3, <1>4

LEMMA ForgetKeepsRegistry ==
  ASSUME RegistryInv, Forget
  PROVE  RegistryInv'
<1> USE DEF RegistryInv, Forget
<1>1. \A r \in Runs : ~IsRegistered(r)'
  BY DEF IsRegistered, IdleRun
<1>2. Registry'
  BY DEF Registry, IdleRun
<1>3. QED
  BY <1>1, <1>2 DEF Exclusive, TurnsAreNamed, InTurnNow

LEMMA NextKeeps ==
  ASSUME "new" \notin Events, RegistryInv, [Next]_vars
  PROVE  RegistryInv'
<1>1. CASE UNCHANGED <<run, named>>
  BY <1>1 DEF RegistryInv, Registry, Exclusive, TurnsAreNamed, InTurnNow,
     IsRegistered
<1>2. ASSUME NEW r \in Runs, Chat(r)
      PROVE  RegistryInv'
  BY <1>2, GoneKeeps, OpenKeeps, LoopKeeps, SameSessionKeeps DEF Chat
<1>3. ASSUME NEW r \in Runs, NEW s \in Sessions \cup {NoSession}, Begin(r, s)
      PROVE  RegistryInv'
  BY <1>3, BeginKeepsRegistry
<1>4. CASE Forget
  BY <1>4, ForgetKeepsRegistry
<1>5. CASE UNCHANGED vars
  BY <1>1, <1>5 DEF vars
<1>6. ASSUME NEW r \in Runs, Stop(r) \/ CrashWhileOpening(r)
      PROVE  RegistryInv'
  BY <1>1, <1>4, <1>6 DEF Stop, CrashWhileOpening
<1>7. ASSUME NEW m \in Steerings, SteerPushes(m) \/ \E r \in Runs : SteerFinds(m, r)
      PROVE  RegistryInv'
  BY <1>1, <1>7 DEF SteerPushes, SteerFinds
<1>8. ASSUME NEW s \in Sessions,
             View(s) \/ \E new \in Sessions :
                          \E at \in DOMAIN store[s].log : Fork(s, at, new)
      PROVE  RegistryInv'
  BY <1>1, <1>8 DEF View, Fork
<1>9. CASE Crash
  BY <1>4, <1>9 DEF Crash
<1>10. QED
  BY <1>2, <1>3, <1>5, <1>6, <1>7, <1>8, <1>9 DEF Next

(* begin_run: so long as each chat names its session, at most one run has a *)
(* turn open in a session, from the turn's first event to its last, for any *)
(* number of chats, whatever stops, views, forks, failures and crashes come *)
(* between.                                                                 *)
THEOREM OneTurn ==
  ASSUME "new" \notin Events
  PROVE  Spec => []OneTurnPerSession
<1>1. RegistryInv => OneTurnPerSession
  BY DEF RegistryInv, Exclusive, TurnsAreNamed, OneTurnPerSession, InTurnNow
<1>2. RegistryInv /\ [Next]_vars => RegistryInv'
  BY NextKeeps
<1>3. QED
  BY <1>1, <1>2, InitRegistry, PTL DEF Spec

-----------------------------------------------------------------------------
(* Sequences, of whatever they are.                                         *)

LEMMA SeqIs ==
  ASSUME NEW S, NEW s \in Seq(S)
  PROVE  IsSeq(s)
<1> DEFINE T == {s[i] : i \in DOMAIN s}
<1>1. /\ Len(s) \in Nat /\ DOMAIN s = 1 .. Len(s)
      /\ s = [i \in 1 .. Len(s) |-> s[i]]
  OBVIOUS
<1>2. s \in [1 .. Len(s) -> T]
  BY <1>1
<1>3. \A n \in Nat : \A f : f \in [1 .. n -> T] => f \in Seq(T)
  <2> HIDE DEF T
  <2>1. QED
    OBVIOUS
<1>4. s \in Seq(T)
  <2> HIDE DEF T
  <2>1. QED
    BY <1>1, <1>2, <1>3
<1>5. QED
  BY <1>4 DEF IsSeq

LEMMA SeqFacts ==
  ASSUME NEW s, IsSeq(s)
  PROVE  Len(s) \in Nat /\ DOMAIN s = 1 .. Len(s)
<1>1. PICK S : s \in Seq(S)
  BY DEF IsSeq
<1>2. QED
  BY <1>1

LEMMA FunSeq ==
  ASSUME NEW n \in Nat, NEW f, DOMAIN f = 1 .. n, f = [i \in 1 .. n |-> f[i]]
  PROVE  IsSeq(f) /\ Len(f) = n
<1> DEFINE T == {f[i] : i \in 1 .. n}
<1>1. f \in [1 .. n -> T]
  OBVIOUS
<1>2. f \in Seq(T)
  <2> HIDE DEF T
  <2>1. QED
    BY <1>1
<1>3. IsSeq(f)
  BY <1>2, SeqIs
<1>4. QED
  BY <1>2, <1>3, SeqFacts

LEMMA ConcatSeq ==
  ASSUME NEW s, NEW t, IsSeq(s), IsSeq(t)
  PROVE  /\ IsSeq(s \o t) /\ Len(s \o t) = Len(s) + Len(t)
         /\ Len(s) \in Nat /\ Len(t) \in Nat
         /\ DOMAIN s = 1 .. Len(s) /\ DOMAIN t = 1 .. Len(t)
         /\ DOMAIN (s \o t) = 1 .. Len(s) + Len(t)
         /\ \A i \in 1 .. Len(s) : (s \o t)[i] = s[i]
         /\ \A i \in 1 .. Len(t) : (s \o t)[Len(s) + i] = t[i]
<1>1. PICK S : s \in Seq(S)
  BY DEF IsSeq
<1>2. PICK T : t \in Seq(T)
  BY DEF IsSeq
<1>3. s \in Seq(S \cup T) /\ t \in Seq(S \cup T)
  BY <1>1, <1>2, SeqMonotonic
<1>4. IsSeq(s \o t)
  BY <1>3, ConcatProperties, SeqIs
<1>5. QED
  BY <1>3, <1>4, SeqFacts, ConcatProperties

LEMMA SingleSeq ==
  ASSUME NEW e
  PROVE  IsSeq(<<e>>) /\ Len(<<e>>) = 1 /\ DOMAIN <<e>> = {1} /\ <<e>>[1] = e
<1>1. PICK s : s = <<e>>
  OBVIOUS
<1>2. s \in Seq({e}) /\ Len(s) = 1 /\ s[1] = e
  BY <1>1
<1>3. IsSeq(s)
  BY <1>2, SeqIs
<1>4. DOMAIN s = {1}
  BY <1>2, <1>3, SeqFacts
<1>5. QED
  BY <1>1, <1>2, <1>3, <1>4

LEMMA AppendIs ==
  ASSUME NEW s, NEW e, IsSeq(s)
  PROVE  Append(s, e) = s \o <<e>>
<1>1. PICK S : s \in Seq(S)
  BY DEF IsSeq
<1>2. s \in Seq(S \cup {e}) /\ <<e>> \in Seq(S \cup {e})
  BY <1>1, SeqMonotonic
<1>3. PICK U : U = S \cup {e}
  OBVIOUS
<1>4. s \in Seq(U) /\ e \in U /\ <<e>> \in Seq(U)
  BY <1>2, <1>3
<1>5. QED
  BY <1>4, AppendIsConcat

LEMMA ConcatEmpty ==
  ASSUME NEW s, IsSeq(s)
  PROVE  s \o <<>> = s
  BY ConcatEmptySeq DEF IsSeq

LEMMA EmptyIsSeq == IsSeq(<<>>) /\ Len(<<>>) = 0 /\ DOMAIN <<>> = {}
<1>1. <<>> \in Seq({}) /\ Len(<<>>) = 0
  BY EmptySeq
<1>2. PICK s : s = <<>>
  OBVIOUS
<1>3. IsSeq(s)
  BY <1>1, <1>2, SeqIs
<1>4. DOMAIN s = 1 .. 0
  BY <1>1, <1>2, <1>3, SeqFacts
<1>5. QED
  BY <1>1, <1>2, <1>3, <1>4

LEMMA SubSeqSeq ==
  ASSUME NEW s, IsSeq(s), NEW m \in Nat \ {0}, NEW n \in 0 .. Len(s)
  PROVE  /\ IsSeq(SubSeq(s, m, n))
         /\ Len(SubSeq(s, m, n)) = IF m <= n THEN n - m + 1 ELSE 0
         /\ DOMAIN SubSeq(s, m, n) = 1 .. Len(SubSeq(s, m, n))
         /\ \A i \in 1 .. n - m + 1 : SubSeq(s, m, n)[i] = s[m + i - 1]
<1>1. PICK S : s \in Seq(S)
  BY DEF IsSeq
<1>2. Len(s) \in Nat /\ \A i \in m .. n : s[i] \in S
  BY <1>1
<1>3. /\ SubSeq(s, m, n) \in Seq(S)
      /\ Len(SubSeq(s, m, n)) = IF m <= n THEN n - m + 1 ELSE 0
      /\ \A i \in 1 .. n - m + 1 : SubSeq(s, m, n)[i] = s[m + i - 1]
  BY <1>2, SubSeqProperties
<1>4. IsSeq(SubSeq(s, m, n))
  BY <1>3, SeqIs
<1>5. QED
  BY <1>3, <1>4, SeqFacts

-----------------------------------------------------------------------------
(* Logs.                                                                    *)

(* What comes of appending ms to log.                                       *)
Joined(log, ms, all) ==
  /\ IsSeq(all) /\ Len(log) \in Nat
  /\ DOMAIN log = 1 .. Len(log) /\ DOMAIN ms = 1 .. Len(ms)
  /\ \A i \in DOMAIN log : i \in DOMAIN all /\ all[i] = log[i]
  /\ \A j \in DOMAIN ms : /\ Len(log) + j \in DOMAIN all
                          /\ all[Len(log) + j] = ms[j]
  /\ \A i \in DOMAIN all :
       i \in DOMAIN log \/ \E j \in DOMAIN ms : i = Len(log) + j

LEMMA Split ==
  ASSUME NEW log, NEW ms, IsSeq(log), IsSeq(ms)
  PROVE  Joined(log, ms, log \o ms)
<1>0. PICK all : all = log \o ms
  OBVIOUS
<1>1. /\ IsSeq(all)
      /\ Len(log) \in Nat /\ Len(ms) \in Nat
      /\ DOMAIN log = 1 .. Len(log) /\ DOMAIN ms = 1 .. Len(ms)
      /\ DOMAIN all = 1 .. Len(log) + Len(ms)
      /\ \A i \in 1 .. Len(log) : all[i] = log[i]
      /\ \A i \in 1 .. Len(ms) : all[Len(log) + i] = ms[i]
  BY <1>0, ConcatSeq
<1>2. ASSUME NEW i \in DOMAIN all, i \notin DOMAIN log
      PROVE  \E j \in DOMAIN ms : i = Len(log) + j
  <2>1. i - Len(log) \in DOMAIN ms /\ i = Len(log) + (i - Len(log))
    BY <1>1, <1>2
  <2>2. QED
    BY <2>1
<1>3. Joined(log, ms, all)
  BY <1>1, <1>2 DEF Joined
<1>4. QED
  BY <1>0, <1>3

(* Messages and events that may be appended to what is stored.              *)
Fits(st, ms) ==
  /\ IsSeq(ms)
  /\ \A i \in DOMAIN ms : /\ EventTyped(ms[i]) /\ ms[i].kind # "turnStart"
                          /\ ms[i].turn \in DOMAIN st.turns
  /\ Once(ms)
  /\ \A i \in DOMAIN st.log, j \in DOMAIN ms :
       ~SameResult(st.log[i], ms[j]) /\ ~SameSteering(st.log[i], ms[j])

(* What appending them makes of it.                                         *)
Grows(st, ms, new) ==
  /\ DOMAIN new = {"log", "surface", "turns"}
  /\ new.log = st.log \o ms
  /\ new.surface \subseteq DOMAIN new.log
  /\ new.turns \in Seq(Reason \cup {"open"})
  /\ DOMAIN new.turns = DOMAIN st.turns
  /\ \A t \in DOMAIN st.turns :
       \/ new.turns[t] = st.turns[t]
       \/ new.turns[t] # "open" /\ \E i \in DOMAIN ms : Ends(ms, i, t)

LEMMA GrownInOrder ==
  ASSUME NEW st, NEW ms, NEW all, Sound(st), Fits(st, ms), all = st.log \o ms
  PROVE  TurnsInOrder(all)
<1>1. PICK log : log = st.log
  OBVIOUS
<1>2. Joined(log, ms, all)
  <2>1. IsSeq(log) /\ IsSeq(ms) /\ all = log \o ms
    BY <1>1 DEF Sound, LogSound, Fits
  <2>2. QED
    BY <2>1, Split
<1>3. ASSUME NEW i \in DOMAIN log
      PROVE  /\ \A t \in 1 .. all[i].turn : \E j \in 1 .. i : Begins(all, j, t)
             /\ all[i].kind = "turnStart" =>
                  \A t \in 1 .. all[i].turn - 1 : \E j \in 1 .. i : Ends(all, j, t)
  <2>1. /\ \A t \in 1 .. log[i].turn : \E j \in 1 .. i : Begins(log, j, t)
        /\ log[i].kind = "turnStart" =>
             \A t \in 1 .. log[i].turn - 1 : \E j \in 1 .. i : Ends(log, j, t)
    BY <1>1, <1>3 DEF Sound, LogSound, TurnsInOrder
  <2>2. ASSUME NEW j \in 1 .. i
        PROVE  j \in DOMAIN log /\ all[j] = log[j]
    <3>1. i \in 1 .. Len(log) /\ Len(log) \in Nat
      BY <1>2, <1>3 DEF Joined
    <3>2. j \in 1 .. Len(log)
      BY <3>1
    <3>3. QED
      BY <1>2, <3>2 DEF Joined
  <2>3. \A t : \A j \in 1 .. i :
        /\ Begins(log, j, t) => Begins(all, j, t)
        /\ Ends(log, j, t) => Ends(all, j, t)
    BY <2>2 DEF Begins, Ends
  <2>4. all[i] = log[i]
    BY <1>2, <1>3 DEF Joined
  <2>5. QED
    BY <2>1, <2>3, <2>4
<1>4. ASSUME NEW i \in DOMAIN all, NEW k \in DOMAIN ms, i = Len(log) + k
      PROVE  /\ \A t \in 1 .. all[i].turn : \E j \in 1 .. i : Begins(all, j, t)
             /\ all[i].kind # "turnStart"
  <2>1. /\ all[i].kind # "turnStart" /\ all[i].turn \in DOMAIN st.turns
    BY <1>2, <1>4 DEF Joined, Fits
  <2>2. Len(st.turns) \in Nat /\ DOMAIN st.turns = 1 .. Len(st.turns)
    BY DEF Sound, RowsSound
  <2>3. \A t \in 1 .. all[i].turn : t \in DOMAIN st.turns
    BY <2>1, <2>2
  <2>4. \A t \in DOMAIN st.turns : \E j \in DOMAIN log : Begins(log, j, t)
    BY <1>1 DEF Sound, RowsSound
  <2>5. \A t : \A j \in DOMAIN log : Begins(log, j, t) => Begins(all, j, t)
    BY <1>2 DEF Joined, Begins
  <2>6. \A j \in DOMAIN log : j \in 1 .. i
    BY <1>2, <1>4 DEF Joined
  <2>7. QED
    BY <2>1, <2>3, <2>4, <2>5, <2>6
<1>5. QED
  BY <1>2, <1>3, <1>4 DEF Joined, TurnsInOrder

LEMMA GrownOnce ==
  ASSUME NEW log, NEW ms, NEW all, IsSeq(log), IsSeq(ms), all = log \o ms,
         Once(log), Once(ms),
         \A i \in DOMAIN log, j \in DOMAIN ms :
           ~SameResult(log[i], ms[j]) /\ ~SameSteering(log[i], ms[j])
  PROVE  Once(all)
<1>1. Joined(log, ms, all)
  BY Split
<1>2. \A e, f : /\ SameResult(e, f) => SameResult(f, e)
                /\ SameSteering(e, f) => SameSteering(f, e)
  BY DEF SameResult, SameSteering
<1>3. SUFFICES ASSUME NEW i \in DOMAIN all, NEW j \in DOMAIN all,
                      SameResult(all[i], all[j]) \/ SameSteering(all[i], all[j])
               PROVE  i = j
  BY DEF Once
<1>4. CASE i \in DOMAIN log /\ j \in DOMAIN log
  <2>1. SameResult(log[i], log[j]) \/ SameSteering(log[i], log[j])
    BY <1>1, <1>3, <1>4 DEF Joined
  <2>2. QED
    BY <1>4, <2>1 DEF Once
<1>5. ASSUME i \in DOMAIN log, NEW k \in DOMAIN ms, j = Len(log) + k
      PROVE  FALSE
  BY <1>1, <1>3, <1>5 DEF Joined
<1>6. ASSUME j \in DOMAIN log, NEW k \in DOMAIN ms, i = Len(log) + k
      PROVE  FALSE
  <2>1. SameResult(log[j], ms[k]) \/ SameSteering(log[j], ms[k])
    BY <1>1, <1>2, <1>3, <1>6 DEF Joined
  <2>2. QED
    BY <1>6, <2>1
<1>7. ASSUME NEW k \in DOMAIN ms, i = Len(log) + k,
             NEW l \in DOMAIN ms, j = Len(log) + l
      PROVE  i = j
  <2>1. SameResult(ms[k], ms[l]) \/ SameSteering(ms[k], ms[l])
    BY <1>1, <1>3, <1>7 DEF Joined
  <2>2. k = l
    BY <2>1 DEF Once
  <2>3. QED
    BY <1>7, <2>2
<1>8. QED
  BY <1>1, <1>4, <1>5, <1>6, <1>7 DEF Joined

LEMMA Grown ==
  ASSUME NEW st, NEW ms, NEW new, Sound(st), Fits(st, ms), Grows(st, ms, new)
  PROVE  Sound(new)
<1>1. PICK log : log = st.log
  OBVIOUS
<1>2. PICK all : all = new.log
  OBVIOUS
<1>3. IsSeq(log) /\ IsSeq(ms) /\ all = log \o ms
  BY <1>1, <1>2 DEF Sound, LogSound, Fits, Grows
<1>4. Joined(log, ms, all)
  BY <1>3, Split
<1>5. \A i \in DOMAIN all : EventTyped(all[i])
  <2>1. /\ \A i \in DOMAIN log : EventTyped(log[i])
        /\ \A i \in DOMAIN ms : EventTyped(ms[i])
    BY <1>1 DEF Sound, LogSound, Fits
  <2>2. QED
    BY <1>4, <2>1 DEF Joined
<1>6. TurnsInOrder(all)
  BY <1>1, <1>3, GrownInOrder
<1>7. Once(all)
  BY <1>1, <1>3, GrownOnce DEF Sound, LogSound, Fits
<1>8. LogSound(all)
  BY <1>4, <1>5, <1>6, <1>7 DEF Joined, LogSound
<1>9. RowsSound(new)
  <2>1. /\ st.turns \in Seq(Reason \cup {"open"})
        /\ new.turns \in Seq(Reason \cup {"open"})
        /\ DOMAIN new.turns = DOMAIN st.turns
    BY DEF Sound, RowsSound, Grows
  <2>2. Len(new.turns) = Len(st.turns) /\ Len(st.turns) \in Nat
        /\ DOMAIN st.turns = 1 .. Len(st.turns)
    BY <2>1
  <2>3. \A i \in DOMAIN all : all[i].turn <= Len(new.turns)
    <3>1. \A i \in DOMAIN log : log[i].turn <= Len(new.turns)
      BY <1>1, <2>2 DEF Sound, RowsSound
    <3>2. \A i \in DOMAIN ms : ms[i].turn \in 1 .. Len(new.turns)
      BY <2>2 DEF Fits
    <3>3. QED
      BY <1>4, <2>2, <3>1, <3>2 DEF Joined
  <2>4. ASSUME NEW t \in DOMAIN new.turns
        PROVE  /\ \E i \in DOMAIN all : Begins(all, i, t)
               /\ new.turns[t] # "open" => \E i \in DOMAIN all : Ends(all, i, t)
               /\ t < Len(new.turns) => new.turns[t] # "open"
    <3>1. /\ \E i \in DOMAIN log : Begins(log, i, t)
          /\ st.turns[t] # "open" => \E i \in DOMAIN log : Ends(log, i, t)
          /\ t < Len(st.turns) => st.turns[t] # "open"
      BY <1>1, <2>1, <2>4 DEF Sound, RowsSound
    <3>2. \/ new.turns[t] = st.turns[t]
          \/ new.turns[t] # "open" /\ \E i \in DOMAIN ms : Ends(ms, i, t)
      BY <2>1, <2>4 DEF Grows
    <3>3. \A i \in DOMAIN log : /\ Begins(log, i, t) => Begins(all, i, t)
                                /\ Ends(log, i, t) => Ends(all, i, t)
      BY <1>4 DEF Joined, Begins, Ends
    <3>4. \A i \in DOMAIN ms : Ends(ms, i, t) => Ends(all, Len(log) + i, t)
      BY <1>4 DEF Joined, Ends
    <3>5. QED
      BY <1>4, <2>2, <3>1, <3>2, <3>3, <3>4 DEF Joined
  <2>5. QED
    BY <1>2, <2>1, <2>3, <2>4 DEF RowsSound, Grows
<1>10. QED
  BY <1>2, <1>8, <1>9 DEF Sound

-----------------------------------------------------------------------------
(* What is appended, and by which operations.                               *)

LEMMA EventFits ==
  ASSUME NEW st, NEW e, Sound(st), EventTyped(e), e.turn \in DOMAIN st.turns,
         e.kind \notin {"turnStart", "tool"}, e.text \notin Steerings
  PROVE  Fits(st, <<e>>)
<1>1. PICK ms : ms = <<e>>
  OBVIOUS
<1>2. IsSeq(ms) /\ DOMAIN ms = {1} /\ ms[1] = e
  BY <1>1, SingleSeq
<1>3. Once(ms)
  BY <1>2 DEF Once
<1>4. \A f : ~SameResult(f, e) /\ ~SameSteering(f, e)
  BY DEF SameResult, SameSteering
<1>5. Fits(st, ms)
  BY <1>2, <1>3, <1>4 DEF Fits
<1>6. QED
  BY <1>1, <1>5

LEMMA SoundLog ==
  ASSUME NEW st, Sound(st)
  PROVE  /\ IsSeq(st.log) /\ Len(st.log) \in Nat
         /\ DOMAIN st.log = 1 .. Len(st.log)
         /\ Len(st.turns) \in Nat /\ DOMAIN st.turns = 1 .. Len(st.turns)
         /\ st.turns \in Seq(Reason \cup {"open"})
         /\ DOMAIN st = {"log", "surface", "turns"}
         /\ st.surface \subseteq DOMAIN st.log
<1>1. IsSeq(st.log) /\ st.turns \in Seq(Reason \cup {"open"})
  BY DEF Sound, LogSound, RowsSound
<1>2. PICK log : log = st.log
  OBVIOUS
<1>3. Len(log) \in Nat /\ DOMAIN log = 1 .. Len(log)
  BY <1>1, <1>2, SeqFacts
<1>4. QED
  BY <1>1, <1>2, <1>3 DEF Sound, RowsSound

LEMMA LoggedGrows ==
  ASSUME NEW st, NEW e, Sound(st)
  PROVE  Grows(st, <<e>>, Logged(st, e)) /\ Logged(st, e).turns = st.turns
<1>1. PICK new : new = Logged(st, e)
  OBVIOUS
<1>2. /\ DOMAIN new = {"log", "surface", "turns"}
      /\ new.log = Append(st.log, e)
      /\ new.surface = st.surface /\ new.turns = st.turns
  BY <1>1, SoundLog DEF Logged
<1>3. PICK log, ms : log = st.log /\ ms = <<e>>
  OBVIOUS
<1>4. new.log = log \o ms
  BY <1>2, <1>3, SoundLog, AppendIs
<1>5. Joined(log, ms, new.log)
  BY <1>3, <1>4, SoundLog, SingleSeq, Split
<1>6. new.surface \subseteq DOMAIN new.log
  BY <1>2, <1>3, <1>5, SoundLog DEF Joined
<1>7. Grows(st, ms, new)
  BY <1>2, <1>3, <1>4, <1>6, SoundLog DEF Grows
<1>8. QED
  BY <1>1, <1>2, <1>3, <1>7

LEMMA SayGrows ==
  ASSUME NEW st, NEW ms, Sound(st), IsSeq(ms)
  PROVE  Grows(st, ms, Say(st, ms)) /\ Say(st, ms).turns = st.turns
<1>1. PICK new : new = Say(st, ms)
  OBVIOUS
<1>2. /\ DOMAIN new = {"log", "surface", "turns"}
      /\ new.log = st.log \o ms
      /\ new.surface = st.surface \cup {Len(st.log) + i : i \in DOMAIN ms}
      /\ new.turns = st.turns
  BY <1>1, SoundLog DEF Say
<1>3. PICK log : log = st.log
  OBVIOUS
<1>4. Joined(log, ms, new.log)
  BY <1>2, <1>3, SoundLog, Split
<1>5. new.surface \subseteq DOMAIN new.log
  BY <1>2, <1>3, <1>4, SoundLog DEF Joined
<1>6. Grows(st, ms, new)
  BY <1>2, <1>5, SoundLog DEF Grows
<1>7. QED
  BY <1>1, <1>2, <1>6

LEMMA SummariseGrows ==
  ASSUME NEW st, NEW e, Sound(st)
  PROVE  Grows(st, <<e>>, Summarise(st, e))
<1>1. PICK mid, new : mid = Logged(st, e) /\ new = Summarise(st, e)
  OBVIOUS
<1>2. PICK ms : ms = <<e>>
  OBVIOUS
<1>3. Grows(st, ms, mid) /\ mid.turns = st.turns
  BY <1>1, <1>2, LoggedGrows
<1>4. /\ DOMAIN new = {"log", "surface", "turns"}
      /\ new.log = mid.log /\ new.turns = mid.turns
      /\ new.surface \subseteq st.surface \cup {Len(st.log) + 1}
  <2>1. mid.surface = st.surface
    BY <1>1, SoundLog DEF Logged
  <2>2. PICK kept : /\ kept \subseteq mid.surface
                    /\ new = [mid EXCEPT !.surface = kept \cup {Len(st.log) + 1}]
    BY <1>1 DEF Summarise
  <2>3. DOMAIN mid = {"log", "surface", "turns"}
    BY <1>3 DEF Grows
  <2>4. QED
    BY <2>1, <2>2, <2>3
<1>5. PICK log : log = st.log
  OBVIOUS
<1>6. Joined(log, ms, new.log)
  <2>1. new.log = log \o ms
    BY <1>3, <1>4, <1>5 DEF Grows
  <2>2. IsSeq(log) /\ IsSeq(ms)
    BY <1>2, <1>5, SoundLog, SingleSeq
  <2>3. QED
    BY <2>1, <2>2, Split
<1>7. DOMAIN ms = {1}
  BY <1>2, SingleSeq
<1>8. new.surface \subseteq DOMAIN new.log
  <2>1. \A i \in DOMAIN log : i \in DOMAIN new.log
    BY <1>6 DEF Joined
  <2>2. Len(log) + 1 \in DOMAIN new.log
    BY <1>6, <1>7 DEF Joined
  <2>3. st.surface \subseteq DOMAIN log
    BY <1>5, SoundLog
  <2>4. QED
    BY <1>4, <1>5, <2>1, <2>2, <2>3
<1>9. Grows(st, ms, new)
  BY <1>3, <1>4, <1>8 DEF Grows
<1>10. QED
  BY <1>1, <1>2, <1>9

LEMMA EndTurnGrows ==
  ASSUME NEW st, NEW t, NEW reason \in Reason, Sound(st), t \in DOMAIN st.turns
  PROVE  /\ Grows(st, <<Event("turnEnd", t, reason, {})>>, EndTurn(st, t, reason))
         /\ EndTurn(st, t, reason).turns = [st.turns EXCEPT ![t] = reason]
<1>1. PICK e, mid, new : /\ e = Event("turnEnd", t, reason, {})
                         /\ mid = Logged(st, e) /\ new = EndTurn(st, t, reason)
  OBVIOUS
<1>2. PICK ms : ms = <<e>>
  OBVIOUS
<1>3. Grows(st, ms, mid) /\ mid.turns = st.turns
  BY <1>1, <1>2, LoggedGrows
<1>4. new = [mid EXCEPT !.turns[t] = reason]
  BY <1>1 DEF EndTurn
<1>5. /\ DOMAIN new = {"log", "surface", "turns"}
      /\ new.log = mid.log /\ new.surface = mid.surface
      /\ new.turns = [st.turns EXCEPT ![t] = reason]
  BY <1>3, <1>4 DEF Grows
<1>6. new.turns \in Seq(Reason \cup {"open"})
  <2>1. PICK ts, S : ts = st.turns /\ S = Reason \cup {"open"}
    OBVIOUS
  <2>2. ts \in Seq(S) /\ reason \in S /\ t \in 1 .. Len(ts)
    BY <2>1, SoundLog
  <2>3. [ts EXCEPT ![t] = reason] \in Seq(S)
    BY <2>2, ExceptSeq
  <2>4. QED
    BY <1>5, <2>1, <2>3
<1>7. DOMAIN ms = {1} /\ ms[1] = e
  BY <1>2, SingleSeq
<1>8. Ends(ms, 1, t)
  BY <1>1, <1>7 DEF Ends, Event
<1>9. reason # "open"
  BY DEF Reason
<1>10. Grows(st, ms, new)
  BY <1>3, <1>5, <1>6, <1>7, <1>8, <1>9 DEF Grows
<1>11. QED
  BY <1>1, <1>2, <1>5, <1>10

LEMMA EndTurnSound ==
  ASSUME NEW st, NEW t, NEW reason \in Reason, Sound(st), t \in DOMAIN st.turns,
         SteeringsApart
  PROVE  /\ Sound(EndTurn(st, t, reason))
         /\ Fits(st, <<Event("turnEnd", t, reason, {})>>)
<1>1. PICK e : e = Event("turnEnd", t, reason, {})
  OBVIOUS
<1>2. /\ e.kind = "turnEnd" /\ e.turn = t /\ e.text = reason /\ e.calls = {}
  BY <1>1 DEF Event
<1>3. t \in Nat \ {0} /\ reason \notin Steerings
  BY SoundLog DEF SteeringsApart
<1>4. EventTyped(e)
  BY <1>2, <1>3, FS_EmptySet DEF EventTyped
<1>5. Fits(st, <<e>>)
  BY <1>2, <1>3, <1>4, EventFits
<1>6. PICK ms, new : ms = <<e>> /\ new = EndTurn(st, t, reason)
  OBVIOUS
<1>7. Fits(st, ms) /\ Grows(st, ms, new)
  BY <1>1, <1>5, <1>6, EndTurnGrows
<1>8. QED
  BY <1>1, <1>5, <1>6, <1>7, Grown

-----------------------------------------------------------------------------
(* Opening a turn, behind turns that have all ended.                        *)

AllEnded(st) == \A t \in DOMAIN st.turns : st.turns[t] # "open"

(* What others than the turn's run write to a log: nothing that steers, and *)
(* of calls only those that the turn's log had.                             *)
Repairs(st, new) ==
  /\ DOMAIN st.turns \subseteq DOMAIN new.turns
  /\ \A i \in DOMAIN new.log :
       \/ i \in DOMAIN st.log /\ new.log[i] = st.log[i]
       \/ /\ new.log[i].text \notin Steerings
          /\ \A c \in new.log[i].calls : \E j \in DOMAIN st.log :
               st.log[j].turn = new.log[i].turn /\ c \in st.log[j].calls

LEMMA RepairsTwice ==
  ASSUME NEW st, NEW mid, NEW new, Repairs(st, mid), Repairs(mid, new)
  PROVE  Repairs(st, new)
<1>1. DOMAIN st.turns \subseteq DOMAIN new.turns
  BY DEF Repairs
<1>2. ASSUME NEW i \in DOMAIN new.log
      PROVE  \/ i \in DOMAIN st.log /\ new.log[i] = st.log[i]
             \/ /\ new.log[i].text \notin Steerings
                /\ \A c \in new.log[i].calls : \E j \in DOMAIN st.log :
                     st.log[j].turn = new.log[i].turn /\ c \in st.log[j].calls
  <2>1. CASE i \in DOMAIN mid.log /\ new.log[i] = mid.log[i]
    BY <2>1 DEF Repairs
  <2>2. CASE /\ new.log[i].text \notin Steerings
             /\ \A c \in new.log[i].calls : \E j \in DOMAIN mid.log :
                  mid.log[j].turn = new.log[i].turn /\ c \in mid.log[j].calls
    <3>1. ASSUME NEW c \in new.log[i].calls
          PROVE  \E j \in DOMAIN st.log :
                   st.log[j].turn = new.log[i].turn /\ c \in st.log[j].calls
      <4>1. PICK j \in DOMAIN mid.log :
              mid.log[j].turn = new.log[i].turn /\ c \in mid.log[j].calls
        BY <2>2, <3>1
      <4>2. \/ j \in DOMAIN st.log /\ mid.log[j] = st.log[j]
            \/ \E k \in DOMAIN st.log :
                 st.log[k].turn = mid.log[j].turn /\ c \in st.log[k].calls
        BY <4>1 DEF Repairs
      <4>3. QED
        BY <4>1, <4>2
    <3>2. QED
      BY <2>2, <3>1
  <2>3. QED
    BY <1>2, <2>1, <2>2 DEF Repairs
<1>3. QED
  BY <1>1, <1>2 DEF Repairs

(* A log that grows by such messages is one that is repaired.               *)
LEMMA GrowthRepairs ==
  ASSUME NEW st, NEW ms, NEW new, Sound(st), IsSeq(ms),
         new.log = st.log \o ms, DOMAIN st.turns \subseteq DOMAIN new.turns,
         \A i \in DOMAIN ms :
           /\ ms[i].text \notin Steerings
           /\ \A c \in ms[i].calls : \E j \in DOMAIN st.log :
                st.log[j].turn = ms[i].turn /\ c \in st.log[j].calls
  PROVE  Repairs(st, new)
<1>1. PICK log, all : log = st.log /\ all = new.log
  OBVIOUS
<1>2. Joined(log, ms, all)
  BY <1>1, SoundLog, Split
<1>3. ASSUME NEW i \in DOMAIN all, i \notin DOMAIN log
      PROVE  /\ all[i].text \notin Steerings
             /\ \A c \in all[i].calls : \E j \in DOMAIN log :
                  log[j].turn = all[i].turn /\ c \in log[j].calls
  <2>1. PICK k \in DOMAIN ms : i = Len(log) + k
    BY <1>2, <1>3 DEF Joined
  <2>2. all[i] = ms[k]
    BY <1>2, <2>1 DEF Joined
  <2>3. /\ ms[k].text \notin Steerings
        /\ \A c \in ms[k].calls : \E j \in DOMAIN log :
             log[j].turn = ms[k].turn /\ c \in log[j].calls
    BY <1>1
  <2>4. QED
    BY <2>2, <2>3
<1>4. \A i \in DOMAIN log : all[i] = log[i]
  BY <1>2 DEF Joined
<1>5. \A i \in DOMAIN all :
        \/ i \in DOMAIN log /\ all[i] = log[i]
        \/ /\ all[i].text \notin Steerings
           /\ \A c \in all[i].calls : \E j \in DOMAIN log :
                log[j].turn = all[i].turn /\ c \in log[j].calls
  BY <1>3, <1>4
<1>6. DOMAIN st.turns \subseteq DOMAIN new.turns
  OBVIOUS
<1>7. QED
  BY <1>1, <1>5, <1>6, Zenon DEF Repairs

LEMMA StartSound ==
  ASSUME NEW st, NEW t, t = Len(st.turns) + 1, Sound(st), AllEnded(st),
         SteeringsApart
  PROVE  /\ Sound(StartTurn(st, t)) /\ Repairs(st, StartTurn(st, t))
         /\ DOMAIN StartTurn(st, t).turns = 1 .. t
         /\ t \in Nat \ {0} /\ t \notin DOMAIN st.turns
         /\ \A i \in DOMAIN StartTurn(st, t).log :
              \/ i \in DOMAIN st.log /\ StartTurn(st, t).log[i] = st.log[i]
              \/ StartTurn(st, t).log[i].calls = {}
<1>1. PICK e, new : /\ e = Event("turnStart", t, "said", {})
                    /\ new = StartTurn(st, t)
  OBVIOUS
<1>2. PICK log, ms, all : log = st.log /\ ms = <<e>> /\ all = new.log
  OBVIOUS
<1>3. /\ t \in Nat \ {0} /\ t \notin DOMAIN st.turns
      /\ DOMAIN st.turns = 1 .. t - 1 /\ Len(st.turns) = t - 1
  BY SoundLog
<1>4. /\ DOMAIN new = {"log", "surface", "turns"}
      /\ new.log = Append(st.log, e) /\ new.surface = st.surface
      /\ new.turns = Append(st.turns, "open")
  <2>1. PICK mid : mid = Logged(st, e)
    OBVIOUS
  <2>2. /\ DOMAIN mid = {"log", "surface", "turns"}
        /\ mid.log = Append(st.log, e) /\ mid.surface = st.surface
        /\ mid.turns = st.turns
    BY <2>1, SoundLog DEF Logged
  <2>3. new = [mid EXCEPT !.turns = Append(@, "open")]
    BY <1>1, <1>3, <2>1, <2>2 DEF StartTurn
  <2>4. QED
    BY <2>2, <2>3
<1>5. all = log \o ms
  BY <1>2, <1>4, SoundLog, AppendIs
<1>6. Joined(log, ms, all) /\ DOMAIN ms = {1} /\ ms[1] = e
  BY <1>2, <1>5, SoundLog, SingleSeq, Split
<1>7. /\ e.kind = "turnStart" /\ e.turn = t /\ e.text = "said" /\ e.calls = {}
      /\ "said" \notin Steerings
  BY <1>1 DEF Event, SteeringsApart
<1>8. /\ Len(log) + 1 \in DOMAIN all /\ all[Len(log) + 1] = e
      /\ Len(log) \in Nat /\ DOMAIN log = 1 .. Len(log)
      /\ \A i \in DOMAIN log : i \in DOMAIN all /\ all[i] = log[i]
      /\ \A i \in DOMAIN all : i \in DOMAIN log \/ i = Len(log) + 1
  BY <1>6 DEF Joined
<1>9. /\ new.turns \in Seq(Reason \cup {"open"})
      /\ Len(new.turns) = t /\ DOMAIN new.turns = 1 .. t
      /\ \A u \in 1 .. t - 1 : new.turns[u] = st.turns[u]
      /\ new.turns[t] = "open"
  BY <1>3, <1>4, SoundLog
<1>10. \A u : \A j \in DOMAIN log :
         /\ Begins(log, j, u) => Begins(all, j, u)
         /\ Ends(log, j, u) => Ends(all, j, u)
  BY <1>8 DEF Begins, Ends
<1>11. /\ \A u \in 1 .. t - 1 : /\ \E j \in DOMAIN log : Begins(log, j, u)
                                /\ \E j \in DOMAIN log : Ends(log, j, u)
       /\ Begins(all, Len(log) + 1, t)
  <2>1. \A u \in 1 .. t - 1 :
          /\ \E j \in DOMAIN log : Begins(log, j, u)
          /\ \E j \in DOMAIN log : Ends(log, j, u)
    BY <1>2, <1>3 DEF Sound, RowsSound, AllEnded
  <2>2. QED
    BY <1>7, <1>8, <2>1 DEF Begins
<1>12. TurnsInOrder(all)
  <2>1. ASSUME NEW i \in DOMAIN log
        PROVE  /\ \A u \in 1 .. all[i].turn : \E j \in 1 .. i : Begins(all, j, u)
               /\ all[i].kind = "turnStart" =>
                    \A u \in 1 .. all[i].turn - 1 : \E j \in 1 .. i : Ends(all, j, u)
    <3>1. /\ \A u \in 1 .. log[i].turn : \E j \in 1 .. i : Begins(log, j, u)
          /\ log[i].kind = "turnStart" =>
               \A u \in 1 .. log[i].turn - 1 : \E j \in 1 .. i : Ends(log, j, u)
      BY <1>2, <2>1 DEF Sound, LogSound, TurnsInOrder
    <3>2. all[i] = log[i] /\ \A j \in 1 .. i : j \in DOMAIN log
      BY <1>8, <2>1
    <3>3. QED
      BY <1>10, <3>1, <3>2
  <2>2. ASSUME NEW i \in DOMAIN all, i = Len(log) + 1
        PROVE  /\ \A u \in 1 .. all[i].turn : \E j \in 1 .. i : Begins(all, j, u)
               /\ \A u \in 1 .. all[i].turn - 1 : \E j \in 1 .. i : Ends(all, j, u)
    <3>1. all[i].turn = t /\ \A j \in DOMAIN log : j \in 1 .. i
      BY <1>7, <1>8, <2>2
    <3>2. \A u \in 1 .. t : u \in 1 .. t - 1 \/ u = t
      BY <1>3
    <3>3. i \in 1 .. i
      BY <1>8, <2>2
    <3>4. QED
      BY <1>10, <1>11, <2>2, <3>1, <3>2, <3>3
  <2>3. QED
    BY <1>8, <2>1, <2>2 DEF TurnsInOrder
<1>13. Once(all)
  <2>1. Once(ms)
    BY <1>6 DEF Once
  <2>2. \A i \in DOMAIN log, j \in DOMAIN ms :
          ~SameResult(log[i], ms[j]) /\ ~SameSteering(log[i], ms[j])
    BY <1>6, <1>7 DEF SameResult, SameSteering
  <2>3. IsSeq(log) /\ IsSeq(ms) /\ Once(log)
    BY <1>2, SingleSeq DEF Sound, LogSound
  <2>4. QED
    BY <1>5, <2>1, <2>2, <2>3, GrownOnce
<1>14. \A i \in DOMAIN all : EventTyped(all[i]) /\ all[i].turn <= t
  <2>1. EventTyped(e) /\ e.turn <= t
    BY <1>3, <1>7, FS_EmptySet DEF EventTyped
  <2>2. \A i \in DOMAIN log : EventTyped(log[i]) /\ log[i].turn <= t - 1
    BY <1>2, <1>3 DEF Sound, LogSound, RowsSound
  <2>3. \A i \in DOMAIN log : log[i].turn <= t
    BY <1>3, <2>2 DEF EventTyped
  <2>4. QED
    BY <1>8, <2>1, <2>2, <2>3
<1>15. Sound(new)
  <2>1. LogSound(all)
    BY <1>6, <1>12, <1>13, <1>14 DEF LogSound, Joined
  <2>2. new.surface \subseteq DOMAIN all
    BY <1>2, <1>4, <1>8, SoundLog
  <2>3. ASSUME NEW u \in DOMAIN new.turns
        PROVE  /\ \E i \in DOMAIN all : Begins(all, i, u)
               /\ new.turns[u] # "open" => \E i \in DOMAIN all : Ends(all, i, u)
               /\ u < Len(new.turns) => new.turns[u] # "open"
    <3>1. CASE u = t
      BY <1>3, <1>8, <1>9, <1>11, <3>1
    <3>2. CASE u \in 1 .. t - 1
      <4>1. new.turns[u] # "open"
        BY <1>3, <1>9, <3>2 DEF AllEnded
      <4>2. QED
        BY <1>8, <1>10, <1>11, <3>2, <4>1
    <3>3. QED
      BY <1>3, <1>9, <2>3, <3>1, <3>2
  <2>4. RowsSound(new)
    BY <1>2, <1>4, <1>9, <1>14, <2>2, <2>3 DEF RowsSound
  <2>5. QED
    BY <1>2, <2>1, <2>4 DEF Sound
<1>16. Repairs(st, new)
  <2>1. DOMAIN st.turns \subseteq DOMAIN new.turns
    BY <1>3, <1>9
  <2>2. QED
    BY <1>2, <1>7, <1>8, <2>1 DEF Repairs
<1>17. \A i \in DOMAIN new.log :
         \/ i \in DOMAIN st.log /\ new.log[i] = st.log[i]
         \/ new.log[i].calls = {}
  BY <1>2, <1>7, <1>8
<1>18. QED
  BY <1>1, <1>3, <1>9, <1>15, <1>16, <1>17

-----------------------------------------------------------------------------
(* repair_interrupted_turn.                                                 *)

LEMMA ImageFinite ==
  ASSUME NEW f, IsFiniteSet(DOMAIN f)
  PROVE  IsFiniteSet({f[x] : x \in DOMAIN f})
<1>1. PICK S, T, g : /\ S = DOMAIN f /\ T = {f[x] : x \in DOMAIN f}
                     /\ g = [x \in S |-> f[x]]
  OBVIOUS
<1>2. g \in Surjection(S, T)
  BY <1>1 DEF Surjection
<1>3. QED
  BY <1>1, <1>2, FS_Surjection

LEMMA ResultsAre ==
  ASSUME NEW t, NEW calls, IsFiniteSet(calls),
         NEW ms, ms = ResultsFor(t, calls)
  PROVE  /\ IsSeq(ms)
         /\ \A i \in DOMAIN ms : \E c \in calls : ms[i] = ToolResult(t, c)
         /\ \A i, j \in DOMAIN ms : ms[i].calls = ms[j].calls => i = j
         /\ \A c \in calls : \E i \in DOMAIN ms : ms[i] = ToolResult(t, c)
<1>1. PICK n : n = Cardinality(calls)
  OBVIOUS
<1>2. n \in Nat /\ ExistsBijection(1 .. n, calls)
  BY <1>1, FS_CardinalityType
<1>3. PICK Order : /\ Order = CHOOSE f \in [1 .. n -> calls] :
                                \A c \in calls : \E i \in DOMAIN f : f[i] = c
  OBVIOUS
<1>4. \E f \in [1 .. n -> calls] : \A c \in calls : \E i \in DOMAIN f : f[i] = c
  <2>1. PICK f : f \in Bijection(1 .. n, calls)
    BY <1>2 DEF ExistsBijection
  <2>2. /\ f \in [1 .. n -> calls]
        /\ \A c \in calls : \E i \in 1 .. n : f[i] = c
    BY <2>1 DEF Bijection, Surjection
  <2>3. QED
    BY <2>2
<1>5. /\ Order \in [1 .. n -> calls]
      /\ \A c \in calls : \E i \in DOMAIN Order : Order[i] = c
  BY <1>3, <1>4
<1>6. Order \in Surjection(1 .. n, calls)
  BY <1>5 DEF Surjection
<1>7. IsFiniteSet(1 .. n) /\ Cardinality(1 .. n) = Cardinality(calls)
  BY <1>1, <1>2, FS_Interval
<1>8. Order \in Injection(1 .. n, calls)
  BY <1>6, <1>7, FS_SurjSameCardinalityImpliesInj
<1>9. \A i, j \in 1 .. n : Order[i] = Order[j] => i = j
  BY <1>8 DEF Injection, IsInjective
<1>10. ms = [i \in 1 .. n |-> ToolResult(t, Order[i])]
  BY <1>1, <1>3 DEF ResultsFor
<1>11. DOMAIN ms = 1 .. n /\ \A i \in 1 .. n : ms[i] = ToolResult(t, Order[i])
  BY <1>10
<1>12. IsSeq(ms)
  BY <1>2, <1>10, <1>11, FunSeq
<1>13. \A c, d : ToolResult(t, c).calls = ToolResult(t, d).calls => c = d
  BY DEF ToolResult, Event
<1>14. \A i \in 1 .. n : Order[i] \in calls
  BY <1>5
<1>15. \A c \in calls : \E i \in 1 .. n : Order[i] = c
  BY <1>5
<1>16. QED
  BY <1>9, <1>11, <1>12, <1>13, <1>14, <1>15

LEMMA UnansweredFinite ==
  ASSUME NEW st, NEW t, Sound(st)
  PROVE  IsFiniteSet(Unanswered(st, t))
<1>1. PICK log, all : /\ log = st.log
                      /\ all = [i \in InTurn(st, t, "assistant") |-> log[i].calls]
  OBVIOUS
<1>2. /\ DOMAIN log = 1 .. Len(log) /\ Len(log) \in Nat
      /\ \A i \in DOMAIN log : IsFiniteSet(log[i].calls)
  BY <1>1, SoundLog DEF Sound, LogSound, EventTyped
<1>3. DOMAIN all \subseteq 1 .. Len(log)
  BY <1>1, <1>2 DEF InTurn
<1>4. IsFiniteSet(DOMAIN all)
  <2>1. IsFiniteSet(1 .. Len(log)) /\ DOMAIN all \in SUBSET (1 .. Len(log))
    BY <1>2, <1>3, FS_Interval
  <2>2. QED
    BY <2>1, FS_Subset
<1>5. PICK T : T = {all[x] : x \in DOMAIN all}
  OBVIOUS
<1>6. IsFiniteSet(T)
  BY <1>4, <1>5, ImageFinite
<1>7. \A c \in T : IsFiniteSet(c)
  BY <1>1, <1>2, <1>3, <1>5
<1>8. CallsOf(st, t, "assistant") = UNION T
  BY <1>1, <1>5 DEF CallsOf
<1>9. IsFiniteSet(UNION T)
  BY <1>6, <1>7, FS_UNION
<1>10. Unanswered(st, t) \in SUBSET (UNION T)
  BY <1>8 DEF Unanswered
<1>11. QED
  BY <1>9, <1>10, FS_Subset

LEMMA ResultsFit ==
  ASSUME NEW st, Sound(st), SteeringsApart, NEW t \in DOMAIN st.turns,
         NEW ms, ms = ResultsFor(t, Unanswered(st, t))
  PROVE  /\ Fits(st, ms)
         /\ \A i \in DOMAIN ms :
              /\ ms[i].text \notin Steerings
              /\ \A c \in ms[i].calls : \E j \in DOMAIN st.log :
                   st.log[j].turn = ms[i].turn /\ c \in st.log[j].calls
<1>1. PICK calls : calls = Unanswered(st, t)
  OBVIOUS
<1>2. /\ IsSeq(ms)
      /\ \A i \in DOMAIN ms : \E c \in calls : ms[i] = ToolResult(t, c)
      /\ \A i, j \in DOMAIN ms : ms[i].calls = ms[j].calls => i = j
  BY <1>1, UnansweredFinite, ResultsAre
<1>3. \A c : /\ ToolResult(t, c).kind = "tool" /\ ToolResult(t, c).turn = t
             /\ ToolResult(t, c).text = "said" /\ ToolResult(t, c).calls = {c}
  BY DEF ToolResult, Event
<1>4. "said" \notin Steerings
  BY DEF SteeringsApart
<1>5. \A i \in DOMAIN ms :
        /\ ms[i].kind = "tool" /\ ms[i].turn = t /\ ms[i].text \notin Steerings
        /\ \E c \in calls : ms[i].calls = {c}
  BY <1>2, <1>3, <1>4
<1>6. t \in Nat \ {0}
  BY SoundLog
<1>7. \A i \in DOMAIN ms : EventTyped(ms[i])
  <2>1. \A c : IsFiniteSet({c})
    BY FS_Singleton
  <2>2. \A i \in DOMAIN ms : IsFiniteSet(ms[i].calls)
    BY <1>5, <2>1
  <2>3. QED
    BY <1>5, <1>6, <2>2 DEF EventTyped
<1>8. Once(ms)
  BY <1>2, <1>5 DEF Once, SameResult, SameSteering
<1>9. ASSUME NEW i \in DOMAIN st.log, NEW j \in DOMAIN ms,
             SameResult(st.log[i], ms[j]) \/ SameSteering(st.log[i], ms[j])
      PROVE  FALSE
  <2>1. SameResult(st.log[i], ms[j])
    BY <1>5, <1>9 DEF SameSteering
  <2>2. PICK c \in calls : ms[j].calls = {c}
    BY <1>5
  <2>3. i \in InTurn(st, t, "tool") /\ c \in st.log[i].calls
    BY <1>5, <2>1, <2>2 DEF SameResult, InTurn
  <2>4. c \in CallsOf(st, t, "tool")
    BY <2>3 DEF CallsOf
  <2>5. QED
    BY <1>1, <2>4 DEF Unanswered
<1>10. Fits(st, ms)
  BY <1>2, <1>5, <1>7, <1>8, <1>9 DEF Fits
<1>11. \A c \in calls : \E j \in DOMAIN st.log :
         st.log[j].turn = t /\ c \in st.log[j].calls
  BY <1>1 DEF Unanswered, CallsOf, InTurn
<1>12. QED
  BY <1>5, <1>10, <1>11

LEMMA EndTurnRepairs ==
  ASSUME NEW st, NEW t, NEW reason \in Reason, Sound(st), t \in DOMAIN st.turns,
         SteeringsApart
  PROVE  Repairs(st, EndTurn(st, t, reason))
<1>1. PICK e, ms, new : /\ e = Event("turnEnd", t, reason, {})
                        /\ ms = <<e>> /\ new = EndTurn(st, t, reason)
  OBVIOUS
<1>2. Grows(st, ms, new)
  BY <1>1, EndTurnGrows
<1>3. DOMAIN ms = {1} /\ ms[1] = e /\ IsSeq(ms)
  BY <1>1, SingleSeq
<1>4. e.text \notin Steerings /\ e.calls = {}
  BY <1>1 DEF Event, SteeringsApart
<1>5. Repairs(st, new)
  BY <1>2, <1>3, <1>4, GrowthRepairs DEF Grows
<1>6. QED
  BY <1>1, <1>5

LEMMA RepairedSound ==
  ASSUME NEW st, Sound(st), SteeringsApart
  PROVE  /\ Sound(Repaired(st)) /\ AllEnded(Repaired(st))
         /\ Repairs(st, Repaired(st))
         /\ DOMAIN Repaired(st).turns = DOMAIN st.turns
<1>1. PICK t : t = Len(st.turns)
  OBVIOUS
<1>2. t \in Nat /\ DOMAIN st.turns = 1 .. t
  BY <1>1, SoundLog
<1>3. \A u \in 1 .. t : u < t => st.turns[u] # "open"
  BY <1>1, <1>2 DEF Sound, RowsSound
<1>4. CASE t = 0 \/ st.turns[t] # "open"
  <2>1. Repaired(st) = st
    BY <1>1, <1>4 DEF Repaired
  <2>2. AllEnded(st)
    BY <1>2, <1>3, <1>4 DEF AllEnded
  <2>3. Repairs(st, st)
    BY DEF Repairs
  <2>4. QED
    BY <2>1, <2>2, <2>3
<1>5. CASE t # 0 /\ st.turns[t] = "open"
  <2>1. PICK ms, said, new : /\ ms = ResultsFor(t, Unanswered(st, t))
                             /\ said = Say(st, ms)
                             /\ new = EndTurn(said, t, "interrupted")
    OBVIOUS
  <2>2. Repaired(st) = new
    BY <1>1, <1>5, <2>1 DEF Repaired
  <2>3. t \in DOMAIN st.turns /\ "interrupted" \in Reason
    BY <1>2, <1>5 DEF Reason
  <2>4. /\ Fits(st, ms)
        /\ \A i \in DOMAIN ms :
             /\ ms[i].text \notin Steerings
             /\ \A c \in ms[i].calls : \E j \in DOMAIN st.log :
                  st.log[j].turn = ms[i].turn /\ c \in st.log[j].calls
    BY <2>1, <2>3, ResultsFit
  <2>5. Grows(st, ms, said) /\ said.turns = st.turns
    BY <2>1, <2>4, SayGrows DEF Fits
  <2>6. Sound(said)
    BY <2>4, <2>5, Grown
  <2>7. Repairs(st, said)
    BY <2>4, <2>5, GrowthRepairs DEF Fits, Grows
  <2>8. t \in DOMAIN said.turns
    BY <2>3, <2>5
  <2>9. Sound(new) /\ Repairs(said, new)
    BY <2>1, <2>3, <2>6, <2>8, EndTurnSound, EndTurnRepairs
  <2>10. new.turns = [said.turns EXCEPT ![t] = "interrupted"]
    <3>1. \A reason \in Reason :
            EndTurn(said, t, reason).turns = [said.turns EXCEPT ![t] = reason]
      BY <2>6, <2>8, EndTurnGrows
    <3>2. QED
      BY <2>1, <2>3, <3>1
  <2>11. DOMAIN new.turns = DOMAIN st.turns /\ AllEnded(new)
    BY <1>2, <1>3, <2>5, <2>10 DEF AllEnded
  <2>12. Repairs(st, new)
    BY <2>7, <2>9, RepairsTwice
  <2>13. QED
    BY <2>2, <2>9, <2>11, <2>12
<1>6. QED
  BY <1>4, <1>5

-----------------------------------------------------------------------------
(* Logs that are copied in part, and the rows that are made from a log.     *)

LEMMA SubSeqFromOne ==
  ASSUME NEW log, IsSeq(log), NEW n \in 0 .. Len(log), Len(log) \in Nat,
         NEW part, IsSeq(part),
         Len(part) = IF 1 <= n THEN n - 1 + 1 ELSE 0,
         \A i \in 1 .. n - 1 + 1 : part[i] = log[1 + i - 1]
  PROVE  DOMAIN part = 1 .. n /\ \A i \in 1 .. n : part[i] = log[i]
<1>1. n \in Nat /\ Len(part) = n
  OBVIOUS
<1>2. DOMAIN part = 1 .. n
  BY <1>1, SeqFacts
<1>3. QED
  BY <1>1, <1>2

LEMMA PrefixInOrder ==
  ASSUME NEW log, TurnsInOrder(log), NEW n \in Nat, NEW part,
         DOMAIN part = 1 .. n,
         \A i \in 1 .. n : i \in DOMAIN log /\ part[i] = log[i]
  PROVE  TurnsInOrder(part)
<1>1. SUFFICES ASSUME NEW i \in DOMAIN part
      PROVE  /\ \A t \in 1 .. part[i].turn : \E j \in 1 .. i : Begins(part, j, t)
             /\ part[i].kind = "turnStart" =>
                  \A t \in 1 .. part[i].turn - 1 : \E j \in 1 .. i : Ends(part, j, t)
  BY DEF TurnsInOrder
<1>2. part[i] = log[i] /\ \A j \in 1 .. i : part[j] = log[j]
  <2>1. n \in Nat /\ i \in 1 .. n
    BY <1>1
  <2>2. \A j \in 1 .. i : j \in 1 .. n
    BY <2>1
  <2>3. QED
    BY <2>1, <2>2
<1>3. /\ \A t \in 1 .. log[i].turn : \E j \in 1 .. i : Begins(log, j, t)
      /\ log[i].kind = "turnStart" =>
           \A t \in 1 .. log[i].turn - 1 : \E j \in 1 .. i : Ends(log, j, t)
  BY <1>1 DEF TurnsInOrder
<1>4. \A t : \A j \in 1 .. i :
        /\ Begins(log, j, t) => Begins(part, j, t)
        /\ Ends(log, j, t) => Ends(part, j, t)
  BY <1>2 DEF Begins, Ends
<1>5. part[i] = log[i]
  BY <1>2
<1>6. QED
  BY <1>3, <1>4, <1>5

LEMMA PrefixSound ==
  ASSUME NEW log, LogSound(log), NEW n \in Nat, n + 1 \in DOMAIN log,
         NEW part, part = SubSeq(log, 1, n)
  PROVE  /\ LogSound(part)
         /\ \A i \in DOMAIN part : i \in DOMAIN log /\ part[i] = log[i]
<1>1. IsSeq(log) /\ Len(log) \in Nat /\ DOMAIN log = 1 .. Len(log)
  BY SeqFacts DEF LogSound
<1>2. n \in 0 .. Len(log) /\ 1 \in Nat \ {0}
  BY <1>1
<1>3. /\ IsSeq(part)
      /\ Len(part) = IF 1 <= n THEN n - 1 + 1 ELSE 0
      /\ \A i \in 1 .. n - 1 + 1 : part[i] = log[1 + i - 1]
  BY <1>1, <1>2, SubSeqSeq
<1>4. /\ IsSeq(part) /\ DOMAIN part = 1 .. n
      /\ \A i \in 1 .. n : part[i] = log[i]
  BY <1>1, <1>2, <1>3, SubSeqFromOne
<1>5. \A i \in DOMAIN part : i \in DOMAIN log /\ part[i] = log[i]
  BY <1>1, <1>2, <1>4
<1>6. TurnsInOrder(part)
  BY <1>4, <1>5, PrefixInOrder DEF LogSound
<1>7. Once(part)
  BY <1>5 DEF LogSound, Once
<1>8. QED
  BY <1>4, <1>5, <1>6, <1>7 DEF LogSound

LEMMA LastOf ==
  ASSUME NEW n \in Nat, NEW S \in SUBSET (1 .. n), S # {}
  PROVE  \E i \in S : \A j \in S : j <= i
<1>1. PICK T : T = {k \in Nat : n - k \in S}
  OBVIOUS
<1>2. T \subseteq Nat /\ T # {}
  <2>1. PICK i \in S : TRUE
    OBVIOUS
  <2>2. i \in 1 .. n
    BY <2>1
  <2>3. n - i \in Nat /\ n - (n - i) = i
    BY <2>2
  <2>4. n - i \in T
    BY <1>1, <2>1, <2>3
  <2>5. QED
    BY <1>1, <2>4
<1>3. PICK x \in T : \A y \in T : ~ (<<y, x>> \in OpToRel(<, Nat))
  BY <1>2, WFMin, NatLessThanWellFounded
<1>4. \A y \in T : ~ (y < x)
  BY <1>2, <1>3 DEF OpToRel
<1>5. n - x \in S /\ x \in Nat
  BY <1>1
<1>6. ASSUME NEW j \in S
      PROVE  j <= n - x
  <2>1. n - j \in Nat /\ n - (n - j) = j
    OBVIOUS
  <2>2. n - j \in T
    BY <1>1, <2>1
  <2>3. QED
    BY <1>4, <1>5, <2>1, <2>2
<1>7. QED
  BY <1>5, <1>6

(* Turns that begin in order are numbered from 1, without a gap.            *)
LEMMA NumberedFromOne ==
  ASSUME NEW S, IsFiniteSet(S), S \subseteq Nat \ {0},
         \A v \in S : \A u \in 1 .. v : u \in S
  PROVE  S = 1 .. Cardinality(S) /\ Cardinality(S) \in Nat
<1>1. PICK n : n = Cardinality(S)
  OBVIOUS
<1>2. n \in Nat
  BY <1>1, FS_CardinalityType
<1>3. ASSUME NEW v \in S
      PROVE  v <= n
  <2>1. v \in Nat /\ 1 .. v \in SUBSET S
    BY <1>3
  <2>2. Cardinality(1 .. v) = v
    BY <2>1, FS_Interval
  <2>3. Cardinality(1 .. v) <= n
    BY <1>1, <2>1, FS_Subset
  <2>4. QED
    BY <2>2, <2>3
<1>4. ASSUME NEW u \in 1 .. n, u \notin S
      PROVE  FALSE
  <2>1. S \in SUBSET (1 .. u - 1)
    <3>1. \A v \in S : ~ (u <= v)
      BY <1>4
    <3>2. QED
      BY <1>2, <3>1
  <2>2. u \in Nat /\ u - 1 \in Nat
    BY <1>2
  <2>3. IsFiniteSet(1 .. u - 1) /\ Cardinality(1 .. u - 1) = u - 1
    BY <2>2, FS_Interval
  <2>4. n <= u - 1
    <3>1. PICK U : U = 1 .. u - 1
      OBVIOUS
    <3>2. IsFiniteSet(U) /\ S \in SUBSET U /\ Cardinality(U) = u - 1
      BY <2>1, <2>3, <3>1
    <3>3. QED
      BY <1>1, <3>2, FS_Subset
  <2>5. QED
    BY <1>2, <2>4
<1>5. S = 1 .. n
  <2>1. \A v \in S : v \in 1 .. n
    BY <1>2, <1>3
  <2>2. \A u \in 1 .. n : u \in S
    BY <1>4
  <2>3. QED
    BY <2>1, <2>2
<1>6. QED
  BY <1>1, <1>2, <1>5

LEMMA ProjectedSound ==
  ASSUME NEW log, LogSound(log)
  PROVE  Sound(Projected(log)) /\ Projected(log).log = log
<1>1. PICK n : n = Len(log)
  OBVIOUS
<1>2. n \in Nat /\ DOMAIN log = 1 .. n
  BY <1>1, SeqFacts DEF LogSound
<1>3. PICK starts, Started :
        /\ starts = {j \in DOMAIN log : log[j].kind = "turnStart"}
        /\ Started = {log[i].turn : i \in starts}
  OBVIOUS
<1>4. IsFiniteSet(Started)
  <2>1. PICK f : f = [i \in starts |-> log[i].turn]
    OBVIOUS
  <2>2. starts \in SUBSET (1 .. n) /\ IsFiniteSet(1 .. n)
    BY <1>2, <1>3, FS_Interval
  <2>3. IsFiniteSet(DOMAIN f)
    BY <2>1, <2>2, FS_Subset
  <2>4. Started = {f[x] : x \in DOMAIN f}
    BY <1>3, <2>1
  <2>5. QED
    BY <2>3, <2>4, ImageFinite
<1>5. \A i \in DOMAIN log : log[i].turn \in Nat \ {0}
  BY DEF LogSound, EventTyped
<1>6. \A t : \A i \in DOMAIN log : Begins(log, i, t) => t \in Started
  BY <1>3 DEF Begins
<1>7. \A i \in DOMAIN log : \A t \in 1 .. log[i].turn : t \in Started
  <2>1. \A i \in DOMAIN log : \A t \in 1 .. log[i].turn :
          \E j \in 1 .. i : Begins(log, j, t)
    BY DEF LogSound, TurnsInOrder
  <2>2. \A i \in DOMAIN log : \A j \in 1 .. i : j \in DOMAIN log
    BY <1>2
  <2>3. QED
    BY <1>6, <2>1, <2>2
<1>8. PICK k : k = Cardinality(Started)
  OBVIOUS
<1>9. Started = 1 .. k /\ k \in Nat
  <2>1. Started \subseteq Nat \ {0}
    BY <1>3, <1>5
  <2>2. \A v \in Started : \A u \in 1 .. v : u \in Started
    BY <1>3, <1>7
  <2>3. QED
    BY <1>4, <1>8, <2>1, <2>2, NumberedFromOne
<1>10. PICK turns : turns = TurnsOf(log)
  OBVIOUS
<1>11. turns = [t \in 1 .. k |->
         IF {i \in DOMAIN log : Ends(log, i, t)} = {} THEN "open"
         ELSE log[CHOOSE l \in {i \in DOMAIN log : Ends(log, i, t)} :
                    \A j \in {i \in DOMAIN log : Ends(log, i, t)} : j <= l].text]
  BY <1>3, <1>8, <1>10 DEF TurnsOf, Ends
<1>12. ASSUME NEW t \in 1 .. k
       PROVE  \/ turns[t] = "open" /\ \A i \in DOMAIN log : ~Ends(log, i, t)
              \/ turns[t] \in Reason /\ \E i \in DOMAIN log : Ends(log, i, t)
  <2>1. PICK S : S = {i \in DOMAIN log : Ends(log, i, t)}
    OBVIOUS
  <2>2. turns[t] = IF S = {} THEN "open"
                   ELSE log[CHOOSE i \in S : \A j \in S : j <= i].text
    BY <1>11, <2>1
  <2>3. CASE S = {}
    BY <2>1, <2>2, <2>3
  <2>4. CASE S # {}
    <3>1. PICK last : last = CHOOSE i \in S : \A j \in S : j <= i
      OBVIOUS
    <3>2. \E i \in S : \A j \in S : j <= i
      BY <1>2, <2>1, <2>4, LastOf
    <3>3. last \in S
      BY <3>1, <3>2
    <3>4. log[last].text \in Reason
      BY <2>1, <3>3 DEF Ends, LogSound, EventTyped
    <3>5. QED
      BY <2>1, <2>2, <2>4, <3>1, <3>3, <3>4
  <2>5. QED
    BY <2>3, <2>4
<1>13. /\ DOMAIN turns = 1 .. k /\ Len(turns) = k
       /\ turns \in Seq(Reason \cup {"open"})
  <2>1. PICK V : V = Reason \cup {"open"}
    OBVIOUS
  <2>2. DOMAIN turns = 1 .. k /\ \A t \in 1 .. k : turns[t] \in V
    BY <1>11, <1>12, <2>1
  <2>3. turns = [t \in 1 .. k |-> turns[t]]
    BY <1>11, <2>2
  <2>4. turns \in [1 .. k -> V]
    BY <2>2, <2>3
  <2>5. turns \in Seq(V)
    BY <1>9, <2>4
  <2>6. QED
    BY <1>9, <2>1, <2>2, <2>5
<1>14. \A t \in 1 .. k : \E i \in DOMAIN log : Begins(log, i, t)
  BY <1>3, <1>9 DEF Begins
<1>15. ASSUME NEW t \in 1 .. k, t < k
       PROVE  \E i \in DOMAIN log : Ends(log, i, t)
  <2>1. k \in 1 .. k
    BY <1>9, <1>15
  <2>2. PICK i \in DOMAIN log : Begins(log, i, k)
    BY <1>14, <2>1
  <2>3. log[i].kind = "turnStart" /\ log[i].turn = k
    BY <2>2 DEF Begins
  <2>4. t \in 1 .. log[i].turn - 1
    BY <1>9, <1>15, <2>3
  <2>5. PICK j \in 1 .. i : Ends(log, j, t)
    BY <2>3, <2>4 DEF LogSound, TurnsInOrder
  <2>6. j \in DOMAIN log
    BY <1>2, <2>5
  <2>7. QED
    BY <2>5, <2>6
<1>16. \A i \in DOMAIN log : log[i].turn <= k
  <2>1. \A i \in DOMAIN log : log[i].turn \in 1 .. log[i].turn
    BY <1>5
  <2>2. QED
    BY <1>7, <1>9, <2>1
<1>17. SurfaceOf(log) \subseteq DOMAIN log
  BY DEF SurfaceOf
<1>18. PICK st : st = Projected(log)
  OBVIOUS
<1>19. /\ DOMAIN st = {"log", "surface", "turns"}
       /\ st.log = log /\ st.surface = SurfaceOf(log) /\ st.turns = turns
  BY <1>10, <1>18 DEF Projected
<1>20. "open" \notin Reason
  BY DEF Reason
<1>21. RowsSound(st)
  <2>1. ASSUME NEW t \in DOMAIN st.turns
        PROVE  /\ \E i \in DOMAIN st.log : Begins(st.log, i, t)
               /\ st.turns[t] # "open" => \E i \in DOMAIN st.log : Ends(st.log, i, t)
               /\ t < Len(st.turns) => st.turns[t] # "open"
    BY <1>12, <1>13, <1>14, <1>15, <1>19, <1>20, <2>1
  <2>2. QED
    BY <1>13, <1>16, <1>17, <1>19, <2>1 DEF RowsSound
<1>22. QED
  BY <1>18, <1>19, <1>21 DEF Sound

(* fork_session.                                                            *)
LEMMA ForkedSound ==
  ASSUME NEW st, Sound(st), NEW at \in DOMAIN st.log
  PROVE  /\ Sound(Forked(st, at))
         /\ \A i \in DOMAIN Forked(st, at).log :
              i \in DOMAIN st.log /\ Forked(st, at).log[i] = st.log[i]
<1>1. PICK log, n : log = st.log /\ n = at - 1
  OBVIOUS
<1>2. n \in Nat /\ n + 1 \in DOMAIN log
  BY <1>1, SoundLog
<1>3. PICK part : part = SubSeq(log, 1, n)
  OBVIOUS
<1>4. Forked(st, at) = Projected(part)
  BY <1>1, <1>3, Zenon DEF Forked
<1>5. /\ LogSound(part)
      /\ \A i \in DOMAIN part : i \in DOMAIN log /\ part[i] = log[i]
  <2>1. LogSound(log)
    BY <1>1 DEF Sound
  <2>2. QED
    BY <1>2, <1>3, <2>1, PrefixSound, Zenon
<1>6. Sound(Projected(part)) /\ Projected(part).log = part
  BY <1>5, ProjectedSound
<1>7. QED
  BY <1>1, <1>4, <1>5, <1>6

-----------------------------------------------------------------------------
(* What a run's turn has in its session's log, as it goes on.               *)

LEMMA NextStepTyped ==
  ASSUME NEW r \in Runs, NEW call, RunTyped(r, call)
  PROVE  NextStep(call) \in Nat /\ call.step \in Nat /\ MaxSteps[r] \in Nat
<1>1. MaxSteps[r] \in Nat
  BY ConstantsAssumption
<1>2. call.step \in Nat
  BY <1>1 DEF RunTyped
<1>3. QED
  BY <1>1, <1>2 DEF NextStep

LEMMA LoggedStill ==
  ASSUME NEW st, NEW ms, NEW new, Sound(st), IsSeq(ms), Grows(st, ms, new),
         NEW call, NEW after, after.turn = call.turn, RunLogged(call, st),
         NextStep(call) \in Nat, NextStep(after) \in Nat,
         NextStep(call) <= NextStep(after),
         \A i \in DOMAIN ms : ms[i].turn = call.turn =>
           \A c \in ms[i].calls : c[2] \in 1 .. NextStep(after) - 1
  PROVE  RunLogged(after, new)
<1>1. PICK log, all : log = st.log /\ all = new.log
  OBVIOUS
<1>2. Joined(log, ms, all)
  BY <1>1, SoundLog, Split DEF Grows
<1>3. 1 .. NextStep(call) - 1 \subseteq 1 .. NextStep(after) - 1
  <2>1. \A p, q \in Nat : p <= q => 1 .. p - 1 \subseteq 1 .. q - 1
    OBVIOUS
  <2>2. QED
    BY <2>1
<1>4. ASSUME NEW i \in DOMAIN all, all[i].turn = call.turn,
             NEW c \in all[i].calls
      PROVE  c[2] \in 1 .. NextStep(after) - 1
  <2>1. CASE i \in DOMAIN log
    <3>1. all[i] = log[i]
      BY <1>2, <2>1 DEF Joined
    <3>2. c[2] \in 1 .. NextStep(call) - 1
      BY <1>1, <1>4, <2>1, <3>1 DEF RunLogged
    <3>3. QED
      BY <1>3, <3>2
  <2>2. ASSUME NEW k \in DOMAIN ms, i = Len(log) + k
        PROVE  c[2] \in 1 .. NextStep(after) - 1
    <3>1. all[i] = ms[k]
      BY <1>2, <2>2 DEF Joined
    <3>2. QED
      BY <1>4, <3>1
  <2>3. QED
    BY <1>2, <1>4, <2>1, <2>2 DEF Joined
<1>5. call.turn \in DOMAIN new.turns
  BY DEF RunLogged, Grows
<1>6. QED
  BY <1>1, <1>4, <1>5 DEF RunLogged

LEMMA RepairsLogged ==
  ASSUME NEW st, NEW new, NEW call, Repairs(st, new), RunLogged(call, st)
  PROVE  RunLogged(call, new)
<1>1. call.turn \in DOMAIN new.turns
  BY DEF RunLogged, Repairs
<1>2. ASSUME NEW i \in DOMAIN new.log, new.log[i].turn = call.turn,
             NEW c \in new.log[i].calls
      PROVE  c[2] \in 1 .. NextStep(call) - 1
  <2>1. \E j \in DOMAIN st.log :
          st.log[j].turn = new.log[i].turn /\ c \in st.log[j].calls
    BY <1>2 DEF Repairs
  <2>2. QED
    BY <1>2, <2>1 DEF RunLogged
<1>3. QED
  BY <1>1, <1>2 DEF RunLogged

LEMMA RepairsSteer ==
  ASSUME NEW st, NEW new, NEW m \in Steerings, Repairs(st, new), InLog(m, new)
  PROVE  InLog(m, st)
  BY DEF Repairs, InLog

LEMMA GrowsSteer ==
  ASSUME NEW st, NEW ms, NEW new, NEW m, Sound(st), IsSeq(ms),
         Grows(st, ms, new)
  PROVE  InLog(m, new) <=> InLog(m, st) \/ \E i \in DOMAIN ms : ms[i].text = m
<1>1. PICK log, all : log = st.log /\ all = new.log
  OBVIOUS
<1>2. Joined(log, ms, all)
  BY <1>1, SoundLog, Split DEF Grows
<1>3. InLog(m, new) => InLog(m, st) \/ \E i \in DOMAIN ms : ms[i].text = m
  <2>1. SUFFICES ASSUME NEW i \in DOMAIN all, all[i].text = m
                 PROVE  InLog(m, st) \/ \E k \in DOMAIN ms : ms[k].text = m
    BY <1>1 DEF InLog
  <2>2. QED
    BY <1>1, <1>2, <2>1 DEF Joined, InLog
<1>4. InLog(m, st) => InLog(m, new)
  BY <1>1, <1>2 DEF Joined, InLog
<1>5. (\E i \in DOMAIN ms : ms[i].text = m) => InLog(m, new)
  BY <1>1, <1>2 DEF Joined, InLog
<1>6. QED
  BY <1>3, <1>4, <1>5

LEMMA NothingFits ==
  ASSUME NEW st, Sound(st), NEW ms, ms = <<>>
  PROVE  Fits(st, ms) /\ Grows(st, ms, st) /\ IsSeq(ms) /\ DOMAIN ms = {}
<1>1. IsSeq(ms) /\ DOMAIN ms = {}
  BY EmptyIsSeq
<1>2. st.log \o ms = st.log
  BY SoundLog, ConcatEmpty
<1>3. Fits(st, ms)
  BY <1>1 DEF Fits, Once
<1>4. Grows(st, ms, st)
  BY <1>2, SoundLog DEF Grows
<1>5. QED
  BY <1>1, <1>3, <1>4

-----------------------------------------------------------------------------
(* settle_step: what is written of a step.                                  *)

(* What a step may still add to the turn: a reply, and results of its own   *)
(* calls, each once and none that the turn has.                             *)
MoreFits(call, more) ==
  /\ IsSeq(more)
  /\ \A i \in DOMAIN more :
       /\ more[i].kind \in {"assistant", "tool"}
       /\ more[i].turn = call.turn /\ more[i].text \notin Steerings
       /\ IsFiniteSet(more[i].calls)
       /\ more[i].kind = "tool" => more[i].calls # {}
       /\ \A c \in more[i].calls : c[2] = call.step
  /\ \A i, j \in DOMAIN more : SameResult(more[i], more[j]) => i = j
  /\ \A i \in Unlogged(call), j \in DOMAIN more :
       ~SameResult(call.fresh[i], more[j])

Tail2(f, k) == SubSeq(f, k + 1, Len(f))

LEMMA Tail2Is ==
  ASSUME NEW f, IsSeq(f), NEW k \in 0 .. Len(f)
  PROVE  /\ IsSeq(Tail2(f, k)) /\ Len(Tail2(f, k)) = Len(f) - k
         /\ DOMAIN Tail2(f, k) = 1 .. Len(f) - k
         /\ \A i \in 1 .. Len(f) - k : Tail2(f, k)[i] = f[k + i]
<1>1. PICK n : n = Len(f)
  OBVIOUS
<1>2. n \in Nat /\ k \in 0 .. n /\ k + 1 \in Nat \ {0} /\ n \in 0 .. n
  BY <1>1, SeqFacts
<1>3. PICK t : t = Tail2(f, k)
  OBVIOUS
<1>4. /\ IsSeq(t) /\ Len(t) = IF k + 1 <= n THEN n - (k + 1) + 1 ELSE 0
      /\ DOMAIN t = 1 .. Len(t)
      /\ \A i \in 1 .. n - (k + 1) + 1 : t[i] = f[k + 1 + i - 1]
  BY <1>1, <1>2, <1>3, SubSeqSeq DEF Tail2
<1>5. Len(t) = n - k /\ n - (k + 1) + 1 = n - k
  BY <1>2, <1>4
<1>6. \A i \in 1 .. n - k : k + 1 + i - 1 = k + i
  BY <1>2
<1>7. QED
  BY <1>1, <1>3, <1>4, <1>5, <1>6

LEMMA TailSplits ==
  ASSUME NEW f, IsSeq(f), NEW k \in 0 .. Len(f), NEW more, IsSeq(more)
  PROVE  Tail2(f \o more, k) = Tail2(f, k) \o more
<1>1. PICK n, m : n = Len(f) /\ m = Len(more)
  OBVIOUS
<1>2. PICK g, t, u, v : /\ g = f \o more /\ t = Tail2(g, k)
                        /\ u = Tail2(f, k) /\ v = u \o more
  OBVIOUS
<1>3. n \in Nat /\ m \in Nat /\ k \in 0 .. n
  BY <1>1, SeqFacts
<1>4. /\ IsSeq(g) /\ Len(g) = n + m
      /\ \A i \in 1 .. n : g[i] = f[i]
      /\ \A i \in 1 .. m : g[n + i] = more[i]
  BY <1>1, <1>2, ConcatSeq
<1>5. /\ IsSeq(u) /\ Len(u) = n - k
      /\ \A i \in 1 .. n - k : u[i] = f[k + i]
  BY <1>1, <1>2, Tail2Is
<1>6. /\ IsSeq(t) /\ Len(t) = n + m - k
      /\ \A i \in 1 .. n + m - k : t[i] = g[k + i]
  <2>1. k \in 0 .. Len(g)
    BY <1>3, <1>4
  <2>2. /\ IsSeq(Tail2(g, k)) /\ Len(Tail2(g, k)) = Len(g) - k
        /\ \A i \in 1 .. Len(g) - k : Tail2(g, k)[i] = g[k + i]
    BY <1>4, <2>1, Tail2Is, Zenon
  <2>3. Len(g) - k = n + m - k
    BY <1>3, <1>4
  <2>4. QED
    BY <1>2, <2>2, <2>3
<1>7. /\ IsSeq(v) /\ Len(v) = n - k + m
      /\ \A i \in 1 .. n - k : v[i] = u[i]
      /\ \A i \in 1 .. m : v[n - k + i] = more[i]
  <2>1. /\ IsSeq(v) /\ Len(v) = Len(u) + Len(more)
        /\ \A i \in 1 .. Len(u) : v[i] = u[i]
        /\ \A i \in 1 .. Len(more) : v[Len(u) + i] = more[i]
    <3>1. IsSeq(u)
      BY <1>5
    <3>2. QED
      BY <1>2, <3>1, ConcatSeq
  <2>2. Len(u) = n - k
    BY <1>5
  <2>3. QED
    BY <1>1, <2>1, <2>2
<1>8. ASSUME NEW i \in 1 .. n + m - k
      PROVE  t[i] = v[i]
  <2>1. CASE i \in 1 .. n - k
    BY <1>3, <1>4, <1>5, <1>6, <1>7, <2>1
  <2>2. CASE i \notin 1 .. n - k
    <3>1. PICK j : j = i - (n - k)
      OBVIOUS
    <3>2. j \in 1 .. m /\ i = n - k + j /\ k + i = n + j
      BY <1>3, <1>8, <2>2, <3>1
    <3>3. QED
      BY <1>4, <1>6, <1>7, <1>8, <3>2
  <2>3. QED
    BY <2>1, <2>2
<1>9. PICK S : t \in Seq(S)
  BY <1>6 DEF IsSeq
<1>10. PICK T : v \in Seq(T)
  BY <1>7 DEF IsSeq
<1>11. t \in Seq(S \cup T) /\ v \in Seq(S \cup T)
  BY <1>9, <1>10, SeqMonotonic
<1>12. Len(t) = n + m - k /\ Len(v) = Len(t)
  BY <1>3, <1>6, <1>7
<1>13. t = v
  BY <1>8, <1>11, <1>12, SeqEqual
<1>14. QED
  BY <1>2, <1>13

LEMMA SettledFits ==
  ASSUME NEW r \in Runs, NEW call, NEW st, NEW more, SteeringsApart,
         Sound(st), RunTyped(r, call), RunLogged(call, st), RunUnlogged(call),
         IsWorking(call), MoreFits(call, more),
         \A m \in Steerings : InHand(m, call) => ~InLog(m, st),
         NEW ms, ms = Tail2(call.fresh \o more, call.mark)
  PROVE  /\ Fits(st, ms)
         /\ \A i \in DOMAIN ms :
              /\ ms[i].turn = call.turn
              /\ \A c \in ms[i].calls : c[2] = call.step
              /\ ms[i].text \in Steerings => InHand(ms[i].text, call)
<1>1. PICK f, k : f = call.fresh /\ k = call.mark
  OBVIOUS
<1>2. IsSeq(f) /\ Len(f) \in Nat /\ k \in 0 .. Len(f) /\ DOMAIN f = 1 .. Len(f)
  BY <1>1, SeqFacts DEF RunTyped
<1>3. PICK u : u = Tail2(f, k)
  OBVIOUS
<1>4. /\ IsSeq(u) /\ DOMAIN u = 1 .. Len(f) - k
      /\ \A i \in 1 .. Len(f) - k : u[i] = f[k + i]
  <2>1. /\ IsSeq(Tail2(f, k)) /\ DOMAIN Tail2(f, k) = 1 .. Len(f) - k
        /\ \A i \in 1 .. Len(f) - k : Tail2(f, k)[i] = f[k + i]
    BY <1>2, Tail2Is, Zenon
  <2>2. QED
    BY <1>3, <2>1
<1>5. IsSeq(more) /\ ms = u \o more
  <2>1. IsSeq(more) /\ ms = Tail2(f \o more, k)
    BY <1>1 DEF MoreFits
  <2>2. Tail2(f \o more, k) = Tail2(f, k) \o more
    BY <1>2, <2>1, TailSplits, Zenon
  <2>3. QED
    BY <1>3, <2>1, <2>2
<1>6. Joined(u, more, ms)
  BY <1>4, <1>5, Split
<1>7. \A i \in DOMAIN u : k + i \in Unlogged(call) /\ k + i \in DOMAIN f
  BY <1>1, <1>2, <1>4 DEF Unlogged
<1>8. call.turn \in DOMAIN st.turns /\ call.turn \in Nat \ {0}
  BY SoundLog DEF RunLogged
<1>9. ASSUME NEW i \in DOMAIN u
      PROVE  /\ u[i].kind \in {"user", "assistant", "tool"}
             /\ u[i].turn = call.turn /\ IsFiniteSet(u[i].calls)
             /\ u[i].kind = "tool" => u[i].calls # {}
             /\ \A c \in u[i].calls : c[2] = call.step
             /\ u[i].text \in Steerings => InHand(u[i].text, call)
  <2>1. u[i] = call.fresh[k + i] /\ k + i \in Unlogged(call)
        /\ k + i \in DOMAIN call.fresh
    BY <1>1, <1>4, <1>7, <1>9
  <2>2. QED
    BY <2>1 DEF RunTyped, RunUnlogged, InHand
<1>10. ASSUME NEW i \in DOMAIN more
       PROVE  /\ more[i].kind \in {"user", "assistant", "tool"}
              /\ more[i].turn = call.turn /\ IsFiniteSet(more[i].calls)
              /\ more[i].kind = "tool" => more[i].calls # {}
              /\ \A c \in more[i].calls : c[2] = call.step
              /\ more[i].text \notin Steerings
  BY <1>10 DEF MoreFits
<1>11. ASSUME NEW i \in DOMAIN ms
       PROVE  /\ ms[i].kind \in {"user", "assistant", "tool"}
              /\ ms[i].turn = call.turn /\ IsFiniteSet(ms[i].calls)
              /\ ms[i].kind = "tool" => ms[i].calls # {}
              /\ \A c \in ms[i].calls : c[2] = call.step
              /\ ms[i].text \in Steerings => InHand(ms[i].text, call)
  BY <1>6, <1>9, <1>10, <1>11 DEF Joined
<1>12. Once(ms)
  <2>1. Once(u)
    <3>1. \A i, j \in Unlogged(call) :
            \/ SameResult(call.fresh[i], call.fresh[j])
            \/ SameSteering(call.fresh[i], call.fresh[j])
            => i = j
      BY DEF RunUnlogged
    <3>2. \A i, j \in DOMAIN u : k + i = k + j => i = j
      BY <1>2, <1>4
    <3>3. \A i \in DOMAIN u : u[i] = call.fresh[k + i]
      BY <1>1, <1>4
    <3>4. QED
      BY <1>7, <3>1, <3>2, <3>3 DEF Once
  <2>2. Once(more)
    BY DEF Once, MoreFits, SameSteering
  <2>3. \A i \in DOMAIN u, j \in DOMAIN more : ~SameResult(u[i], more[j])
    BY <1>1, <1>4, <1>7 DEF MoreFits
  <2>4. \A i \in DOMAIN u, j \in DOMAIN more : ~SameSteering(u[i], more[j])
    BY <1>10 DEF SameSteering
  <2>5. QED
    BY <1>4, <1>5, <2>1, <2>2, <2>3, <2>4, GrownOnce
<1>13. ASSUME NEW i \in DOMAIN st.log, NEW j \in DOMAIN ms,
              SameResult(st.log[i], ms[j])
       PROVE  FALSE
  <2>1. /\ st.log[i].turn = call.turn /\ st.log[i].calls = ms[j].calls
        /\ ms[j].kind = "tool"
    BY <1>11, <1>13 DEF SameResult
  <2>2. NextStep(call) = call.step
    BY DEF NextStep
  <2>3. \A c \in ms[j].calls : c[2] \in 1 .. call.step - 1 /\ c[2] = call.step
    BY <1>11, <2>1, <2>2 DEF RunLogged
  <2>4. call.step \in Nat
    BY NextStepTyped
  <2>5. ms[j].calls = {}
    BY <2>3, <2>4
  <2>6. QED
    BY <1>11, <2>1, <2>5
<1>14. ASSUME NEW i \in DOMAIN st.log, NEW j \in DOMAIN ms,
              SameSteering(st.log[i], ms[j])
       PROVE  FALSE
  BY <1>11, <1>14 DEF SameSteering, InLog
<1>15. \A i \in DOMAIN ms : EventTyped(ms[i]) /\ ms[i].kind # "turnStart"
  BY <1>8, <1>11 DEF EventTyped
<1>16. Fits(st, ms)
  BY <1>6, <1>8, <1>11, <1>12, <1>13, <1>14, <1>15 DEF Fits, Joined
<1>17. QED
  BY <1>11, <1>16

-----------------------------------------------------------------------------
(* One run's step: what it needs to keep the invariant.                     *)

Steps(r, call, s, new) ==
  /\ DOMAIN run' = Runs /\ run'[r] = call
  /\ \A q \in Runs \ {r} : run'[q] = run[q]
  /\ DOMAIN store' = Sessions /\ store'[s] = new
  /\ \A o \in Sessions \ {s} : store'[o] = store[o]
  /\ UNCHANGED sessions

(* The run goes on in its turn, or it is no longer in it.                   *)
GoesOn(r, call, new) ==
  /\ RunTyped(r, call) /\ RunUnlogged(call)
  /\ IsOpen(call) => /\ call.session = run[r].session
                     /\ call.turn = run[r].turn
                     /\ RunLogged(call, new)

LEMMA OpenRun ==
  ASSUME SettledInv, NEW r \in Runs, IsOpen(run[r])
  PROVE  /\ run[r].session \in sessions /\ run[r].session \in Sessions
         /\ Sound(store[run[r].session])
         /\ RunLogged(run[r], store[run[r].session])
         /\ RunTyped(r, run[r]) /\ RunUnlogged(run[r])
  BY DEF SettledInv, Shapes, LogsInv, RunsInv

LEMMA StepKeeps ==
  ASSUME SettledInv, NEW r \in Runs, IsOpen(run[r]),
         NEW call, NEW s, s = run[r].session, NEW ms, NEW new,
         Steps(r, call, s, new), Fits(store[s], ms), Grows(store[s], ms, new),
         \A i \in DOMAIN ms : ms[i].turn = run[r].turn,
         GoesOn(r, call, new)
  PROVE  LogsInv' /\ RunsInv'
<1>1. /\ s \in sessions /\ s \in Sessions /\ Sound(store[s])
      /\ RunLogged(run[r], store[s])
  BY OpenRun
<1>2. Sound(new)
  BY <1>1, Grown
<1>3. LogsInv'
  BY <1>2 DEF LogsInv, Steps, SettledInv
<1>4. IsSeq(ms)
  BY DEF Fits
<1>5. ASSUME NEW q \in Runs \ {r}, IsOpen(run[q])
      PROVE  run[q].session \in sessions
             /\ RunLogged(run[q], store'[run[q].session])
  <2>1. /\ run[q].session \in sessions /\ run[q].session \in Sessions
        /\ RunLogged(run[q], store[run[q].session]) /\ RunTyped(q, run[q])
    BY <1>5, OpenRun
  <2>2. CASE run[q].session # s
    BY <2>1, <2>2 DEF Steps
  <2>3. CASE run[q].session = s
    <3>1. run[q].turn # run[r].turn
      BY <1>5, <2>3 DEF SettledInv, RunsInv
    <3>2. PICK other : other = run[q]
      OBVIOUS
    <3>3. /\ \A i \in DOMAIN ms : ms[i].turn # other.turn
          /\ RunLogged(other, store[s]) /\ RunTyped(q, other)
      BY <2>1, <2>3, <3>1, <3>2
    <3>4. NextStep(other) \in Nat
      BY <3>3, NextStepTyped
    <3>5. RunLogged(other, new)
      BY <1>1, <1>4, <3>3, <3>4, LoggedStill
    <3>6. QED
      BY <2>1, <2>3, <3>2, <3>5 DEF Steps
  <2>4. QED
    BY <2>2, <2>3
<1>6. ASSUME NEW q \in Runs
      PROVE  /\ RunTyped(q, run'[q]) /\ RunUnlogged(run'[q])
             /\ IsOpen(run'[q]) => /\ run'[q].session \in sessions
                                   /\ RunLogged(run'[q], store'[run'[q].session])
  <2>1. CASE q = r
    <3>1. run'[q] = call
      BY <2>1 DEF Steps
    <3>2. RunTyped(q, call) /\ RunUnlogged(call)
      BY <2>1 DEF GoesOn
    <3>3. IsOpen(call) => call.session = s /\ RunLogged(call, new)
      BY DEF GoesOn
    <3>4. store'[s] = new
      BY DEF Steps
    <3>5. QED
      BY <1>1, <3>1, <3>2, <3>3, <3>4
  <2>2. CASE q # r
    <3>1. run'[q] = run[q]
      BY <2>2 DEF Steps
    <3>2. RunTyped(q, run[q]) /\ RunUnlogged(run[q])
      BY DEF SettledInv, RunsInv
    <3>3. QED
      BY <1>5, <2>2, <3>1, <3>2
  <2>3. QED
    BY <2>1, <2>2
<1>7. ASSUME NEW q \in Runs
      PROVE  IsOpen(run'[q]) => /\ IsOpen(run[q])
                                /\ run'[q].session = run[q].session
                                /\ run'[q].turn = run[q].turn
  BY DEF Steps, GoesOn
<1>8. ASSUME NEW p \in Runs, NEW q \in Runs, IsOpen(run'[p]), IsOpen(run'[q]),
             run'[p].session = run'[q].session, run'[p].turn = run'[q].turn
      PROVE  p = q
  BY <1>7, <1>8 DEF SettledInv, RunsInv
<1>9. RunsInv'
  BY <1>6, <1>8 DEF RunsInv, Steps
<1>10. QED
  BY <1>3, <1>9

(* What a step does with the messages that steer: those it writes were in   *)
(* the run's hand, and those that come into its hand were not yet seen.     *)
Steers(r, call, ms) ==
  \A m \in Steerings :
    /\ IsUnseen(m)' => IsUnseen(m)
    /\ (\E i \in DOMAIN ms : ms[i].text = m) =>
         InHand(m, run[r]) /\ ~InHand(m, call)
    /\ InHand(m, call) => InHand(m, run[r]) \/ (IsUnseen(m) /\ ~IsUnseen(m)')

LEMMA StepSteers ==
  ASSUME SettledInv, NEW r \in Runs, NEW call, NEW s \in Sessions, NEW ms,
         NEW new, Steps(r, call, s, new), IsSeq(ms),
         Grows(store[s], ms, new), Steers(r, call, ms)
  PROVE  UnseenIsNowhere' /\ InHandOnce'
<1>1. Sound(store[s])
  BY DEF SettledInv, LogsInv
<1>2. ASSUME NEW m \in Steerings
      PROVE  InLog(m, new) <=> \/ InLog(m, store[s])
                               \/ \E i \in DOMAIN ms : ms[i].text = m
  <2>1. PICK st : st = store[s]
    OBVIOUS
  <2>2. Sound(st) /\ Grows(st, ms, new)
    BY <1>1, <2>1
  <2>3. InLog(m, new) <=> InLog(m, st) \/ \E i \in DOMAIN ms : ms[i].text = m
    BY <2>2, GrowsSteer, Zenon
  <2>4. QED
    BY <2>1, <2>3
<1>3. ASSUME NEW m \in Steerings, NEW o \in Sessions, InLog(m, store'[o])
      PROVE  \/ InLog(m, store[o])
             \/ InHand(m, run[r]) /\ ~InHand(m, call)
  <2>1. CASE o = s
    BY <1>2, <1>3, <2>1 DEF Steps, Steers
  <2>2. CASE o # s
    BY <1>3, <2>2 DEF Steps
  <2>3. QED
    BY <2>1, <2>2
<1>4. ASSUME NEW m \in Steerings, NEW q \in Runs, InHand(m, run'[q])
      PROVE  \/ InHand(m, run[q]) /\ (q = r => InHand(m, call))
             \/ q = r /\ IsUnseen(m) /\ ~IsUnseen(m)' /\ InHand(m, call)
  <2>1. CASE q = r
    <3>1. InHand(m, call)
      BY <1>4, <2>1 DEF Steps
    <3>2. InHand(m, run[r]) \/ (IsUnseen(m) /\ ~IsUnseen(m)')
      BY <3>1 DEF Steers
    <3>3. QED
      BY <2>1, <3>1, <3>2
  <2>2. CASE q # r
    BY <1>4, <2>2 DEF Steps
  <2>3. QED
    BY <2>1, <2>2
<1>5. /\ \A m \in Steerings : IsUnseen(m) =>
           /\ \A o \in Sessions : ~InLog(m, store[o])
           /\ \A q \in Runs : ~InHand(m, run[q])
      /\ \A m \in Steerings, q \in Runs : InHand(m, run[q]) =>
           /\ \A o \in Sessions : ~InLog(m, store[o])
           /\ \A p \in Runs \ {q} : ~InHand(m, run[p])
  BY DEF SettledInv, SteeringInv, UnseenIsNowhere, InHandOnce
<1>6. ASSUME NEW m \in Steerings, IsUnseen(m)'
      PROVE  /\ \A o \in Sessions : ~InLog(m, store'[o])
             /\ \A q \in Runs : ~InHand(m, run'[q])
  <2>1. IsUnseen(m)
    BY <1>6 DEF Steers
  <2>2. QED
    BY <1>3, <1>4, <1>5, <1>6, <2>1
<1>7. ASSUME NEW m \in Steerings, NEW q \in Runs, InHand(m, run'[q])
      PROVE  /\ \A o \in Sessions : ~InLog(m, store'[o])
             /\ \A p \in Runs \ {q} : ~InHand(m, run'[p])
  <2>1. CASE InHand(m, run[q]) /\ (q = r => InHand(m, call))
    <3>1. ASSUME NEW o \in Sessions, InLog(m, store'[o])
          PROVE  FALSE
      BY <1>3, <1>5, <2>1, <3>1
    <3>2. ASSUME NEW p \in Runs \ {q}, InHand(m, run'[p])
          PROVE  FALSE
      BY <1>4, <1>5, <2>1, <3>2
    <3>3. QED
      BY <3>1, <3>2
  <2>2. CASE q = r /\ IsUnseen(m) /\ ~IsUnseen(m)' /\ InHand(m, call)
    BY <1>3, <1>4, <1>5, <2>2
  <2>3. QED
    BY <1>4, <1>7, <2>1, <2>2
<1>8. QED
  BY <1>6, <1>7 DEF UnseenIsNowhere, InHandOnce

LEMMA ShapesStill ==
  ASSUME SettledInv, NEW r \in Runs, NEW call, NEW s, NEW new,
         Steps(r, call, s, new), UNCHANGED <<named, stopped, inbox, steering>>
  PROVE  Shapes' /\ PendingOnce'
<1>1. Shapes'
  BY DEF SettledInv, Shapes, Steps
<1>2. PendingOnce'
  BY DEF SettledInv, SteeringInv, PendingOnce
<1>3. QED
  BY <1>1, <1>2

LEMMA PlainStep ==
  ASSUME SettledInv, NEW r \in Runs, IsOpen(run[r]),
         NEW call, NEW s, s = run[r].session, NEW ms, NEW new,
         Steps(r, call, s, new), Fits(store[s], ms), Grows(store[s], ms, new),
         \A i \in DOMAIN ms : ms[i].turn = run[r].turn,
         GoesOn(r, call, new), UNCHANGED <<named, stopped, inbox, steering>>,
         \A m \in Steerings :
           /\ (\E i \in DOMAIN ms : ms[i].text = m) =>
                InHand(m, run[r]) /\ ~InHand(m, call)
           /\ InHand(m, call) => InHand(m, run[r])
  PROVE  SettledInv'
<1>1. LogsInv' /\ RunsInv'
  BY StepKeeps
<1>2. Shapes' /\ PendingOnce'
  BY ShapesStill
<1>3. Steers(r, call, ms)
  BY DEF Steers, IsUnseen
<1>4. s \in Sessions
  BY OpenRun
<1>5. UnseenIsNowhere' /\ InHandOnce'
  BY <1>3, <1>4, StepSteers DEF Fits
<1>6. QED
  BY <1>1, <1>2, <1>5 DEF SettledInv, SteeringInv

(* A step that writes nothing.                                              *)
LEMMA SilentStep ==
  ASSUME SettledInv, NEW r \in Runs, IsOpen(run[r]), NEW call,
         DOMAIN run' = Runs, run'[r] = call,
         \A q \in Runs \ {r} : run'[q] = run[q],
         UNCHANGED <<sessions, store, named, stopped, inbox, steering>>,
         RunTyped(r, call), RunUnlogged(call), IsOpen(call),
         call.session = run[r].session, call.turn = run[r].turn,
         NextStep(run[r]) <= NextStep(call),
         \A m \in Steerings : InHand(m, call) => InHand(m, run[r])
  PROVE  SettledInv'
<1>1. PICK s, st, old, ms : /\ s = run[r].session /\ st = store[s]
                            /\ old = run[r] /\ ms = <<>>
  OBVIOUS
<1>2. /\ s \in Sessions /\ Sound(st) /\ RunLogged(old, st) /\ RunTyped(r, old)
  BY <1>1, OpenRun
<1>3. Fits(st, ms) /\ Grows(st, ms, st) /\ IsSeq(ms) /\ DOMAIN ms = {}
  BY <1>1, <1>2, NothingFits
<1>4. NextStep(old) \in Nat /\ NextStep(call) \in Nat
  BY <1>2, NextStepTyped
<1>5. NextStep(old) <= NextStep(call) /\ call.turn = old.turn
  BY <1>1
<1>6. RunLogged(call, st)
  BY <1>2, <1>3, <1>4, <1>5, LoggedStill
<1>7. GoesOn(r, call, st)
  BY <1>6 DEF GoesOn
<1>8. Steps(r, call, s, st)
  BY <1>1, <1>2 DEF Steps, SettledInv, Shapes
<1>9. Fits(store[s], ms) /\ Grows(store[s], ms, st)
  BY <1>1, <1>3
<1>10. /\ \A i \in DOMAIN ms : ms[i].turn = run[r].turn
       /\ ~ \E i \in DOMAIN ms : TRUE
  BY <1>3
<1>11. QED
  BY <1>1, <1>7, <1>8, <1>9, <1>10, PlainStep

LEMMA SettleStep ==
  ASSUME SteeringsApart, SettledInv, NEW r \in Runs, NEW more,
         NEW at \in {"settled", "answered"}, NEW outcome,
         outcome \in {"again", "cancelled", "error"} \/
           (at = "answered" /\ outcome = "ok"),
         IsWorking(run[r]), MoreFits(run[r], more),
         Settle(r, more, at, outcome),
         UNCHANGED <<sessions, named, stopped, inbox, steering>>
  PROVE  SettledInv'
<1>1. PICK s, st, old, ms, new :
        /\ s = run[r].session /\ st = store[s] /\ old = run[r]
        /\ ms = Unsettled(r, more) /\ new = Say(st, ms)
  OBVIOUS
<1>2. IsOpen(old) /\ IsWorking(old)
  BY <1>1 DEF IsWorking, IsOpen
<1>3. /\ s \in Sessions /\ Sound(st) /\ RunLogged(old, st) /\ RunTyped(r, old)
      /\ RunUnlogged(old)
  BY <1>1, <1>2, OpenRun
<1>4. ms = Tail2(old.fresh \o more, old.mark)
  BY <1>1 DEF Unsettled, Tail2
<1>5. \A m \in Steerings : InHand(m, old) => ~InLog(m, st)
  BY <1>1, <1>3 DEF SettledInv, SteeringInv, InHandOnce
<1>6. MoreFits(old, more)
  BY <1>1
<1>7. /\ Fits(st, ms)
      /\ \A i \in DOMAIN ms :
           /\ ms[i].turn = old.turn
           /\ \A c \in ms[i].calls : c[2] = old.step
           /\ ms[i].text \in Steerings => InHand(ms[i].text, old)
  BY <1>2, <1>3, <1>4, <1>5, <1>6, SettledFits
<1>8. Grows(st, ms, new) /\ IsSeq(ms)
  BY <1>1, <1>3, <1>7, SayGrows DEF Fits
<1>9. PICK call : call = run'[r]
  OBVIOUS
<1>10. /\ DOMAIN call = DOMAIN IdleRun
       /\ call.at = at /\ call.outcome = outcome
       /\ call.fresh = old.fresh \o more /\ call.todo = <<>>
       /\ call.session = old.session /\ call.turn = old.turn
       /\ call.step = old.step /\ call.mark = old.mark
       /\ call.unusable = old.unusable
       /\ DOMAIN run' = Runs /\ \A q \in Runs \ {r} : run'[q] = run[q]
  <2>1. run' = [run EXCEPT ![r].at = at, ![r].outcome = outcome,
                           ![r].fresh = @ \o more, ![r].todo = <<>>]
    BY DEF Settle
  <2>2. DOMAIN run = Runs /\ DOMAIN run[r] = DOMAIN IdleRun
    BY <1>1, <1>3 DEF SettledInv, Shapes, RunTyped
  <2>3. QED
    BY <1>1, <1>9, <2>1, <2>2 DEF IdleRun
<1>11. IsOpen(call) /\ ~IsWorking(call)
  BY <1>10 DEF IsOpen, IsWorking
<1>12. RunTyped(r, call)
  <2>1. PICK f, g : f = old.fresh /\ g = call.fresh
    OBVIOUS
  <2>2. Joined(f, more, g)
    BY <1>3, <1>6, <1>10, <2>1, Split DEF RunTyped, MoreFits
  <2>3. \A i \in DOMAIN g :
          /\ g[i].kind \in {"user", "assistant", "tool"}
          /\ g[i].turn = call.turn /\ IsFiniteSet(g[i].calls)
          /\ g[i].kind = "tool" => g[i].calls # {}
    <3>1. \A i \in DOMAIN f :
            /\ f[i].kind \in {"user", "assistant", "tool"}
            /\ f[i].turn = call.turn /\ IsFiniteSet(f[i].calls)
            /\ f[i].kind = "tool" => f[i].calls # {}
      BY <1>3, <1>10, <2>1 DEF RunTyped
    <3>2. \A i \in DOMAIN more :
            /\ more[i].kind \in {"user", "assistant", "tool"}
            /\ more[i].turn = call.turn /\ IsFiniteSet(more[i].calls)
            /\ more[i].kind = "tool" => more[i].calls # {}
      BY <1>6, <1>10 DEF MoreFits
    <3>3. QED
      BY <2>2, <3>1, <3>2 DEF Joined
  <2>4. call.mark \in 0 .. Len(g) /\ IsSeq(g)
    <3>1. Len(g) = Len(f) + Len(more) /\ Len(f) \in Nat /\ Len(more) \in Nat
      BY <1>3, <1>6, <1>10, <2>1, ConcatSeq DEF RunTyped, MoreFits
    <3>2. call.mark \in 0 .. Len(f)
      BY <1>3, <1>10, <2>1 DEF RunTyped
    <3>3. QED
      BY <2>2, <3>1, <3>2 DEF Joined
  <2>5. IsSeq(call.todo)
    BY <1>10, EmptyIsSeq
  <2>6. call.step # 0
    BY <1>2, <1>3, <1>10 DEF RunTyped
  <2>7. QED
    BY <1>3, <1>10, <2>1, <2>3, <2>4, <2>5, <2>6 DEF RunTyped, RunStep
<1>13. RunLogged(call, new)
  <2>1. NextStep(old) = old.step /\ NextStep(call) = old.step + 1
    BY <1>2, <1>10, <1>11 DEF NextStep
  <2>2. old.step \in Nat /\ old.step # 0
    BY <1>2, <1>3, NextStepTyped DEF RunTyped
  <2>3. /\ NextStep(old) \in Nat /\ NextStep(call) \in Nat
        /\ NextStep(old) <= NextStep(call)
        /\ old.step \in 1 .. NextStep(call) - 1
    BY <2>1, <2>2
  <2>4. QED
    BY <1>3, <1>7, <1>8, <1>10, <2>3, LoggedStill
<1>14. GoesOn(r, call, new)
  BY <1>1, <1>10, <1>11, <1>12, <1>13 DEF GoesOn, RunUnlogged
<1>15. Steps(r, call, s, new)
  <2>1. store' = [store EXCEPT ![s] = new]
    BY <1>1 DEF Settle, Write, Own
  <2>2. QED
    BY <1>3, <1>9, <1>10, <2>1 DEF Steps, SettledInv, Shapes
<1>16. \A m \in Steerings : ~InHand(m, call)
  BY <1>11 DEF InHand
<1>17. IsOpen(run[r]) /\ Fits(store[s], ms) /\ Grows(store[s], ms, new)
       /\ (\A i \in DOMAIN ms : ms[i].turn = run[r].turn)
       /\ \A m \in Steerings :
            (\E i \in DOMAIN ms : ms[i].text = m) => InHand(m, run[r])
  BY <1>1, <1>2, <1>7, <1>8
<1>18. QED
  BY <1>1, <1>14, <1>15, <1>16, <1>17, PlainStep

-----------------------------------------------------------------------------
(* Replies, and the results of their calls.                                 *)

LEMMA NothingMore ==
  ASSUME NEW call, NEW more, more = <<>>
  PROVE  MoreFits(call, more)
  BY EmptyIsSeq DEF MoreFits

(* Calls of the step under way, each once, of which nothing is said yet.    *)
AreUnanswered(call, calls) ==
  /\ IsSeq(calls)
  /\ \A i \in DOMAIN calls : calls[i][2] = call.step
  /\ \A i, j \in DOMAIN calls : calls[i] = calls[j] => i = j
  /\ \A i \in Unlogged(call), j \in DOMAIN calls :
       call.fresh[i].kind = "tool" => call.fresh[i].calls # {calls[j]}

ResultsIn(t, calls) == [i \in DOMAIN calls |-> ToolResult(t, calls[i])]

LEMMA ResultsOf ==
  ASSUME NEW t, NEW calls, IsSeq(calls), SteeringsApart,
         NEW ms, ms = ResultsIn(t, calls)
  PROVE  /\ IsSeq(ms) /\ DOMAIN ms = DOMAIN calls /\ Len(ms) = Len(calls)
         /\ \A i \in DOMAIN ms :
              /\ ms[i].kind = "tool" /\ ms[i].turn = t
              /\ ms[i].text \notin Steerings
              /\ ms[i].calls = {calls[i]} /\ IsFiniteSet(ms[i].calls)
<1>1. PICK n : n = Len(calls)
  OBVIOUS
<1>2. n \in Nat /\ DOMAIN calls = 1 .. n
  BY <1>1, SeqFacts
<1>3. DOMAIN ms = 1 .. n /\ ms = [i \in 1 .. n |-> ms[i]]
  BY <1>2 DEF ResultsIn
<1>4. IsSeq(ms) /\ Len(ms) = n
  BY <1>2, <1>3, FunSeq
<1>5. \A c : /\ ToolResult(t, c).kind = "tool" /\ ToolResult(t, c).turn = t
             /\ ToolResult(t, c).text = "said" /\ ToolResult(t, c).calls = {c}
  BY DEF ToolResult, Event
<1>6. "said" \notin Steerings
  BY DEF SteeringsApart
<1>7. \A c : IsFiniteSet({c})
  BY FS_Singleton
<1>8. \A i \in DOMAIN ms : ms[i] = ToolResult(t, calls[i])
  BY DEF ResultsIn
<1>9. ASSUME NEW i \in DOMAIN ms
      PROVE  /\ ms[i].kind = "tool" /\ ms[i].turn = t
             /\ ms[i].text \notin Steerings
             /\ ms[i].calls = {calls[i]} /\ IsFiniteSet(ms[i].calls)
  <2>1. PICK c, e : c = calls[i] /\ e = ms[i]
    OBVIOUS
  <2>2. e = ToolResult(t, c)
    BY <1>8, <2>1
  <2>3. /\ e.kind = "tool" /\ e.turn = t /\ e.text = "said" /\ e.calls = {c}
    BY <1>5, <2>2
  <2>4. IsFiniteSet({c})
    BY <1>7
  <2>5. QED
    BY <1>6, <2>1, <2>3, <2>4
<1>10. QED
  BY <1>1, <1>2, <1>3, <1>4, <1>9

LEMMA ResultsMore ==
  ASSUME NEW call, NEW calls, AreUnanswered(call, calls), SteeringsApart,
         NEW ms, ms = ResultsIn(call.turn, calls)
  PROVE  MoreFits(call, ms)
<1>1. PICK t : t = call.turn
  OBVIOUS
<1>2. IsSeq(calls) /\ ms = ResultsIn(t, calls)
  BY <1>1 DEF AreUnanswered
<1>3. /\ IsSeq(ms) /\ DOMAIN ms = DOMAIN calls
      /\ \A i \in DOMAIN ms :
           /\ ms[i].kind = "tool" /\ ms[i].turn = t
           /\ ms[i].text \notin Steerings
           /\ ms[i].calls = {calls[i]} /\ IsFiniteSet(ms[i].calls)
  BY <1>2, ResultsOf
<1>4. ASSUME NEW i \in DOMAIN ms, NEW j \in DOMAIN ms, SameResult(ms[i], ms[j])
      PROVE  i = j
  <2>1. {calls[i]} = {calls[j]}
    BY <1>3, <1>4 DEF SameResult
  <2>2. calls[i] = calls[j]
    BY <2>1
  <2>3. QED
    BY <1>3, <2>2 DEF AreUnanswered
<1>5. ASSUME NEW i \in Unlogged(call), NEW j \in DOMAIN ms,
             SameResult(call.fresh[i], ms[j])
      PROVE  FALSE
  <2>1. call.fresh[i].kind = "tool" /\ call.fresh[i].calls = {calls[j]}
    BY <1>3, <1>5 DEF SameResult
  <2>2. QED
    BY <1>3, <2>1 DEF AreUnanswered
<1>6. \A i \in DOMAIN ms : \A c \in ms[i].calls : c[2] = call.step
  BY <1>3 DEF AreUnanswered
<1>7. QED
  BY <1>1, <1>3, <1>4, <1>5, <1>6 DEF MoreFits

LEMMA ReplyMore ==
  ASSUME NEW call, NEW ms, MoreFits(call, ms), SteeringsApart,
         NEW text \in {"said", "blank"}, NEW made, IsFiniteSet(made),
         \A c \in made : c[2] = call.step,
         NEW more, more = <<Assistant(call.turn, text, made)>> \o ms
  PROVE  MoreFits(call, more)
<1>1. PICK e, head : e = Assistant(call.turn, text, made) /\ head = <<e>>
  OBVIOUS
<1>2. /\ e.kind = "assistant" /\ e.turn = call.turn /\ e.text = text
      /\ e.calls = made
  BY <1>1 DEF Assistant, Event
<1>3. IsSeq(head) /\ DOMAIN head = {1} /\ Len(head) = 1 /\ head[1] = e
  BY <1>1, SingleSeq
<1>4. more = head \o ms /\ IsSeq(ms)
  BY <1>1 DEF MoreFits
<1>5. Joined(head, ms, more)
  BY <1>3, <1>4, Split
<1>6. e.text \notin Steerings
  BY <1>2 DEF SteeringsApart
<1>7. \A i \in DOMAIN more :
        \/ more[i] = e
        \/ \E k \in DOMAIN ms : i = Len(head) + k /\ more[i] = ms[k]
  BY <1>3, <1>5 DEF Joined
<1>8. \A f : ~SameResult(e, f) /\ ~SameResult(f, e)
  BY <1>2 DEF SameResult
<1>9. \A i, j \in DOMAIN more : SameResult(more[i], more[j]) => i = j
  <2>1. \A k, l \in DOMAIN ms : SameResult(ms[k], ms[l]) => k = l
    BY DEF MoreFits
  <2>2. QED
    BY <1>7, <1>8, <2>1
<1>10. \A i \in Unlogged(call), j \in DOMAIN more :
         ~SameResult(call.fresh[i], more[j])
  <2>1. \A i \in Unlogged(call), j \in DOMAIN ms :
          ~SameResult(call.fresh[i], ms[j])
    BY DEF MoreFits
  <2>2. QED
    BY <1>7, <1>8, <2>1
<1>11. ASSUME NEW i \in DOMAIN more
       PROVE  /\ more[i].kind \in {"assistant", "tool"}
              /\ more[i].turn = call.turn /\ more[i].text \notin Steerings
              /\ IsFiniteSet(more[i].calls)
              /\ more[i].kind = "tool" => more[i].calls # {}
              /\ \A c \in more[i].calls : c[2] = call.step
  <2>1. CASE more[i] = e
    BY <1>2, <1>6, <2>1
  <2>2. CASE more[i] # e
    BY <1>7, <2>2 DEF MoreFits
  <2>3. QED
    BY <2>1, <2>2
<1>12. QED
  BY <1>5, <1>9, <1>10, <1>11 DEF MoreFits, Joined

(* The calls of a reply.                                                    *)
LEMMA CallsAre ==
  ASSUME NEW r, NEW n \in Nat, NEW calls, calls = Calls(r, n),
         NEW made, made = SetOf(calls)
  PROVE  /\ IsSeq(calls) /\ DOMAIN calls = 1 .. n /\ Len(calls) = n
         /\ \A i \in DOMAIN calls : calls[i][2] = run[r].step
         /\ \A i, j \in DOMAIN calls : calls[i] = calls[j] => i = j
         /\ IsFiniteSet(made) /\ \A c \in made : c[2] = run[r].step
<1>1. /\ DOMAIN calls = 1 .. n /\ calls = [i \in 1 .. n |-> calls[i]]
      /\ \A i \in 1 .. n : calls[i] = <<Turn(r), run[r].step, i>>
  BY DEF Calls
<1>2. IsSeq(calls) /\ Len(calls) = n
  BY <1>1, FunSeq
<1>3. \A a, b, c : <<a, b, c>>[2] = b /\ <<a, b, c>>[3] = c
  OBVIOUS
<1>4. \A i \in 1 .. n : calls[i][2] = run[r].step /\ calls[i][3] = i
  BY <1>1, <1>3
<1>5. made = {calls[i] : i \in DOMAIN calls}
  BY DEF SetOf
<1>6. IsFiniteSet(DOMAIN calls)
  BY <1>1, FS_Interval
<1>7. IsFiniteSet(made)
  BY <1>5, <1>6, ImageFinite
<1>8. QED
  BY <1>1, <1>2, <1>4, <1>5, <1>7

LEMMA Working ==
  ASSUME SettledInv, NEW r \in Runs, IsWorking(run[r])
  PROVE  /\ IsOpen(run[r]) /\ RunTyped(r, run[r]) /\ RunUnlogged(run[r])
         /\ IsSeq(run[r].fresh) /\ IsSeq(run[r].todo)
  BY OpenRun DEF IsWorking, IsOpen, RunTyped

LEMMA ReplyUnanswered ==
  ASSUME SettledInv, NEW r \in Runs, run[r].at = "asking", NEW n \in Nat
  PROVE  AreUnanswered(run[r], Calls(r, n))
<1>1. PICK calls, made : calls = Calls(r, n) /\ made = SetOf(calls)
  OBVIOUS
<1>2. /\ IsSeq(calls)
      /\ \A i \in DOMAIN calls : calls[i][2] = run[r].step
      /\ \A i, j \in DOMAIN calls : calls[i] = calls[j] => i = j
  BY <1>1, CallsAre
<1>3. \A i \in Unlogged(run[r]) : run[r].fresh[i].kind = "user"
  BY Working DEF RunUnlogged, IsWorking
<1>4. AreUnanswered(run[r], calls)
  BY <1>2, <1>3 DEF AreUnanswered
<1>5. QED
  BY <1>1, <1>4

LEMMA StepFailsKeeps ==
  ASSUME SteeringsApart, SettledInv, NEW r \in Runs, StepFails(r)
  PROVE  SettledInv'
<1>1. PICK more : more = <<>>
  OBVIOUS
<1>2. MoreFits(run[r], more)
  <2>1. PICK call : call = run[r]
    OBVIOUS
  <2>2. MoreFits(call, more)
    BY <1>1, NothingMore
  <2>3. QED
    BY <2>1, <2>2
<1>3. /\ IsWorking(run[r])
      /\ \E outcome \in {"error", "cancelled"} :
           Settle(r, more, "settled", outcome)
      /\ UNCHANGED <<sessions, named, stopped, inbox, steering>>
  BY <1>1 DEF StepFails, IsWorking
<1>4. PICK outcome \in {"error", "cancelled"} :
        Settle(r, more, "settled", outcome)
  BY <1>3
<1>5. QED
  BY <1>2, <1>3, <1>4, SettleStep

LEMMA RepliedMore ==
  ASSUME SteeringsApart, SettledInv, NEW r \in Runs, run[r].at = "asking",
         NEW n \in Nat, NEW text \in {"said", "blank"}
  PROVE  /\ MoreFits(run[r], Results(r, Calls(r, n)))
         /\ MoreFits(run[r], <<>> \o Results(r, Calls(r, n)))
         /\ MoreFits(run[r], <<Assistant(Turn(r), text, SetOf(Calls(r, n)))>>
                               \o Results(r, Calls(r, n)))
<1>1. PICK call, calls, made, ms :
        /\ call = run[r] /\ calls = Calls(r, n) /\ made = SetOf(calls)
        /\ ms = ResultsIn(call.turn, calls)
  OBVIOUS
<1>2. AreUnanswered(call, calls)
  BY <1>1, ReplyUnanswered
<1>3. MoreFits(call, ms)
  BY <1>1, <1>2, ResultsMore
<1>4. IsFiniteSet(made) /\ \A c \in made : c[2] = call.step
  BY <1>1, CallsAre
<1>5. MoreFits(call, <<Assistant(call.turn, text, made)>> \o ms)
  BY <1>3, <1>4, ReplyMore
<1>6. Results(r, calls) = ms
  BY <1>1 DEF Results, ResultsIn, Turn
<1>7. <<>> \o ms = ms
  <2>1. PICK S : ms \in Seq(S)
    BY <1>3 DEF MoreFits, IsSeq
  <2>2. QED
    BY <2>1, ConcatEmptySeq
<1>8. QED
  BY <1>1, <1>3, <1>5, <1>6, <1>7 DEF Turn

LEMMA ReplyInterruptedKeeps ==
  ASSUME SteeringsApart, SettledInv, NEW r \in Runs, NEW n \in Nat,
         NEW text \in {"said", "blank"}, ReplyInterrupted(r, n, text)
  PROVE  SettledInv'
<1> DEFINE said == Assistant(Turn(r), text, SetOf(Calls(r, n)))
           more == (IF IsBlank(said) THEN <<>> ELSE <<said>>)
                     \o Results(r, Calls(r, n))
<1>1. /\ run[r].at = "asking" /\ Settle(r, more, "settled", "cancelled")
      /\ UNCHANGED <<sessions, named, stopped, inbox, steering>>
  BY DEF ReplyInterrupted
<1>2. MoreFits(run[r], more)
  <2>1. CASE IsBlank(said)
    BY <1>1, <2>1, RepliedMore
  <2>2. CASE ~IsBlank(said)
    BY <1>1, <2>2, RepliedMore
  <2>3. QED
    BY <2>1, <2>2
<1>3. IsWorking(run[r])
  BY <1>1 DEF IsWorking
<1> HIDE DEF more
<1>4. QED
  BY <1>1, <1>2, <1>3, SettleStep

LEMMA ReplyCutKeeps ==
  ASSUME SteeringsApart, SettledInv, NEW r \in Runs, NEW n \in Nat,
         ReplyCut(r, n)
  PROVE  SettledInv'
<1> DEFINE more == <<Assistant(Turn(r), "said", SetOf(Calls(r, n)))>>
                     \o Results(r, Calls(r, n))
<1>1. /\ run[r].at = "asking" /\ Settle(r, more, "settled", "again")
      /\ UNCHANGED <<sessions, named, stopped, inbox, steering>>
  BY DEF ReplyCut
<1>2. MoreFits(run[r], more)
  BY <1>1, RepliedMore
<1>3. IsWorking(run[r])
  BY <1>1 DEF IsWorking
<1> HIDE DEF more
<1>4. QED
  BY <1>1, <1>2, <1>3, SettleStep

LEMMA ReplyAnswerKeeps ==
  ASSUME SteeringsApart, SettledInv, NEW r \in Runs,
         NEW text \in {"said", "blank"}, ReplyAnswer(r, text)
  PROVE  SettledInv'
<1> DEFINE said == Assistant(Turn(r), text, {})
           more == IF IsBlank(said) THEN <<>> ELSE <<said>>
<1>1. /\ run[r].at = "asking" /\ Settle(r, more, "answered", "ok")
      /\ UNCHANGED <<sessions, named, stopped, inbox, steering>>
  BY DEF ReplyAnswer
<1>2. MoreFits(run[r], more)
  <2>1. PICK call, none, one, made :
          /\ call = run[r] /\ none = <<>> /\ made = {}
          /\ one = <<Assistant(call.turn, text, made)>>
    OBVIOUS
  <2>2. MoreFits(call, none)
    BY <2>1, NothingMore
  <2>3. one \o none = one
    BY <2>1, SingleSeq, ConcatEmpty
  <2>4. IsFiniteSet(made) /\ \A c \in made : c[2] = call.step
    BY <2>1, FS_EmptySet
  <2>5. one = <<Assistant(call.turn, text, made)>> \o none
    BY <2>1, <2>3
  <2>6. MoreFits(call, one)
    BY <2>2, <2>4, <2>5, ReplyMore
  <2>7. more = none \/ more = one
    BY <2>1 DEF Turn
  <2>8. QED
    BY <2>1, <2>2, <2>6, <2>7
<1>3. IsWorking(run[r])
  BY <1>1 DEF IsWorking
<1> HIDE DEF more
<1>4. QED
  BY <1>1, <1>2, <1>3, SettleStep

LEMMA ToolsStoppedKeeps ==
  ASSUME SteeringsApart, SettledInv, NEW r \in Runs, ToolsStopped(r)
  PROVE  SettledInv'
<1>1. PICK call, more : /\ call = run[r]
                        /\ more = ResultsIn(call.turn, call.todo)
  OBVIOUS
<1>2. more = Results(r, run[r].todo)
  BY <1>1 DEF Results, ResultsIn, Turn
<1>3. /\ call.at = "tools" /\ Settle(r, more, "settled", "cancelled")
      /\ UNCHANGED <<sessions, named, stopped, inbox, steering>>
  BY <1>1, <1>2 DEF ToolsStopped
<1>4. IsWorking(run[r])
  BY <1>1, <1>3 DEF IsWorking
<1>5. IsSeq(call.todo) /\ RunUnlogged(call)
  BY <1>1, <1>4, Working
<1>6. AreUnanswered(call, call.todo)
  BY <1>1, <1>3, <1>4, <1>5 DEF AreUnanswered, RunUnlogged
<1>7. MoreFits(call, more)
  <2>1. PICK calls : calls = call.todo
    OBVIOUS
  <2>2. AreUnanswered(call, calls) /\ more = ResultsIn(call.turn, calls)
    BY <1>1, <1>6, <2>1
  <2>3. QED
    BY <2>2, ResultsMore, Zenon
<1>8. QED
  BY <1>1, <1>3, <1>4, <1>7, SettleStep

LEMMA ToolsDoneKeeps ==
  ASSUME SteeringsApart, SettledInv, NEW r \in Runs, ToolsDone(r)
  PROVE  SettledInv'
<1>1. PICK call, more : call = run[r] /\ more = <<>>
  OBVIOUS
<1>2. MoreFits(run[r], more)
  BY <1>1, NothingMore
<1>3. /\ IsWorking(run[r]) /\ Settle(r, more, "settled", "again")
      /\ UNCHANGED <<sessions, named, stopped, inbox, steering>>
  BY <1>1 DEF ToolsDone, IsWorking
<1>4. QED
  BY <1>2, <1>3, SettleStep

(* What the reply and its results add to the turn before they are settled.  *)
LEMMA ToolsGrow ==
  ASSUME NEW r \in Runs, NEW call, NEW more, NEW after, SteeringsApart,
         RunTyped(r, call), RunUnlogged(call), IsWorking(call),
         MoreFits(call, more), AreUnanswered(call, after.todo),
         \A i \in DOMAIN more, j \in DOMAIN after.todo :
           more[i].kind = "tool" => more[i].calls # {after.todo[j]},
         DOMAIN after = DOMAIN IdleRun, after.at = "tools",
         after.fresh = call.fresh \o more, after.mark = call.mark,
         after.step = call.step, after.turn = call.turn,
         after.outcome = call.outcome, after.unusable \in 0 .. MaxUnusable
  PROVE  /\ RunTyped(r, after) /\ RunUnlogged(after)
         /\ \A m \in Steerings : InHand(m, after) => InHand(m, call)
<1>1. PICK f, k, g : f = call.fresh /\ k = call.mark /\ g = after.fresh
  OBVIOUS
<1>2. IsSeq(f) /\ IsSeq(more) /\ g = f \o more /\ k \in 0 .. Len(f)
  BY <1>1 DEF RunTyped, MoreFits
<1>3. Joined(f, more, g)
  BY <1>2, Split
<1>4. Len(g) = Len(f) + Len(more) /\ Len(f) \in Nat /\ Len(more) \in Nat
      /\ DOMAIN g = 1 .. Len(g) /\ DOMAIN f = 1 .. Len(f)
      /\ DOMAIN more = 1 .. Len(more)
  BY <1>2, ConcatSeq
<1>5. Unlogged(call) = k + 1 .. Len(f) /\ Unlogged(after) = k + 1 .. Len(g)
  BY <1>1 DEF Unlogged
<1>6. ASSUME NEW i \in Unlogged(after)
      PROVE  \/ i \in Unlogged(call) /\ g[i] = f[i]
             \/ \E j \in DOMAIN more : i = Len(f) + j /\ g[i] = more[j]
  <2>1. i \in DOMAIN g
    BY <1>2, <1>4, <1>5
  <2>2. CASE i \in DOMAIN f
    BY <1>3, <1>4, <1>5, <2>2 DEF Joined
  <2>3. ASSUME NEW j \in DOMAIN more, i = Len(f) + j
        PROVE  g[i] = more[j]
    BY <1>3, <2>3 DEF Joined
  <2>4. QED
    BY <1>3, <2>1, <2>2, <2>3 DEF Joined
<1>7. ASSUME NEW i \in DOMAIN g
      PROVE  /\ g[i].kind \in {"user", "assistant", "tool"}
             /\ g[i].turn = call.turn /\ IsFiniteSet(g[i].calls)
             /\ g[i].kind = "tool" => g[i].calls # {}
  <2>1. \A j \in DOMAIN f :
          /\ f[j].kind \in {"user", "assistant", "tool"}
          /\ f[j].turn = call.turn /\ IsFiniteSet(f[j].calls)
          /\ f[j].kind = "tool" => f[j].calls # {}
    BY <1>1 DEF RunTyped
  <2>2. \A j \in DOMAIN more :
          /\ more[j].kind \in {"user", "assistant", "tool"}
          /\ more[j].turn = call.turn /\ IsFiniteSet(more[j].calls)
          /\ more[j].kind = "tool" => more[j].calls # {}
    BY DEF MoreFits
  <2>3. QED
    BY <1>3, <1>7, <2>1, <2>2 DEF Joined
<1>8. RunTyped(r, after)
  <2>1. after.mark \in 0 .. Len(g)
    BY <1>1, <1>2, <1>4
  <2>2. IsSeq(g)
    BY <1>3 DEF Joined
  <2>3. IsSeq(after.todo)
    BY DEF AreUnanswered
  <2>4. IsOpen(after) => after.step # 0
    BY DEF RunTyped, IsWorking, IsOpen
  <2>5. after.at \in RunStep /\ after.at \notin {"returned", "closed", "settled"}
    BY DEF RunStep
  <2>6. after.step \in 0 .. MaxSteps[r]
        /\ after.outcome \in {"none", "again", "ok", "cancelled", "error"}
    BY DEF RunTyped
  <2>7. QED
    BY <1>1, <1>7, <2>1, <2>2, <2>3, <2>4, <2>5, <2>6 DEF RunTyped
<1>9. \A i \in Unlogged(call) :
        /\ f[i].kind = "user" => f[i].calls = {}
        /\ \A c \in f[i].calls : c[2] = call.step
  BY <1>1 DEF RunUnlogged
<1>10. \A i \in DOMAIN more :
         /\ more[i].kind # "user"
         /\ \A c \in more[i].calls : c[2] = call.step
  BY DEF MoreFits
<1>11. \A i \in Unlogged(after) :
         /\ g[i].kind = "user" => g[i].calls = {}
         /\ \A c \in g[i].calls : c[2] = after.step
  BY <1>6, <1>9, <1>10
<1>12. \A e, h : /\ SameResult(e, h) => SameResult(h, e)
                 /\ SameSteering(e, h) => SameSteering(h, e)
  BY DEF SameResult, SameSteering
<1>13. \A i \in DOMAIN more : \A e :
         ~SameSteering(more[i], e) /\ ~SameSteering(e, more[i])
  BY DEF MoreFits, SameSteering
<1>14. ASSUME NEW i \in Unlogged(after), NEW j \in Unlogged(after),
              SameResult(g[i], g[j]) \/ SameSteering(g[i], g[j])
       PROVE  i = j
  <2>1. CASE i \in Unlogged(call) /\ j \in Unlogged(call)
             /\ g[i] = f[i] /\ g[j] = f[j]
    BY <1>1, <1>14, <2>1 DEF RunUnlogged
  <2>2. ASSUME i \in Unlogged(call), g[i] = f[i],
               NEW l \in DOMAIN more, g[j] = more[l]
        PROVE  FALSE
    BY <1>1, <1>13, <1>14, <2>2 DEF MoreFits
  <2>3. ASSUME j \in Unlogged(call), g[j] = f[j],
               NEW l \in DOMAIN more, g[i] = more[l]
        PROVE  FALSE
    BY <1>1, <1>12, <1>13, <1>14, <2>3 DEF MoreFits
  <2>4. ASSUME NEW l \in DOMAIN more, i = Len(f) + l, g[i] = more[l],
               NEW o \in DOMAIN more, j = Len(f) + o, g[j] = more[o]
        PROVE  i = j
    <3>1. SameResult(more[l], more[o])
      BY <1>13, <1>14, <2>4
    <3>2. l = o
      BY <3>1 DEF MoreFits
    <3>3. QED
      BY <2>4, <3>2
  <2>5. QED
    BY <1>6, <2>1, <2>2, <2>3, <2>4
<1>15. ASSUME NEW i \in Unlogged(after), NEW j \in DOMAIN after.todo,
              g[i].kind = "tool"
       PROVE  g[i].calls # {after.todo[j]}
  <2>1. CASE i \in Unlogged(call) /\ g[i] = f[i]
    BY <1>1, <1>15, <2>1 DEF AreUnanswered
  <2>2. ASSUME NEW l \in DOMAIN more, g[i] = more[l]
        PROVE  g[i].calls # {after.todo[j]}
    BY <1>15, <2>2
  <2>3. QED
    BY <1>6, <2>1, <2>2
<1>16. RunUnlogged(after)
  <2>1. /\ \A j \in DOMAIN after.todo : after.todo[j][2] = after.step
        /\ \A j, l \in DOMAIN after.todo : after.todo[j] = after.todo[l] => j = l
    BY DEF AreUnanswered
  <2>2. QED
    BY <1>1, <1>11, <1>14, <1>15, <2>1 DEF RunUnlogged
<1>17. ASSUME NEW m \in Steerings, InHand(m, after)
       PROVE  InHand(m, call)
  <2>1. PICK i \in Unlogged(after) : g[i].text = m
    BY <1>1, <1>17 DEF InHand
  <2>2. \A j \in DOMAIN more : more[j].text # m
    BY DEF MoreFits
  <2>3. i \in Unlogged(call) /\ f[i].text = m
    BY <1>6, <2>1, <2>2
  <2>4. QED
    BY <1>1, <2>3 DEF InHand
<1>18. QED
  BY <1>8, <1>16, <1>17

LEMMA ReplyCallsKeeps ==
  ASSUME SteeringsApart, SettledInv, NEW r \in Runs, NEW n \in Nat,
         ReplyCalls(r, n)
  PROVE  SettledInv'
<1>1. PICK old, calls, made, more, none, after :
        /\ old = run[r] /\ calls = Calls(r, n) /\ made = SetOf(calls)
        /\ more = <<Assistant(old.turn, "said", made)>> /\ none = <<>>
        /\ after = run'[r]
  OBVIOUS
<1>2. old.at = "asking" /\ IsWorking(old)
  BY <1>1 DEF ReplyCalls, IsWorking
<1>3. /\ IsOpen(old) /\ RunTyped(r, old) /\ RunUnlogged(old)
      /\ IsSeq(old.fresh)
  BY <1>1, <1>2, Working
<1>4. /\ DOMAIN after = DOMAIN IdleRun /\ after.at = "tools"
      /\ after.todo = calls
      /\ after.fresh = Append(old.fresh, Assistant(old.turn, "said", made))
      /\ after.session = old.session /\ after.turn = old.turn
      /\ after.step = old.step /\ after.mark = old.mark
      /\ after.unusable = old.unusable /\ after.outcome = old.outcome
      /\ DOMAIN run' = Runs /\ \A q \in Runs \ {r} : run'[q] = run[q]
  <2>1. run' = [run EXCEPT ![r].at = "tools", ![r].todo = Calls(r, n),
         ![r].fresh = Append(@, Assistant(Turn(r), "said", SetOf(Calls(r, n))))]
    BY DEF ReplyCalls
  <2>2. DOMAIN run = Runs /\ DOMAIN run[r] = DOMAIN IdleRun
    BY <1>1, <1>3 DEF SettledInv, Shapes, RunTyped
  <2>3. QED
    BY <1>1, <2>1, <2>2 DEF IdleRun, Turn
<1>5. after.fresh = old.fresh \o more
  <2>1. PICK e : e = Assistant(old.turn, "said", made)
    OBVIOUS
  <2>2. Append(old.fresh, e) = old.fresh \o <<e>>
    BY <1>3, AppendIs
  <2>3. QED
    BY <1>1, <1>4, <2>1, <2>2
<1>6. /\ IsFiniteSet(made) /\ \A c \in made : c[2] = old.step
  BY <1>1, CallsAre
<1>7. MoreFits(old, more)
  <2>1. MoreFits(old, none)
    BY <1>1, NothingMore
  <2>2. more \o none = more
    BY <1>1, SingleSeq, ConcatEmpty
  <2>3. PICK text \in {"said", "blank"} : text = "said"
    OBVIOUS
  <2>4. more = <<Assistant(old.turn, text, made)>> \o none
    BY <1>1, <2>2, <2>3
  <2>5. QED
    BY <1>6, <2>1, <2>4, ReplyMore
<1>8. AreUnanswered(old, after.todo)
  BY <1>1, <1>2, <1>4, ReplyUnanswered
<1>9. \A i \in DOMAIN more : more[i].kind # "tool"
  <2>1. PICK e : e = Assistant(old.turn, "said", made)
    OBVIOUS
  <2>2. e.kind = "assistant"
    BY <2>1 DEF Assistant, Event
  <2>3. DOMAIN more = {1} /\ more[1] = e
    BY <1>1, <2>1, SingleSeq
  <2>4. QED
    BY <2>2, <2>3
<1>10. after.unusable \in 0 .. MaxUnusable
  BY <1>3, <1>4 DEF RunTyped
<1>11. /\ RunTyped(r, after) /\ RunUnlogged(after)
       /\ \A m \in Steerings : InHand(m, after) => InHand(m, old)
  BY <1>2, <1>3, <1>4, <1>5, <1>7, <1>8, <1>9, <1>10, ToolsGrow
<1>12. NextStep(old) <= NextStep(after) /\ IsOpen(after)
  <2>1. old.step \in Nat
    BY <1>3, NextStepTyped
  <2>2. QED
    BY <1>2, <1>4, <2>1 DEF NextStep, IsWorking, IsOpen
<1>13. UNCHANGED <<sessions, store, named, stopped, inbox, steering>>
  BY DEF ReplyCalls
<1>14. QED
  BY <1>1, <1>3, <1>4, <1>11, <1>12, <1>13, SilentStep

Head2(f, k) == SubSeq(f, 1, k)

LEMMA CallsSplit ==
  ASSUME NEW call, NEW todo, AreUnanswered(call, todo), NEW n \in 1 .. Len(todo),
         NEW calls, calls = Head2(todo, n), NEW rest, rest = Tail2(todo, n)
  PROVE  /\ AreUnanswered(call, calls) /\ AreUnanswered(call, rest)
         /\ \A i \in DOMAIN calls, j \in DOMAIN rest : calls[i] # rest[j]
<1>1. PICK l : l = Len(todo)
  OBVIOUS
<1>2. /\ IsSeq(todo) /\ l \in Nat /\ DOMAIN todo = 1 .. l
      /\ n \in Nat /\ 1 <= n /\ n <= l /\ n \in 0 .. Len(todo)
      /\ 1 \in Nat \ {0} /\ n - 1 + 1 = n
  BY <1>1, SeqFacts DEF AreUnanswered
<1>3. /\ IsSeq(calls) /\ DOMAIN calls = 1 .. n
      /\ \A i \in 1 .. n : calls[i] = todo[i]
  <2>1. /\ IsSeq(calls) /\ Len(calls) = IF 1 <= n THEN n - 1 + 1 ELSE 0
        /\ DOMAIN calls = 1 .. Len(calls)
        /\ \A i \in 1 .. n - 1 + 1 : calls[i] = todo[1 + i - 1]
    BY <1>2, SubSeqSeq DEF Head2
  <2>2. \A i \in 1 .. n : 1 + i - 1 = i
    OBVIOUS
  <2>3. QED
    BY <1>2, <2>1, <2>2
<1>4. /\ IsSeq(rest) /\ DOMAIN rest = 1 .. l - n
      /\ \A i \in 1 .. l - n : rest[i] = todo[n + i]
  <2>2. /\ IsSeq(Tail2(todo, n)) /\ DOMAIN Tail2(todo, n) = 1 .. Len(todo) - n
        /\ \A i \in 1 .. Len(todo) - n : Tail2(todo, n)[i] = todo[n + i]
    BY <1>2, Tail2Is, Zenon
  <2>3. QED
    BY <1>1, <2>2
<1>5. /\ \A i \in 1 .. n : i \in DOMAIN todo
      /\ \A i \in 1 .. l - n : n + i \in DOMAIN todo
  BY <1>2
<1>6. /\ \A i \in DOMAIN todo : todo[i][2] = call.step
      /\ \A i, j \in DOMAIN todo : todo[i] = todo[j] => i = j
      /\ \A i \in Unlogged(call), j \in DOMAIN todo :
           call.fresh[i].kind = "tool" => call.fresh[i].calls # {todo[j]}
  BY DEF AreUnanswered
<1>7. AreUnanswered(call, calls)
  <2>1. \A i \in DOMAIN calls : i \in DOMAIN todo /\ calls[i] = todo[i]
    BY <1>3, <1>5
  <2>2. QED
    BY <1>3, <1>6, <2>1 DEF AreUnanswered
<1>8. AreUnanswered(call, rest)
  <2>1. \A i \in DOMAIN rest : n + i \in DOMAIN todo /\ rest[i] = todo[n + i]
    BY <1>4, <1>5
  <2>2. ASSUME NEW i \in DOMAIN rest, NEW j \in DOMAIN rest, rest[i] = rest[j]
        PROVE  i = j
    <3>1. PICK p, q : p = n + i /\ q = n + j
      OBVIOUS
    <3>2. /\ todo[p] = todo[q] /\ p \in DOMAIN todo /\ q \in DOMAIN todo
      BY <2>1, <2>2, <3>1
    <3>3. p = q
      BY <1>6, <3>2
    <3>4. i \in Int /\ j \in Int /\ n \in Int
      BY <1>2, <1>4
    <3>5. QED
      BY <3>1, <3>3, <3>4
  <2>3. \A i \in DOMAIN rest : rest[i][2] = call.step
    BY <1>6, <2>1
  <2>4. \A i \in Unlogged(call), j \in DOMAIN rest :
          call.fresh[i].kind = "tool" => call.fresh[i].calls # {rest[j]}
    BY <1>6, <2>1
  <2>5. QED
    BY <1>4, <2>2, <2>3, <2>4 DEF AreUnanswered
<1>9. ASSUME NEW i \in DOMAIN calls, NEW j \in DOMAIN rest, calls[i] = rest[j]
      PROVE  FALSE
  <2>1. todo[i] = todo[n + j] /\ i \in DOMAIN todo /\ n + j \in DOMAIN todo
    BY <1>3, <1>4, <1>5, <1>9
  <2>2. i = n + j
    BY <1>6, <2>1
  <2>3. i \in 1 .. n /\ j \in 1 .. l - n
    BY <1>3, <1>4
  <2>4. QED
    BY <1>2, <2>2, <2>3
<1>10. QED
  BY <1>7, <1>8, <1>9

LEMMA RunToolsKeeps ==
  ASSUME SteeringsApart, SettledInv, NEW r \in Runs,
         NEW n \in 1 .. Len(run[r].todo), RunTools(r, n)
  PROVE  SettledInv'
<1>1. PICK old, todo, after :
        /\ old = run[r] /\ todo = old.todo /\ after = run'[r]
  OBVIOUS
<1>2. PICK calls, rest : calls = Head2(todo, n) /\ rest = Tail2(todo, n)
  OBVIOUS
<1>3. PICK more : more = ResultsIn(old.turn, calls)
  OBVIOUS
<1>4. old.at = "tools" /\ IsWorking(old)
  BY <1>1 DEF RunTools, IsWorking
<1>5. /\ IsOpen(old) /\ RunTyped(r, old) /\ RunUnlogged(old)
      /\ IsSeq(old.fresh) /\ IsSeq(todo)
  BY <1>1, <1>4, Working
<1>6. PICK u \in InARow(r, n) :
        /\ u <= MaxUnusable
        /\ run' = [run EXCEPT ![r].todo = rest, ![r].unusable = u,
                              ![r].fresh = @ \o Results(r, calls)]
  BY <1>1, <1>2 DEF RunTools, Head2, Tail2
<1>7. u \in 0 .. MaxUnusable
  <2>1. MaxUnusable \in Nat
    BY ConstantsAssumption
  <2>2. run[r].unusable \in Nat
    BY <1>1, <1>5, <2>1 DEF RunTyped
  <2>3. n \in Nat
    <3>1. Len(todo) \in Nat
      BY <1>5, SeqFacts
    <3>2. QED
      BY <1>1, <3>1
  <2>4. u \in Nat
    BY <2>2, <2>3 DEF InARow
  <2>5. QED
    BY <1>6, <2>1, <2>4
<1>8. Results(r, calls) = more
  BY <1>1, <1>3 DEF Results, ResultsIn, Turn
<1>9. /\ DOMAIN after = DOMAIN IdleRun /\ after.at = "tools"
      /\ after.todo = rest /\ after.fresh = old.fresh \o more
      /\ after.session = old.session /\ after.turn = old.turn
      /\ after.step = old.step /\ after.mark = old.mark
      /\ after.unusable = u /\ after.outcome = old.outcome
      /\ DOMAIN run' = Runs /\ \A q \in Runs \ {r} : run'[q] = run[q]
  <2>1. DOMAIN run = Runs /\ DOMAIN run[r] = DOMAIN IdleRun
    BY <1>1, <1>5 DEF SettledInv, Shapes, RunTyped
  <2>2. QED
    BY <1>1, <1>4, <1>6, <1>8, <2>1 DEF IdleRun
<1>10. AreUnanswered(old, todo)
  BY <1>1, <1>4, <1>5 DEF AreUnanswered, RunUnlogged
<1>11. /\ AreUnanswered(old, calls) /\ AreUnanswered(old, rest)
       /\ \A i \in DOMAIN calls, j \in DOMAIN rest : calls[i] # rest[j]
  <2>1. n \in 1 .. Len(todo)
    BY <1>1
  <2>2. QED
    BY <1>2, <1>10, <2>1, CallsSplit
<1>12. MoreFits(old, more)
  BY <1>3, <1>11, ResultsMore
<1>13. \A i \in DOMAIN more, j \in DOMAIN rest : more[i].calls # {rest[j]}
  <2>1. IsSeq(calls)
    BY <1>11 DEF AreUnanswered
  <2>2. PICK t : t = old.turn
    OBVIOUS
  <2>3. DOMAIN more = DOMAIN calls /\ \A i \in DOMAIN more : more[i].calls = {calls[i]}
    BY <1>3, <2>1, <2>2, ResultsOf
  <2>4. QED
    BY <1>11, <2>3
<1>14. /\ RunTyped(r, after) /\ RunUnlogged(after)
       /\ \A m \in Steerings : InHand(m, after) => InHand(m, old)
  <2>1. AreUnanswered(old, after.todo)
    BY <1>9, <1>11
  <2>2. \A i \in DOMAIN more, j \in DOMAIN after.todo :
          more[i].kind = "tool" => more[i].calls # {after.todo[j]}
    BY <1>9, <1>13
  <2>3. after.unusable \in 0 .. MaxUnusable
    BY <1>7, <1>9
  <2>4. QED
    BY <1>4, <1>5, <1>9, <1>12, <2>1, <2>2, <2>3, ToolsGrow
<1>15. NextStep(old) <= NextStep(after) /\ IsOpen(after)
  <2>1. old.step \in Nat
    BY <1>5, NextStepTyped
  <2>2. QED
    BY <1>4, <1>9, <2>1 DEF NextStep, IsWorking, IsOpen
<1>16. UNCHANGED <<sessions, store, named, stopped, inbox, steering>>
  BY DEF RunTools
<1>17. QED
  BY <1>1, <1>5, <1>9, <1>14, <1>15, <1>16, SilentStep

LEMMA AskKeeps ==
  ASSUME SettledInv, NEW r \in Runs, Ask(r)
  PROVE  SettledInv'
<1>1. PICK old, after : old = run[r] /\ after = run'[r]
  OBVIOUS
<1>2. old.at = "prepared" /\ IsWorking(old)
  BY <1>1 DEF Ask, IsWorking
<1>3. IsOpen(old) /\ RunTyped(r, old) /\ RunUnlogged(old)
  BY <1>1, <1>2, Working
<1>4. /\ DOMAIN after = DOMAIN IdleRun /\ after.at = "asking"
      /\ after.todo = old.todo /\ after.fresh = old.fresh
      /\ after.session = old.session /\ after.turn = old.turn
      /\ after.step = old.step /\ after.mark = old.mark
      /\ after.unusable = old.unusable /\ after.outcome = old.outcome
      /\ DOMAIN run' = Runs /\ \A q \in Runs \ {r} : run'[q] = run[q]
  <2>1. DOMAIN run = Runs /\ DOMAIN run[r] = DOMAIN IdleRun
    BY <1>1, <1>3 DEF SettledInv, Shapes, RunTyped
  <2>2. run' = [run EXCEPT ![r].at = "asking"]
    BY DEF Ask
  <2>3. QED
    BY <1>1, <2>1, <2>2 DEF IdleRun
<1>5. IsOpen(after) /\ IsWorking(after)
  BY <1>4 DEF IsOpen, IsWorking
<1>6. RunTyped(r, after)
  <2>1. after.step # 0 /\ after.at \in RunStep
    BY <1>3, <1>4 DEF RunTyped, RunStep
  <2>2. QED
    BY <1>3, <1>4, <2>1 DEF RunTyped
<1>7. Unlogged(after) = Unlogged(old)
  BY <1>4 DEF Unlogged
<1>8. RunUnlogged(after)
  BY <1>2, <1>3, <1>4, <1>7 DEF RunUnlogged
<1>9. \A m : InHand(m, after) => InHand(m, old)
  BY <1>2, <1>4, <1>7 DEF InHand
<1>10. NextStep(old) <= NextStep(after)
  <2>1. old.step \in Nat
    BY <1>3, NextStepTyped
  <2>2. QED
    BY <1>2, <1>4, <1>5, <2>1 DEF NextStep
<1>11. UNCHANGED <<sessions, store, named, stopped, inbox, steering>>
  BY DEF Ask
<1>12. QED
  BY <1>1, <1>3, <1>4, <1>5, <1>6, <1>8, <1>9, <1>10, <1>11, SilentStep

(* The loop returns without writing anything.                               *)
LEMMA ReturnKeeps ==
  ASSUME SettledInv, NEW r \in Runs, NEW outcome \in {"cancelled", "error"},
         IsOpen(run[r]), Return(r, outcome, <<>>),
         UNCHANGED <<sessions, store, named, stopped, inbox, steering>>
  PROVE  SettledInv'
<1>1. PICK old, after : old = run[r] /\ after = run'[r]
  OBVIOUS
<1>2. IsOpen(old) /\ RunTyped(r, old) /\ RunUnlogged(old)
  BY <1>1, OpenRun
<1>3. old.fresh \o <<>> = old.fresh
  BY <1>2, ConcatEmpty DEF RunTyped
<1>4. /\ DOMAIN after = DOMAIN IdleRun /\ after.at = "returned"
      /\ after.todo = old.todo /\ after.fresh = old.fresh
      /\ after.session = old.session /\ after.turn = old.turn
      /\ after.step = old.step /\ after.mark = old.mark
      /\ after.unusable = old.unusable /\ after.outcome = outcome
      /\ DOMAIN run' = Runs /\ \A q \in Runs \ {r} : run'[q] = run[q]
  <2>1. DOMAIN run = Runs /\ DOMAIN run[r] = DOMAIN IdleRun
    BY <1>1, <1>2 DEF SettledInv, Shapes, RunTyped
  <2>2. run' = [run EXCEPT ![r].at = "returned", ![r].outcome = outcome,
                           ![r].fresh = @ \o <<>>]
    BY DEF Return
  <2>3. QED
    BY <1>1, <1>3, <2>1, <2>2 DEF IdleRun
<1>5. IsOpen(after) /\ ~IsWorking(after)
  BY <1>4 DEF IsOpen, IsWorking
<1>6. RunTyped(r, after)
  <2>1. after.step # 0 /\ after.at \in RunStep
    BY <1>2, <1>4 DEF RunTyped, RunStep
  <2>2. QED
    BY <1>2, <1>4, <2>1 DEF RunTyped
<1>7. RunUnlogged(after)
  BY <1>5 DEF RunUnlogged
<1>8. \A m : ~InHand(m, after)
  BY <1>5 DEF InHand
<1>9. NextStep(old) <= NextStep(after)
  <2>1. old.step \in Nat
    BY <1>2, NextStepTyped
  <2>2. NextStep(after) = old.step + 1
    BY <1>4, <1>5 DEF NextStep
  <2>3. NextStep(old) \in {old.step, old.step + 1}
    BY DEF NextStep
  <2>4. QED
    BY <2>1, <2>2, <2>3
<1>10. QED
  BY <1>1, <1>4, <1>5, <1>6, <1>7, <1>8, <1>9, SilentStep

LEMMA NoticeStopKeeps ==
  ASSUME SettledInv, NEW r \in Runs, NoticeStop(r)
  PROVE  SettledInv'
  BY ReturnKeeps DEF NoticeStop, IsOpen

LEMMA GiveUpKeeps ==
  ASSUME SettledInv, NEW r \in Runs, GiveUp(r)
  PROVE  SettledInv'
  BY ReturnKeeps DEF GiveUp, IsOpen

-----------------------------------------------------------------------------
(* Steps that write an event of the turn, and what was steered.             *)

LEMMA StepEvent ==
  ASSUME NEW st, Sound(st), SteeringsApart, NEW t \in DOMAIN st.turns,
         NEW kind \in {"stepStart", "stepEnd"},
         NEW e, e = Event(kind, t, "said", {}), NEW ms, ms = <<e>>,
         NEW new, new = Logged(st, e)
  PROVE  /\ Fits(st, ms) /\ Grows(st, ms, new) /\ IsSeq(ms)
         /\ \A i \in DOMAIN ms : /\ ms[i].turn = t /\ ms[i].calls = {}
                                 /\ ms[i].text \notin Steerings
<1>1. /\ e.kind = kind /\ e.turn = t /\ e.text = "said" /\ e.calls = {}
  BY DEF Event
<1>2. e.text \notin Steerings
  BY <1>1 DEF SteeringsApart
<1>3. t \in Nat \ {0}
  BY SoundLog
<1>4. EventTyped(e)
  BY <1>1, <1>3, FS_EmptySet DEF EventTyped
<1>5. Fits(st, <<e>>)
  BY <1>1, <1>2, <1>4, EventFits
<1>6. Grows(st, <<e>>, Logged(st, e))
  BY LoggedGrows
<1>7. IsSeq(ms) /\ DOMAIN ms = {1} /\ ms[1] = e
  BY SingleSeq
<1>8. QED
  BY <1>1, <1>2, <1>5, <1>6, <1>7

(* The messages of a turn.                                                  *)
Spoken(f, t) ==
  /\ IsSeq(f)
  /\ \A i \in DOMAIN f :
       /\ f[i].kind \in {"user", "assistant", "tool"} /\ f[i].turn = t
       /\ IsFiniteSet(f[i].calls)
       /\ f[i].kind = "tool" => f[i].calls # {}

LEMMA SpokenMore ==
  ASSUME NEW f, NEW ms, NEW t, Spoken(f, t), Spoken(ms, t), NEW g, g = f \o ms
  PROVE  /\ Spoken(g, t) /\ Len(g) = Len(f) + Len(ms)
         /\ Len(f) \in Nat /\ Len(ms) \in Nat
<1>1. IsSeq(f) /\ IsSeq(ms)
  BY DEF Spoken
<1>2. Joined(f, ms, g)
  BY <1>1, Split
<1>3. Len(g) = Len(f) + Len(ms) /\ Len(f) \in Nat /\ Len(ms) \in Nat
  BY <1>1, ConcatSeq
<1>4. Spoken(g, t)
  BY <1>2 DEF Spoken, Joined
<1>5. QED
  BY <1>3, <1>4

(* The messages ms make of what is pending, p.                              *)
SteeredIn(ms, p, t) ==
  /\ Spoken(ms, t) /\ IsSeq(p) /\ DOMAIN ms = DOMAIN p /\ Len(ms) = Len(p)
  /\ \A i \in DOMAIN ms : /\ ms[i].kind = "user" /\ ms[i].calls = {}
                          /\ ms[i].text = p[i]
  /\ \A i, j \in DOMAIN p : p[i] = p[j] => i = j

LEMMA SteeredAre ==
  ASSUME SettledInv, NEW r \in Runs, NEW p, p = inbox[r].pending,
         NEW ms, ms = Steered(r), NEW t, t = Turn(r)
  PROVE  SteeredIn(ms, p, t)
<1>1. IsSeq(p) /\ \A i, j \in DOMAIN p : p[i] = p[j] => i = j
  BY DEF SettledInv, SteeringInv, PendingOnce
<1>2. PICK n : n = Len(p)
  OBVIOUS
<1>3. n \in Nat /\ DOMAIN p = 1 .. n
  BY <1>1, <1>2, SeqFacts
<1>4. /\ DOMAIN ms = DOMAIN p /\ ms = [i \in DOMAIN p |-> ms[i]]
      /\ \A i \in DOMAIN p : ms[i] = User(Turn(r), p[i])
  BY DEF Steered
<1>5. IsSeq(ms) /\ Len(ms) = n
  BY <1>3, <1>4, FunSeq
<1>6. \A u, m : /\ User(u, m).kind = "user" /\ User(u, m).turn = u
                /\ User(u, m).text = m /\ User(u, m).calls = {}
  BY DEF User, Event
<1>7. \A i \in DOMAIN ms : /\ ms[i].kind = "user" /\ ms[i].calls = {}
                           /\ ms[i].text = p[i] /\ ms[i].turn = Turn(r)
  BY <1>4, <1>6
<1>8. Spoken(ms, Turn(r))
  BY <1>5, <1>7, FS_EmptySet DEF Spoken
<1>9. QED
  BY <1>1, <1>2, <1>4, <1>5, <1>7, <1>8 DEF SteeredIn

(* What is pending is taken out of the run's inbox.                         *)
Emptied(r, to) ==
  /\ inbox' = [inbox EXCEPT ![r].pending = <<>>]
  /\ steering' = [m \in Steerings |->
       IF m \in SetOf(inbox[r].pending)
       THEN [steering[m] EXCEPT !.at = to] ELSE steering[m]]

LEMMA EmptiedKeeps ==
  ASSUME SettledInv, NEW r \in Runs, NEW call, NEW s, NEW new,
         Steps(r, call, s, new), NEW to \in {"claimed", "discarded"},
         Emptied(r, to), UNCHANGED stopped,
         named' \in [Runs -> Sessions \cup {NoSession}]
  PROVE  /\ Shapes' /\ PendingOnce'
         /\ \A m \in Steerings : IsUnseen(m)' => IsUnseen(m)
         /\ \A m \in SetOf(inbox[r].pending) :
              m \in Steerings /\ IsUnseen(m) /\ ~IsUnseen(m)'
<1>1. Shapes /\ PendingOnce
  BY DEF SettledInv, SteeringInv
<1>2. /\ DOMAIN inbox = Runs /\ \A q \in Runs : DOMAIN inbox[q] = {"active", "pending"}
      /\ inbox' = [inbox EXCEPT ![r].pending = <<>>]
  BY <1>1 DEF Shapes, Emptied
<1>3. /\ DOMAIN inbox' = Runs
      /\ \A q \in Runs : DOMAIN inbox'[q] = {"active", "pending"}
      /\ inbox'[r].pending = <<>>
      /\ \A q \in Runs \ {r} : inbox'[q] = inbox[q]
  BY <1>2
<1>4. PICK taken : taken = SetOf(inbox[r].pending)
  OBVIOUS
<1>5. /\ DOMAIN steering' = Steerings
      /\ \A m \in Steerings :
           steering'[m] = IF m \in taken THEN [steering[m] EXCEPT !.at = to]
                                         ELSE steering[m]
  BY <1>4 DEF Emptied
<1>6. \A m \in Steerings : DOMAIN steering[m] = {"at", "run"}
  BY <1>1 DEF Shapes
<1>7. \A m \in Steerings :
        /\ DOMAIN steering'[m] = {"at", "run"}
        /\ m \in taken => steering'[m].at = to
        /\ m \notin taken => steering'[m] = steering[m]
  BY <1>5, <1>6
<1>8. \A m \in taken : m \in Steerings /\ steering[m].at = "accepted"
                       /\ steering[m].run = r
  BY <1>1, <1>4 DEF PendingOnce, SetOf
<1>9. Shapes'
  BY <1>1, <1>3, <1>5, <1>7 DEF Shapes, Steps
<1>10. ASSUME NEW q \in Runs
       PROVE  /\ IsSeq(inbox'[q].pending)
              /\ \A i \in DOMAIN inbox'[q].pending :
                   /\ inbox'[q].pending[i] \in Steerings
                   /\ steering'[inbox'[q].pending[i]].at = "accepted"
                   /\ steering'[inbox'[q].pending[i]].run = q
              /\ \A i, j \in DOMAIN inbox'[q].pending :
                   inbox'[q].pending[i] = inbox'[q].pending[j] => i = j
  <2>1. CASE q = r
    <3>1. PICK none : none = <<>>
      OBVIOUS
    <3>2. inbox'[q].pending = none /\ IsSeq(none) /\ DOMAIN none = {}
      BY <1>3, <2>1, <3>1, EmptyIsSeq
    <3>3. QED
      BY <3>2
  <2>2. CASE q # r
    <3>1. inbox'[q] = inbox[q]
      BY <1>3, <2>2
    <3>2. /\ IsSeq(inbox[q].pending)
          /\ \A i \in DOMAIN inbox[q].pending :
               /\ inbox[q].pending[i] \in Steerings
               /\ steering[inbox[q].pending[i]].at = "accepted"
               /\ steering[inbox[q].pending[i]].run = q
          /\ \A i, j \in DOMAIN inbox[q].pending :
               inbox[q].pending[i] = inbox[q].pending[j] => i = j
      BY <1>1 DEF PendingOnce
    <3>3. \A i \in DOMAIN inbox[q].pending : inbox[q].pending[i] \notin taken
      BY <1>8, <2>2, <3>2
    <3>4. QED
      BY <1>7, <3>1, <3>2, <3>3
  <2>3. QED
    BY <2>1, <2>2
<1>11. PendingOnce'
  BY <1>10 DEF PendingOnce
<1>12. \A m \in Steerings : IsUnseen(m)' => IsUnseen(m)
  BY <1>7 DEF IsUnseen
<1>13. \A m \in taken : m \in Steerings /\ IsUnseen(m) /\ ~IsUnseen(m)'
  BY <1>7, <1>8 DEF IsUnseen
<1>14. QED
  BY <1>4, <1>9, <1>11, <1>12, <1>13

LEMMA ClaimKeeps ==
  ASSUME SettledInv, NEW r \in Runs, NEW call, NEW s, NEW new,
         Steps(r, call, s, new), Claim(r), UNCHANGED <<named, stopped>>
  PROVE  /\ Shapes' /\ PendingOnce'
         /\ \A m \in Steerings : IsUnseen(m)' => IsUnseen(m)
         /\ \A m \in SetOf(inbox[r].pending) :
              m \in Steerings /\ IsUnseen(m) /\ ~IsUnseen(m)'
<1>1. PICK to \in {"claimed", "discarded"} : to = "claimed"
  OBVIOUS
<1>2. Emptied(r, to)
  BY <1>1 DEF Claim, Emptied
<1>3. named' \in [Runs -> Sessions \cup {NoSession}]
  BY DEF SettledInv, Shapes
<1>4. QED
  BY <1>2, <1>3, EmptiedKeeps

LEMMA BeginStepKeeps ==
  ASSUME SteeringsApart, SettledInv, NEW r \in Runs, BeginStep(r)
  PROVE  SettledInv'
<1>1. PICK old, s, st, t, after :
        /\ old = run[r] /\ s = old.session /\ st = store[s] /\ t = old.turn
        /\ after = run'[r]
  OBVIOUS
<1>2. PICK e, ms, new : /\ e = Event("stepStart", t, "said", {})
                        /\ ms = <<e>> /\ new = Logged(st, e)
  OBVIOUS
<1>3. PICK f, p, said : f = old.fresh /\ p = inbox[r].pending /\ said = Steered(r)
  OBVIOUS
<1>4. old.at = "step" /\ IsOpen(old)
  BY <1>1 DEF BeginStep, IsOpen
<1>5. /\ s \in Sessions /\ Sound(st) /\ RunLogged(old, st) /\ RunTyped(r, old)
      /\ RunUnlogged(old)
  BY <1>1, <1>4, OpenRun
<1>6. /\ Fits(st, ms) /\ Grows(st, ms, new) /\ IsSeq(ms)
      /\ \A i \in DOMAIN ms : /\ ms[i].turn = t /\ ms[i].calls = {}
                              /\ ms[i].text \notin Steerings
  <2>1. t \in DOMAIN st.turns
    BY <1>1, <1>5 DEF RunLogged
  <2>2. PICK kind \in {"stepStart", "stepEnd"} : kind = "stepStart"
    OBVIOUS
  <2>3. e = Event(kind, t, "said", {})
    BY <1>2, <2>2
  <2>4. QED
    BY <1>2, <1>5, <2>1, <2>3, StepEvent
<1>7. /\ Spoken(said, t) /\ IsSeq(p) /\ DOMAIN said = DOMAIN p /\ Len(said) = Len(p)
      /\ \A i \in DOMAIN said : /\ said[i].kind = "user" /\ said[i].calls = {}
                                /\ said[i].text = p[i]
      /\ \A i, j \in DOMAIN p : p[i] = p[j] => i = j
  <2>1. t = Turn(r)
    BY <1>1 DEF Turn
  <2>2. SteeredIn(said, p, t)
    BY <1>3, <2>1, SteeredAre
  <2>3. QED
    BY <2>2 DEF SteeredIn
<1>8. /\ DOMAIN after = DOMAIN IdleRun /\ after.at = "prepared"
      /\ after.fresh = f \o said /\ after.mark = Len(f)
      /\ after.session = old.session /\ after.turn = old.turn
      /\ after.step = old.step /\ after.todo = old.todo
      /\ after.unusable = old.unusable /\ after.outcome = old.outcome
      /\ DOMAIN run' = Runs /\ \A q \in Runs \ {r} : run'[q] = run[q]
  <2>1. DOMAIN run = Runs /\ DOMAIN run[r] = DOMAIN IdleRun
    BY <1>1, <1>5 DEF SettledInv, Shapes, RunTyped
  <2>2. run' = [run EXCEPT ![r].at = "prepared", ![r].mark = Len(run[r].fresh),
                           ![r].fresh = @ \o Steered(r)]
    BY DEF BeginStep
  <2>3. QED
    BY <1>1, <1>3, <2>1, <2>2 DEF IdleRun
<1>9. Spoken(f, t)
  BY <1>1, <1>3, <1>5 DEF RunTyped, Spoken
<1>10. PICK g : g = f \o said
  OBVIOUS
<1>11. /\ Spoken(g, t) /\ Len(g) = Len(f) + Len(said) /\ Len(f) \in Nat
       /\ Len(said) \in Nat /\ Joined(f, said, g)
  <2>1. IsSeq(f) /\ IsSeq(said)
    BY <1>7, <1>9 DEF Spoken
  <2>2. Joined(f, said, g)
    BY <1>10, <2>1, Split
  <2>3. QED
    BY <1>7, <1>9, <1>10, <2>2, SpokenMore
<1>12. IsOpen(after) /\ IsWorking(after)
  BY <1>8 DEF IsOpen, IsWorking
<1>13. RunTyped(r, after)
  <2>1. after.step # 0 /\ after.at \in RunStep
    BY <1>4, <1>5, <1>8 DEF RunTyped, RunStep
  <2>2. after.mark \in 0 .. Len(g) /\ IsSeq(after.fresh) /\ after.fresh = g
    BY <1>8, <1>10, <1>11 DEF Spoken
  <2>3. \A i \in DOMAIN g :
          /\ g[i].kind \in {"user", "assistant", "tool"}
          /\ g[i].turn = after.turn /\ IsFiniteSet(g[i].calls)
          /\ g[i].kind = "tool" => g[i].calls # {}
    BY <1>1, <1>8, <1>11 DEF Spoken
  <2>4. QED
    BY <1>5, <1>8, <2>1, <2>2, <2>3 DEF RunTyped
<1>14. \A i \in Unlogged(after) : \E k \in DOMAIN said :
         i = Len(f) + k /\ after.fresh[i] = said[k]
  <2>1. Unlogged(after) = Len(f) + 1 .. Len(g)
    BY <1>8, <1>10 DEF Unlogged
  <2>2. ASSUME NEW i \in Len(f) + 1 .. Len(g)
        PROVE  \E k \in DOMAIN said : i = Len(f) + k /\ g[i] = said[k]
    <3>1. i \in DOMAIN g /\ i \notin DOMAIN f
      <4>1. DOMAIN g = 1 .. Len(g) /\ DOMAIN f = 1 .. Len(f)
        BY <1>9, <1>11, SeqFacts DEF Spoken
      <4>2. QED
        BY <1>11, <2>2, <4>1
    <3>2. QED
      BY <1>11, <3>1 DEF Joined
  <2>3. after.fresh = g
    BY <1>8, <1>10
  <2>4. QED
    BY <2>1, <2>2, <2>3, Zenon
<1>15. RunUnlogged(after)
  <2>1. \A k, l \in DOMAIN said :
          ~SameResult(said[k], said[l])
    BY <1>7 DEF SameResult
  <2>2. \A k, l \in DOMAIN said : SameSteering(said[k], said[l]) => k = l
    BY <1>7 DEF SameSteering
  <2>3. \A i, j \in Unlogged(after) :
          \/ SameResult(after.fresh[i], after.fresh[j])
          \/ SameSteering(after.fresh[i], after.fresh[j])
          => i = j
    BY <1>14, <2>1, <2>2
  <2>4. \A i \in Unlogged(after) :
          after.fresh[i].kind = "user" /\ after.fresh[i].calls = {}
    BY <1>7, <1>14
  <2>5. QED
    BY <1>8, <2>3, <2>4 DEF RunUnlogged
<1>16. RunLogged(after, new)
  <2>1. NextStep(old) = old.step /\ NextStep(after) = old.step /\ old.step \in Nat
    BY <1>4, <1>5, <1>8, <1>12, NextStepTyped DEF NextStep
  <2>2. QED
    BY <1>5, <1>6, <1>8, <2>1, LoggedStill
<1>17. GoesOn(r, after, new)
  BY <1>1, <1>8, <1>13, <1>15, <1>16 DEF GoesOn
<1>18. Steps(r, after, s, new)
  <2>1. store' = [store EXCEPT ![s] = new] /\ UNCHANGED sessions
    BY <1>1, <1>2 DEF BeginStep, Write, Own, StartStep, Turn
  <2>2. QED
    BY <1>1, <1>5, <1>8, <2>1 DEF Steps, SettledInv, Shapes
<1>19. LogsInv' /\ RunsInv'
  <2>1. /\ Fits(store[s], ms) /\ Grows(store[s], ms, new) /\ s = run[r].session
        /\ \A i \in DOMAIN ms : ms[i].turn = run[r].turn
        /\ IsOpen(run[r])
    BY <1>1, <1>4, <1>6
  <2>2. QED
    BY <1>17, <1>18, <2>1, StepKeeps
<1>20. /\ Shapes' /\ PendingOnce'
       /\ \A m \in Steerings : IsUnseen(m)' => IsUnseen(m)
       /\ \A m \in SetOf(p) : m \in Steerings /\ IsUnseen(m) /\ ~IsUnseen(m)'
  <2>1. Claim(r) /\ UNCHANGED <<named, stopped>>
    BY DEF BeginStep
  <2>2. QED
    BY <1>3, <1>18, <2>1, ClaimKeeps
<1>21. Steers(r, after, ms)
  <2>1. \A m \in Steerings : InHand(m, after) => m \in SetOf(p)
    BY <1>7, <1>14 DEF InHand, SetOf
  <2>2. QED
    BY <1>6, <1>20, <2>1 DEF Steers
<1>22. UnseenIsNowhere' /\ InHandOnce'
  <2>1. Grows(store[s], ms, new)
    BY <1>1, <1>6
  <2>2. QED
    BY <1>5, <1>6, <1>18, <1>21, <2>1, StepSteers
<1>23. QED
  BY <1>19, <1>20, <1>22 DEF SettledInv, SteeringInv

LEMMA LeftStep ==
  ASSUME NEW r \in Runs, NEW old, NEW after, NEW g,
         RunTyped(r, old), IsOpen(old), old.at \in {"settled", "answered"},
         DOMAIN after = DOMAIN IdleRun,
         \/ /\ after.at = "returned" /\ after.step = old.step
            /\ after.outcome \in {"ok", "cancelled", "error"}
         \/ /\ after.at = "step" /\ old.step # MaxSteps[r]
            /\ after.step = old.step + 1 /\ after.outcome = "none",
         after.fresh = g, Spoken(g, old.turn), Len(old.fresh) <= Len(g),
         after.mark = old.mark, after.turn = old.turn,
         after.session = old.session, after.todo = old.todo,
         after.unusable = old.unusable
  PROVE  /\ IsOpen(after) /\ ~IsWorking(after) /\ RunTyped(r, after)
         /\ RunUnlogged(after) /\ NextStep(after) = old.step + 1
         /\ NextStep(old) = old.step + 1 /\ old.step \in Nat
         /\ \A m \in Steerings : ~InHand(m, after)
<1>1. IsOpen(after) /\ ~IsWorking(after) /\ ~IsWorking(old) /\ old.at # "step"
  BY DEF IsOpen, IsWorking
<1>2. old.step \in Nat /\ MaxSteps[r] \in Nat /\ old.step \in 0 .. MaxSteps[r]
  BY NextStepTyped DEF RunTyped
<1>3. after.step \in 0 .. MaxSteps[r] /\ after.step # 0
  BY <1>2 DEF RunTyped
<1>4. NextStep(after) = old.step + 1 /\ NextStep(old) = old.step + 1
  BY <1>1 DEF NextStep
<1>5. after.mark \in 0 .. Len(g) /\ IsSeq(g)
  <2>1. IsSeq(g) /\ IsSeq(old.fresh) /\ old.mark \in 0 .. Len(old.fresh)
    BY DEF Spoken, RunTyped
  <2>2. PICK h : h = old.fresh
    OBVIOUS
  <2>3. Len(g) \in Nat /\ Len(h) \in Nat
    BY <2>1, <2>2, SeqFacts
  <2>4. QED
    BY <2>1, <2>2, <2>3
<1>6. RunTyped(r, after)
  <2>1. \A i \in DOMAIN g :
          /\ g[i].kind \in {"user", "assistant", "tool"}
          /\ g[i].turn = after.turn /\ IsFiniteSet(g[i].calls)
          /\ g[i].kind = "tool" => g[i].calls # {}
    BY DEF Spoken
  <2>2. after.at \in RunStep /\ after.at \notin {"closed", "settled"}
    BY DEF RunStep
  <2>3. IsSeq(after.todo) /\ after.unusable \in 0 .. MaxUnusable
    BY DEF RunTyped
  <2>4. /\ after.outcome \in {"none", "again", "ok", "cancelled", "error"}
        /\ after.at = "returned" => after.outcome \in {"ok", "cancelled", "error"}
    OBVIOUS
  <2>5. QED
    BY <1>3, <1>5, <2>1, <2>2, <2>3, <2>4 DEF RunTyped
<1>7. RunUnlogged(after) /\ \A m \in Steerings : ~InHand(m, after)
  BY <1>1 DEF RunUnlogged, InHand
<1>8. QED
  BY <1>1, <1>2, <1>4, <1>6, <1>7

LEMMA LeaveStepKeeps ==
  ASSUME SteeringsApart, SettledInv, NEW r \in Runs, LeaveStep(r)
  PROVE  SettledInv'
<1>1. PICK old, s, st, t, after :
        /\ old = run[r] /\ s = old.session /\ st = store[s] /\ t = old.turn
        /\ after = run'[r]
  OBVIOUS
<1>2. PICK e, ms, new : /\ e = Event("stepEnd", t, "said", {})
                        /\ ms = <<e>> /\ new = Logged(st, e)
  OBVIOUS
<1>3. old.at = "settled" /\ IsOpen(old)
  BY <1>1 DEF LeaveStep, IsOpen
<1>4. /\ s \in Sessions /\ Sound(st) /\ RunLogged(old, st) /\ RunTyped(r, old)
  BY <1>1, <1>3, OpenRun
<1>5. /\ Fits(st, ms) /\ Grows(st, ms, new) /\ IsSeq(ms)
      /\ \A i \in DOMAIN ms : /\ ms[i].turn = t /\ ms[i].calls = {}
                              /\ ms[i].text \notin Steerings
  <2>1. t \in DOMAIN st.turns
    BY <1>1, <1>4 DEF RunLogged
  <2>2. PICK kind \in {"stepStart", "stepEnd"} : kind = "stepEnd"
    OBVIOUS
  <2>3. e = Event(kind, t, "said", {})
    BY <1>2, <2>2
  <2>4. QED
    BY <1>2, <1>4, <2>1, <2>3, StepEvent
<1>6. /\ DOMAIN after = DOMAIN IdleRun
      /\ \/ /\ after.at = "returned" /\ after.step = old.step
            /\ after.outcome \in {"ok", "cancelled", "error"}
         \/ /\ after.at = "step" /\ old.step # MaxSteps[r]
            /\ after.step = old.step + 1 /\ after.outcome = "none"
      /\ after.fresh = old.fresh /\ after.mark = old.mark
      /\ after.turn = old.turn /\ after.session = old.session
      /\ after.todo = old.todo /\ after.unusable = old.unusable
      /\ DOMAIN run' = Runs /\ \A q \in Runs \ {r} : run'[q] = run[q]
  <2>1. DOMAIN run = Runs /\ DOMAIN run[r] = DOMAIN IdleRun
    BY <1>1, <1>4 DEF SettledInv, Shapes, RunTyped
  <2>2. old.fresh \o <<>> = old.fresh
    BY <1>4, ConcatEmpty DEF RunTyped
  <2>3. old.outcome \in {"again", "cancelled", "error"}
    BY <1>3, <1>4 DEF RunTyped
  <2>4. CASE old.outcome # "again"
    <3>1. run' = [run EXCEPT ![r].at = "returned", ![r].outcome = old.outcome,
                             ![r].fresh = @ \o <<>>]
      BY <1>1, <2>4 DEF LeaveStep, Return
    <3>2. QED
      BY <1>1, <2>1, <2>2, <2>3, <2>4, <3>1 DEF IdleRun
  <2>5. CASE old.outcome = "again" /\ old.step = MaxSteps[r]
    <3>1. run' = [run EXCEPT ![r].at = "returned", ![r].outcome = "error",
                             ![r].fresh = @ \o <<>>]
      BY <1>1, <2>5 DEF LeaveStep, Return
    <3>2. QED
      BY <1>1, <2>1, <2>2, <3>1 DEF IdleRun
  <2>6. CASE old.outcome = "again" /\ old.step # MaxSteps[r]
    <3>1. run' = [run EXCEPT ![r].at = "step", ![r].step = @ + 1,
                             ![r].outcome = "none"]
      BY <1>1, <2>6 DEF LeaveStep
    <3>2. QED
      BY <1>1, <2>1, <2>6, <3>1 DEF IdleRun
  <2>7. QED
    BY <2>4, <2>5, <2>6
<1>7. /\ IsOpen(after) /\ RunTyped(r, after) /\ RunUnlogged(after)
      /\ NextStep(after) = old.step + 1 /\ NextStep(old) = old.step + 1
      /\ old.step \in Nat /\ \A m \in Steerings : ~InHand(m, after)
  <2>1. PICK g : g = old.fresh
    OBVIOUS
  <2>2. Spoken(g, old.turn) /\ Len(old.fresh) <= Len(g) /\ after.fresh = g
    <3>1. IsSeq(g)
      BY <1>4, <2>1 DEF RunTyped
    <3>2. Len(g) \in Nat
      BY <3>1, SeqFacts
    <3>3. QED
      BY <1>4, <1>6, <2>1, <3>1, <3>2 DEF Spoken, RunTyped
  <2>3. old.at \in {"settled", "answered"}
    BY <1>3
  <2>4. QED
    BY <1>3, <1>4, <1>6, <2>2, <2>3, LeftStep, ZenonT(40)
<1>8. RunLogged(after, new)
  <2>1. NextStep(old) \in Nat /\ NextStep(after) \in Nat
        /\ NextStep(old) <= NextStep(after)
    BY <1>7
  <2>2. QED
    BY <1>4, <1>5, <1>6, <2>1, LoggedStill
<1>9. GoesOn(r, after, new)
  BY <1>1, <1>6, <1>7, <1>8 DEF GoesOn
<1>10. Steps(r, after, s, new)
  <2>1. store' = [store EXCEPT ![s] = new] /\ UNCHANGED sessions
    BY <1>1, <1>2 DEF LeaveStep, Write, Own, EndStep, Turn
  <2>2. QED
    BY <1>1, <1>4, <1>6, <2>1 DEF Steps, SettledInv, Shapes
<1>11. /\ Fits(store[s], ms) /\ Grows(store[s], ms, new) /\ s = run[r].session
       /\ \A i \in DOMAIN ms : ms[i].turn = run[r].turn
       /\ IsOpen(run[r])
       /\ \A m \in Steerings : ~ \E i \in DOMAIN ms : ms[i].text = m
  BY <1>1, <1>3, <1>5
<1>12. UNCHANGED <<named, stopped, inbox, steering>>
  BY DEF LeaveStep
<1>13. QED
  BY <1>7, <1>9, <1>10, <1>11, <1>12, PlainStep

LEMMA ConcludeKeeps ==
  ASSUME SteeringsApart, SettledInv, NEW r \in Runs, Conclude(r)
  PROVE  SettledInv'
<1>1. PICK old, s, st, t, after :
        /\ old = run[r] /\ s = old.session /\ st = store[s] /\ t = old.turn
        /\ after = run'[r]
  OBVIOUS
<1>2. PICK e, ms, new : /\ e = Event("stepEnd", t, "said", {})
                        /\ ms = <<e>> /\ new = Logged(st, e)
  OBVIOUS
<1>3. PICK f, p, said, g : /\ f = old.fresh /\ p = inbox[r].pending
                           /\ said = Steered(r) /\ g = after.fresh
  OBVIOUS
<1>4. old.at = "answered" /\ IsOpen(old)
  BY <1>1 DEF Conclude, IsOpen
<1>5. /\ s \in Sessions /\ Sound(st) /\ RunLogged(old, st) /\ RunTyped(r, old)
  BY <1>1, <1>4, OpenRun
<1>6. /\ Fits(st, ms) /\ Grows(st, ms, new) /\ IsSeq(ms)
      /\ \A i \in DOMAIN ms : /\ ms[i].turn = t /\ ms[i].calls = {}
                              /\ ms[i].text \notin Steerings
  <2>1. t \in DOMAIN st.turns
    BY <1>1, <1>5 DEF RunLogged
  <2>2. PICK kind \in {"stepStart", "stepEnd"} : kind = "stepEnd"
    OBVIOUS
  <2>3. e = Event(kind, t, "said", {})
    BY <1>2, <2>2
  <2>4. QED
    BY <1>2, <1>5, <2>1, <2>3, StepEvent
<1>7. Spoken(said, t)
  <2>1. t = Turn(r)
    BY <1>1 DEF Turn
  <2>2. SteeredIn(said, p, t)
    BY <1>3, <2>1, SteeredAre
  <2>3. QED
    BY <2>2 DEF SteeredIn
<1>8. Spoken(f, t) /\ Len(f) \in Nat
  <2>1. IsSeq(f)
    BY <1>3, <1>5 DEF RunTyped
  <2>2. Len(f) \in Nat
    BY <2>1, SeqFacts
  <2>3. QED
    BY <1>1, <1>3, <1>5, <2>2 DEF RunTyped, Spoken
<1>9. /\ DOMAIN after = DOMAIN IdleRun
      /\ \/ /\ after.at = "returned" /\ after.step = old.step
            /\ after.outcome \in {"ok", "cancelled", "error"}
         \/ /\ after.at = "step" /\ old.step # MaxSteps[r]
            /\ after.step = old.step + 1 /\ after.outcome = "none"
      /\ g = f \/ g = f \o said
      /\ after.mark = old.mark
      /\ after.turn = old.turn /\ after.session = old.session
      /\ after.todo = old.todo /\ after.unusable = old.unusable
      /\ DOMAIN run' = Runs /\ \A q \in Runs \ {r} : run'[q] = run[q]
  <2>1. DOMAIN run = Runs /\ DOMAIN run[r] = DOMAIN IdleRun
    BY <1>1, <1>5 DEF SettledInv, Shapes, RunTyped
  <2>2. old.fresh \o <<>> = old.fresh
    BY <1>5, ConcatEmpty DEF RunTyped
  <2>3. CASE p = <<>>
    <3>1. run' = [run EXCEPT ![r].at = "returned", ![r].outcome = "ok",
                             ![r].fresh = @ \o <<>>]
      BY <1>3, <2>3 DEF Conclude, Return
    <3>2. QED
      BY <1>1, <1>3, <2>1, <2>2, <3>1 DEF IdleRun
  <2>4. CASE p # <<>> /\ old.step = MaxSteps[r]
    <3>1. run' = [run EXCEPT ![r].at = "returned", ![r].outcome = "error",
                             ![r].fresh = @ \o <<>>]
      BY <1>1, <1>3, <2>4 DEF Conclude, Return
    <3>2. QED
      BY <1>1, <1>3, <2>1, <2>2, <3>1 DEF IdleRun
  <2>5. CASE p # <<>> /\ old.step # MaxSteps[r]
    <3>1. run' = [run EXCEPT ![r].at = "step", ![r].step = @ + 1,
                             ![r].outcome = "none",
                             ![r].fresh = @ \o said]
      BY <1>1, <1>3, <2>5 DEF Conclude
    <3>2. QED
      BY <1>1, <1>3, <2>1, <2>5, <3>1 DEF IdleRun
  <2>6. QED
    BY <2>3, <2>4, <2>5
<1>10. /\ IsOpen(after) /\ RunTyped(r, after) /\ RunUnlogged(after)
       /\ NextStep(after) = old.step + 1 /\ NextStep(old) = old.step + 1
       /\ old.step \in Nat /\ \A m \in Steerings : ~InHand(m, after)
  <2>1. Spoken(g, t) /\ Len(f) <= Len(g)
    <3>1. CASE g = f
      BY <1>8, <3>1
    <3>2. CASE g = f \o said
      <4>1. Spoken(g, t) /\ Len(g) = Len(f) + Len(said) /\ Len(said) \in Nat
        BY <1>7, <1>8, <3>2, SpokenMore
      <4>2. QED
        BY <1>8, <4>1
    <3>3. QED
      BY <1>9, <3>1, <3>2
  <2>2. old.at \in {"settled", "answered"}
    BY <1>4
  <2>3. after.fresh = g /\ Spoken(g, old.turn) /\ Len(old.fresh) <= Len(g)
    BY <1>1, <1>3, <2>1
  <2>4. QED
    BY <1>4, <1>5, <1>9, <2>2, <2>3, LeftStep
<1>11. RunLogged(after, new)
  <2>1. NextStep(old) \in Nat /\ NextStep(after) \in Nat
        /\ NextStep(old) <= NextStep(after)
    BY <1>10
  <2>2. \A i \in DOMAIN ms : ms[i].turn = old.turn =>
          \A c \in ms[i].calls : c[2] \in 1 .. NextStep(after) - 1
    BY <1>6
  <2>3. QED
    BY <1>5, <1>6, <1>9, <2>1, <2>2, LoggedStill
<1>12. GoesOn(r, after, new)
  BY <1>1, <1>9, <1>10, <1>11 DEF GoesOn
<1>13. Steps(r, after, s, new)
  <2>1. store' = [store EXCEPT ![s] = new] /\ UNCHANGED sessions
    BY <1>1, <1>2 DEF Conclude, Write, Own, EndStep, Turn
  <2>2. QED
    BY <1>1, <1>5, <1>9, <2>1 DEF Steps, SettledInv, Shapes
<1>14. LogsInv' /\ RunsInv'
  <2>1. /\ Fits(store[s], ms) /\ Grows(store[s], ms, new) /\ s = run[r].session
        /\ \A i \in DOMAIN ms : ms[i].turn = run[r].turn
        /\ IsOpen(run[r])
    BY <1>1, <1>4, <1>6
  <2>2. QED
    BY <1>12, <1>13, <2>1, StepKeeps
<1>15. /\ Shapes' /\ PendingOnce'
       /\ \A m \in Steerings : IsUnseen(m)' => IsUnseen(m)
  <2>1. Claim(r) /\ UNCHANGED <<named, stopped>>
    BY DEF Conclude
  <2>2. QED
    BY <1>13, <2>1, ClaimKeeps
<1>16. Steers(r, after, ms)
  BY <1>6, <1>10, <1>15 DEF Steers
<1>17. UnseenIsNowhere' /\ InHandOnce'
  <2>1. Grows(store[s], ms, new)
    BY <1>1, <1>6
  <2>2. QED
    BY <1>5, <1>6, <1>13, <1>16, <2>1, StepSteers
<1>18. QED
  BY <1>14, <1>15, <1>17 DEF SettledInv, SteeringInv

(* A run whose requests alone have changed.                                 *)
LEMMA SameSteps ==
  ASSUME NEW r \in Runs, NEW old, NEW after, RunTyped(r, old), RunUnlogged(old),
         IsOpen(old), DOMAIN after = DOMAIN IdleRun, after.at = old.at,
         after.fresh = old.fresh, after.mark = old.mark,
         after.turn = old.turn, after.session = old.session,
         after.todo = old.todo, after.unusable = old.unusable,
         after.step = old.step, after.outcome = old.outcome
  PROVE  /\ IsOpen(after) /\ RunTyped(r, after) /\ RunUnlogged(after)
         /\ NextStep(after) = NextStep(old) /\ NextStep(old) \in Nat
         /\ \A m \in Steerings : InHand(m, after) <=> InHand(m, old)
<1>1. IsOpen(after) /\ (IsWorking(after) <=> IsWorking(old))
  BY DEF IsOpen, IsWorking
<1>2. Unlogged(after) = Unlogged(old)
  BY DEF Unlogged
<1>3. NextStep(after) = NextStep(old)
  BY <1>1 DEF NextStep
<1>4. NextStep(old) \in Nat
  BY NextStepTyped
<1>5. RunTyped(r, after)
  BY <1>1 DEF RunTyped
<1>6. RunUnlogged(after)
  BY <1>1, <1>2 DEF RunUnlogged
<1>7. \A m \in Steerings : InHand(m, after) <=> InHand(m, old)
  BY <1>1, <1>2 DEF InHand
<1>8. QED
  BY <1>1, <1>3, <1>4, <1>5, <1>6, <1>7

LEMMA CompactKeeps ==
  ASSUME SteeringsApart, SettledInv, NEW r \in Runs, Compact(r)
  PROVE  SettledInv'
<1>1. PICK old, s, st, t, after :
        /\ old = run[r] /\ s = old.session /\ st = store[s] /\ t = old.turn
        /\ after = run'[r]
  OBVIOUS
<1>2. old.at = "prepared" /\ IsOpen(old) /\ IsWorking(old)
  BY <1>1 DEF Compact, IsOpen, IsWorking
<1>3. /\ s \in Sessions /\ Sound(st) /\ RunLogged(old, st) /\ RunTyped(r, old)
      /\ RunUnlogged(old)
  BY <1>1, <1>2, OpenRun
<1>4. DOMAIN run = Runs /\ DOMAIN run[r] = DOMAIN IdleRun
  BY <1>1, <1>3 DEF SettledInv, Shapes, RunTyped
<1>5. UNCHANGED <<sessions, named, stopped, inbox, steering>>
  BY DEF Compact
<1>6. CASE run' = [run EXCEPT ![r].tried = TRUE] /\ UNCHANGED store
  <2>1. /\ DOMAIN after = DOMAIN IdleRun /\ after.at = old.at
        /\ after.fresh = old.fresh /\ after.mark = old.mark
        /\ after.turn = old.turn /\ after.session = old.session
        /\ after.todo = old.todo /\ after.unusable = old.unusable
        /\ after.step = old.step /\ after.outcome = old.outcome
        /\ DOMAIN run' = Runs /\ \A q \in Runs \ {r} : run'[q] = run[q]
    BY <1>1, <1>4, <1>6 DEF IdleRun
  <2>2. /\ IsOpen(after) /\ RunTyped(r, after) /\ RunUnlogged(after)
        /\ NextStep(after) = NextStep(old) /\ NextStep(old) \in Nat
        /\ \A m \in Steerings : InHand(m, after) => InHand(m, old)
    BY <1>2, <1>3, <2>1, SameSteps
  <2>3. NextStep(old) <= NextStep(after)
    BY <2>2
  <2>4. QED
    BY <1>1, <1>2, <1>5, <1>6, <2>1, <2>2, <2>3, SilentStep, ZenonT(40)
<1>7. ASSUME NEW cutoff, NEW covers, NEW base,
             Write(r, Summarise(Own(r), Summary(Turn(r), cutoff, covers))),
             run' = [run EXCEPT ![r].tried = TRUE, ![r].base = base]
      PROVE  SettledInv'
  <2>1. PICK e, ms, new : /\ e = Summary(t, cutoff, covers)
                          /\ ms = <<e>> /\ new = Summarise(st, e)
    OBVIOUS
  <2>2. e.kind = "summary" /\ e.turn = t /\ e.text = "said" /\ e.calls = {}
    BY <2>1 DEF Summary, Event
  <2>3. t \in DOMAIN st.turns /\ t \in Nat \ {0}
    BY <1>1, <1>3, SoundLog DEF RunLogged
  <2>4. EventTyped(e) /\ e.text \notin Steerings
    BY <2>2, <2>3, FS_EmptySet DEF EventTyped, SteeringsApart
  <2>5. Fits(st, ms)
    BY <1>3, <2>1, <2>2, <2>3, <2>4, EventFits
  <2>6. Grows(st, ms, new)
    BY <1>3, <2>1, SummariseGrows
  <2>7. IsSeq(ms) /\ DOMAIN ms = {1} /\ ms[1] = e
    BY <2>1, SingleSeq
  <2>8. /\ DOMAIN after = DOMAIN IdleRun /\ after.at = old.at
        /\ after.fresh = old.fresh /\ after.mark = old.mark
        /\ after.turn = old.turn /\ after.session = old.session
        /\ after.todo = old.todo /\ after.unusable = old.unusable
        /\ after.step = old.step /\ after.outcome = old.outcome
        /\ DOMAIN run' = Runs /\ \A q \in Runs \ {r} : run'[q] = run[q]
    BY <1>1, <1>4, <1>7 DEF IdleRun
  <2>9. /\ IsOpen(after) /\ RunTyped(r, after) /\ RunUnlogged(after)
        /\ NextStep(after) = NextStep(old) /\ NextStep(old) \in Nat
        /\ \A m \in Steerings : InHand(m, after) => InHand(m, old)
    BY <1>2, <1>3, <2>8, SameSteps
  <2>10. RunLogged(after, new)
    <3>1. NextStep(old) <= NextStep(after) /\ NextStep(after) \in Nat
      BY <2>9
    <3>2. \A i \in DOMAIN ms : ms[i].turn = old.turn =>
            \A c \in ms[i].calls : c[2] \in 1 .. NextStep(after) - 1
      BY <2>2, <2>7
    <3>3. QED
      BY <1>3, <2>6, <2>7, <2>8, <2>9, <3>1, <3>2, LoggedStill
  <2>11. GoesOn(r, after, new)
    BY <1>1, <2>8, <2>9, <2>10 DEF GoesOn
  <2>12. Steps(r, after, s, new)
    <3>1. store' = [store EXCEPT ![s] = new]
      BY <1>1, <1>7, <2>1 DEF Write, Own, Turn
    <3>2. QED
      BY <1>1, <1>3, <1>5, <2>8, <3>1 DEF Steps, SettledInv, Shapes
  <2>13. /\ Fits(store[s], ms) /\ Grows(store[s], ms, new) /\ s = run[r].session
         /\ \A i \in DOMAIN ms : ms[i].turn = run[r].turn
         /\ IsOpen(run[r])
         /\ \A m \in Steerings : ~ \E i \in DOMAIN ms : ms[i].text = m
         /\ \A m \in Steerings : InHand(m, after) => InHand(m, run[r])
    BY <1>1, <1>2, <2>2, <2>4, <2>5, <2>6, <2>7, <2>9
  <2>14. QED
    BY <1>5, <2>11, <2>12, <2>13, PlainStep
<1>8. \/ run' = [run EXCEPT ![r].tried = TRUE] /\ UNCHANGED store
      \/ \E cutoff, covers, base :
           /\ Write(r, Summarise(Own(r), Summary(Turn(r), cutoff, covers)))
           /\ run' = [run EXCEPT ![r].tried = TRUE, ![r].base = base]
  BY DEF Compact
<1>9. QED
  BY <1>6, <1>7, <1>8

(* What CloseInbox and CloseTurn leave of the run.                          *)
LEMMA CloseInboxKeeps ==
  ASSUME SettledInv, NEW r \in Runs, CloseInbox(r)
  PROVE  SettledInv'
<1>1. PICK old, s, st, ms, after :
        /\ old = run[r] /\ s = old.session /\ st = store[s] /\ ms = <<>>
        /\ after = run'[r]
  OBVIOUS
<1>2. old.at = "returned" /\ IsOpen(old)
  BY <1>1 DEF CloseInbox, IsOpen
<1>3. /\ s \in Sessions /\ Sound(st) /\ RunLogged(old, st) /\ RunTyped(r, old)
  BY <1>1, <1>2, OpenRun
<1>4. Fits(st, ms) /\ Grows(st, ms, st) /\ IsSeq(ms) /\ DOMAIN ms = {}
  BY <1>1, <1>3, NothingFits
<1>5. /\ DOMAIN after = DOMAIN IdleRun /\ after.at = "closed"
      /\ after.fresh = old.fresh /\ after.mark = old.mark
      /\ after.turn = old.turn /\ after.session = old.session
      /\ after.todo = old.todo /\ after.unusable = old.unusable
      /\ after.step = old.step /\ after.outcome = old.outcome
      /\ DOMAIN run' = Runs /\ \A q \in Runs \ {r} : run'[q] = run[q]
  <2>1. DOMAIN run = Runs /\ DOMAIN run[r] = DOMAIN IdleRun
    BY <1>1, <1>3 DEF SettledInv, Shapes, RunTyped
  <2>2. run' = [run EXCEPT ![r].at = "closed"]
    BY DEF CloseInbox
  <2>3. QED
    BY <1>1, <2>1, <2>2 DEF IdleRun
<1>6. IsOpen(after) /\ ~IsWorking(after) /\ ~IsWorking(old)
  BY <1>2, <1>5 DEF IsOpen, IsWorking
<1>7. RunTyped(r, after)
  <2>1. after.at \in RunStep /\ after.step # 0
    BY <1>2, <1>3, <1>5 DEF RunStep, RunTyped
  <2>2. after.outcome \in {"ok", "cancelled", "error"}
    BY <1>2, <1>3, <1>5 DEF RunTyped
  <2>3. QED
    BY <1>3, <1>5, <2>1, <2>2 DEF RunTyped
<1>8. RunLogged(after, st)
  <2>1. NextStep(after) = NextStep(old)
    BY <1>2, <1>5, <1>6 DEF NextStep
  <2>2. QED
    BY <1>3, <1>5, <2>1 DEF RunLogged
<1>9. GoesOn(r, after, st)
  BY <1>1, <1>5, <1>6, <1>7, <1>8 DEF GoesOn, RunUnlogged
<1>10. Steps(r, after, s, st)
  <2>1. UNCHANGED <<sessions, store>>
    BY DEF CloseInbox
  <2>2. QED
    BY <1>1, <1>3, <1>5, <2>1 DEF Steps, SettledInv, Shapes
<1>11. /\ Fits(store[s], ms) /\ Grows(store[s], ms, st) /\ s = run[r].session
       /\ IsOpen(run[r])
       /\ \A i \in DOMAIN ms : ms[i].turn = run[r].turn
  BY <1>1, <1>2, <1>4
<1>12. LogsInv' /\ RunsInv'
  BY <1>9, <1>10, <1>11, StepKeeps
<1>13. UNCHANGED <<named, stopped, steering>>
  BY DEF CloseInbox
<1>14. Steers(r, after, ms)
  BY <1>4, <1>6, <1>13 DEF Steers, InHand, IsUnseen
<1>15. UnseenIsNowhere' /\ InHandOnce'
  BY <1>3, <1>4, <1>10, <1>11, <1>14, StepSteers
<1>16. /\ DOMAIN inbox' = Runs
       /\ \A q \in Runs : /\ DOMAIN inbox'[q] = {"active", "pending"}
                          /\ inbox'[q].pending = inbox[q].pending
  <2>1. inbox' = [inbox EXCEPT ![r].active = FALSE]
    BY DEF CloseInbox
  <2>2. DOMAIN inbox = Runs /\ \A q \in Runs : DOMAIN inbox[q] = {"active", "pending"}
    BY DEF SettledInv, Shapes
  <2>3. QED
    BY <2>1, <2>2
<1>17. Shapes' /\ PendingOnce'
  BY <1>10, <1>13, <1>16 DEF SettledInv, SteeringInv, PendingOnce, Shapes, Steps
<1>18. QED
  BY <1>12, <1>15, <1>17 DEF SettledInv, SteeringInv

IsIdle(call) ==
  /\ DOMAIN call = DOMAIN IdleRun /\ call.at \in {"new", "begun", "gone"}
  /\ call.step = 0 /\ call.mark = 0 /\ call.unusable = 0
  /\ call.outcome = "none" /\ call.fresh = <<>> /\ call.todo = <<>>

LEMMA IdleTyped ==
  ASSUME NEW r \in Runs, NEW call, IsIdle(call)
  PROVE  /\ RunTyped(r, call) /\ RunUnlogged(call) /\ ~IsOpen(call)
         /\ \A m : ~InHand(m, call)
<1>1. ~IsOpen(call) /\ ~IsWorking(call)
  BY DEF IsIdle, IsOpen, IsWorking
<1>2. PICK none : none = <<>>
  OBVIOUS
<1>3. /\ IsSeq(none) /\ Len(none) = 0 /\ DOMAIN none = {}
      /\ call.fresh = none /\ call.todo = none
  BY <1>2, EmptyIsSeq DEF IsIdle
<1>4. MaxSteps[r] \in Nat /\ MaxUnusable \in Nat
  BY ConstantsAssumption
<1>5. RunTyped(r, call)
  BY <1>1, <1>3, <1>4 DEF IsIdle, RunTyped, RunStep
<1>6. QED
  BY <1>1, <1>5 DEF RunUnlogged, InHand

LEMMA GoneTyped ==
  ASSUME NEW r \in Runs, NEW at \in {"new", "begun", "gone"},
         NEW call, call = [IdleRun EXCEPT !.at = at]
  PROVE  /\ RunTyped(r, call) /\ RunUnlogged(call) /\ ~IsOpen(call)
         /\ \A m : ~InHand(m, call)
<1>1. IsIdle(call)
  BY DEF IdleRun, IsIdle
<1>2. QED
  BY <1>1, IdleTyped

LEMMA CloseTurnKeeps ==
  ASSUME SteeringsApart, SettledInv, NEW r \in Runs, CloseTurn(r)
  PROVE  SettledInv'
<1>1. PICK old, s, st, t, after, reason :
        /\ old = run[r] /\ s = old.session /\ st = store[s] /\ t = old.turn
        /\ after = run'[r]
        /\ reason = IF old.outcome = "ok" THEN "complete" ELSE old.outcome
  OBVIOUS
<1>2. PICK e, ms, new : /\ e = Event("turnEnd", t, reason, {})
                        /\ ms = <<e>> /\ new = EndTurn(st, t, reason)
  OBVIOUS
<1>3. old.at = "closed" /\ IsOpen(old)
  BY <1>1 DEF CloseTurn, IsOpen
<1>4. /\ s \in Sessions /\ Sound(st) /\ RunLogged(old, st) /\ RunTyped(r, old)
  BY <1>1, <1>3, OpenRun
<1>5. reason \in Reason /\ t \in DOMAIN st.turns
  BY <1>1, <1>3, <1>4 DEF RunTyped, RunLogged, Reason
<1>6. Fits(st, ms) /\ Grows(st, ms, new)
  BY <1>2, <1>4, <1>5, EndTurnGrows, EndTurnSound
<1>7. IsSeq(ms) /\ \A i \in DOMAIN ms : ms[i].turn = t /\ ms[i].text \notin Steerings
  <2>1. IsSeq(ms) /\ DOMAIN ms = {1} /\ ms[1] = e
    BY <1>2, SingleSeq
  <2>2. e.turn = t /\ e.text = reason
    BY <1>2 DEF Event
  <2>3. reason \notin Steerings
    BY <1>5 DEF SteeringsApart
  <2>4. QED
    BY <2>1, <2>2, <2>3
<1>8. after = [IdleRun EXCEPT !.at = "gone"] /\ DOMAIN run' = Runs
      /\ \A q \in Runs \ {r} : run'[q] = run[q]
  BY <1>1 DEF CloseTurn, SettledInv, Shapes
<1>9. /\ RunTyped(r, after) /\ RunUnlogged(after) /\ ~IsOpen(after)
      /\ \A m : ~InHand(m, after)
  <2>1. PICK at \in {"new", "begun", "gone"} : at = "gone"
    OBVIOUS
  <2>2. after = [IdleRun EXCEPT !.at = at]
    BY <1>8, <2>1
  <2>3. QED
    BY <2>2, GoneTyped
<1>10. GoesOn(r, after, new)
  BY <1>9 DEF GoesOn
<1>11. Steps(r, after, s, new)
  <2>1. store' = [store EXCEPT ![s] = new] /\ UNCHANGED sessions
    BY <1>1, <1>2 DEF CloseTurn, Write, Own, Turn
  <2>2. QED
    BY <1>1, <1>4, <1>8, <2>1 DEF Steps, SettledInv, Shapes
<1>12. /\ Fits(store[s], ms) /\ Grows(store[s], ms, new) /\ s = run[r].session
       /\ IsOpen(run[r])
       /\ \A i \in DOMAIN ms : ms[i].turn = run[r].turn
  BY <1>1, <1>3, <1>6, <1>7
<1>13. LogsInv' /\ RunsInv'
  BY <1>10, <1>11, <1>12, StepKeeps
<1>14. UNCHANGED stopped /\ named' \in [Runs -> Sessions \cup {NoSession}]
  BY DEF CloseTurn, SettledInv, Shapes
<1>15. Shapes' /\ PendingOnce' /\ \A m \in Steerings : IsUnseen(m)' => IsUnseen(m)
  <2>1. CASE old.outcome = "cancelled"
    <3>1. PICK to \in {"claimed", "discarded"} : to = "discarded"
      OBVIOUS
    <3>2. Emptied(r, to)
      BY <1>1, <2>1, <3>1 DEF Emptied, CloseTurn
    <3>3. QED
      BY <1>11, <1>14, <3>2, EmptiedKeeps
  <2>2. CASE old.outcome # "cancelled"
    <3>1. /\ DOMAIN steering' = Steerings
          /\ \A m \in Steerings : steering'[m] = steering[m]
      BY <1>1, <2>2 DEF CloseTurn
    <3>2. /\ DOMAIN inbox' = Runs
          /\ \A q \in Runs : /\ DOMAIN inbox'[q] = {"active", "pending"}
                             /\ inbox'[q].pending = inbox[q].pending
      <4>1. inbox' = [inbox EXCEPT ![r].pending = @]
        BY <1>1, <2>2 DEF CloseTurn
      <4>2. DOMAIN inbox = Runs
            /\ \A q \in Runs : DOMAIN inbox[q] = {"active", "pending"}
        BY DEF SettledInv, Shapes
      <4>3. QED
        BY <4>1, <4>2
    <3>3. PendingOnce'
      BY <3>1, <3>2 DEF SettledInv, SteeringInv, PendingOnce
    <3>4. Shapes'
      BY <1>11, <1>14, <3>1, <3>2 DEF SettledInv, Shapes, Steps
    <3>5. QED
      BY <3>1, <3>3, <3>4 DEF IsUnseen
  <2>3. QED
    BY <2>1, <2>2
<1>16. Steers(r, after, ms)
  BY <1>7, <1>9, <1>15 DEF Steers
<1>17. UnseenIsNowhere' /\ InHandOnce'
  BY <1>4, <1>7, <1>11, <1>12, <1>16, StepSteers
<1>18. QED
  BY <1>13, <1>15, <1>17 DEF SettledInv, SteeringInv

-----------------------------------------------------------------------------
(* Steps that are not of a run in its turn.                                 *)

(* A run that is in no turn, or that has just been given one of its own.    *)
Quiet(q, call) == RunTyped(q, call) /\ ~IsOpen(call)
Starts(q, call) ==
  /\ RunTyped(q, call) /\ IsOpen(call) /\ ~IsWorking(call)
  /\ call.session \in sessions' /\ RunLogged(call, store'[call.session])
  /\ call.session \in sessions => call.turn \notin DOMAIN store[call.session].turns

LEMMA WorldKeeps ==
  ASSUME SettledInv, DOMAIN store' = Sessions, sessions \subseteq sessions',
         \A s \in Sessions : Sound(store'[s]),
         \A s \in sessions : Repairs(store[s], store'[s]),
         \A s \in Sessions, m \in Steerings : InLog(m, store'[s]) =>
           \E o \in Sessions : InLog(m, store[o]),
         DOMAIN run' = Runs,
         \A q \in Runs : \/ run'[q] = run[q] \/ Quiet(q, run'[q])
                         \/ Starts(q, run'[q]),
         \A p, q \in Runs : Starts(p, run'[p]) /\ Starts(q, run'[q]) => p = q,
         \A m \in Steerings : IsUnseen(m)' => IsUnseen(m)
  PROVE  LogsInv' /\ RunsInv' /\ UnseenIsNowhere' /\ InHandOnce'
<1>1. LogsInv'
  BY DEF LogsInv
<1>2. ASSUME NEW q \in Runs, IsOpen(run'[q]), ~Starts(q, run'[q])
      PROVE  /\ run'[q] = run[q] /\ IsOpen(run[q])
             /\ run[q].session \in sessions
             /\ run[q].turn \in DOMAIN store[run[q].session].turns
             /\ RunLogged(run[q], store'[run[q].session])
  <2>1. run'[q] = run[q] /\ IsOpen(run[q])
    BY <1>2 DEF Quiet
  <2>2. run[q].session \in sessions /\ RunLogged(run[q], store[run[q].session])
    BY <2>1, OpenRun
  <2>3. PICK st, new, call : /\ st = store[run[q].session] /\ call = run[q]
                             /\ new = store'[run[q].session]
    OBVIOUS
  <2>4. Repairs(st, new) /\ RunLogged(call, st)
    BY <2>2, <2>3
  <2>5. RunLogged(call, new)
    BY <2>4, RepairsLogged
  <2>6. call.turn \in DOMAIN st.turns
    BY <2>4 DEF RunLogged
  <2>7. QED
    BY <2>1, <2>2, <2>3, <2>5, <2>6
<1>3. ASSUME NEW q \in Runs
      PROVE  /\ RunTyped(q, run'[q]) /\ RunUnlogged(run'[q])
             /\ IsOpen(run'[q]) => /\ run'[q].session \in sessions'
                                   /\ RunLogged(run'[q], store'[run'[q].session])
  <2>1. CASE run'[q] = run[q]
    <3>1. RunTyped(q, run'[q]) /\ RunUnlogged(run'[q])
      BY <2>1 DEF SettledInv, RunsInv
    <3>2. CASE Starts(q, run'[q])
      BY <3>1, <3>2 DEF Starts
    <3>3. CASE ~Starts(q, run'[q])
      BY <1>2, <3>1, <3>3
    <3>4. QED
      BY <3>2, <3>3
  <2>2. CASE Quiet(q, run'[q])
    BY <2>2 DEF Quiet, RunUnlogged, IsWorking, IsOpen
  <2>3. CASE Starts(q, run'[q])
    BY <2>3 DEF Starts, RunUnlogged
  <2>4. QED
    BY <2>1, <2>2, <2>3
<1>4. ASSUME NEW p \in Runs, NEW q \in Runs, IsOpen(run'[p]), IsOpen(run'[q]),
             run'[p].session = run'[q].session, run'[p].turn = run'[q].turn
      PROVE  p = q
  <2>1. CASE Starts(p, run'[p]) /\ Starts(q, run'[q])
    BY <2>1
  <2>2. CASE Starts(p, run'[p]) /\ ~Starts(q, run'[q])
    BY <1>2, <1>4, <2>2 DEF Starts
  <2>3. CASE ~Starts(p, run'[p]) /\ Starts(q, run'[q])
    BY <1>2, <1>4, <2>3 DEF Starts
  <2>4. CASE ~Starts(p, run'[p]) /\ ~Starts(q, run'[q])
    <3>1. /\ run'[p] = run[p] /\ IsOpen(run[p])
          /\ run'[q] = run[q] /\ IsOpen(run[q])
      BY <1>2, <1>4, <2>4
    <3>2. QED
      BY <1>4, <3>1 DEF SettledInv, RunsInv
  <2>5. QED
    BY <2>1, <2>2, <2>3, <2>4
<1>5. RunsInv'
  BY <1>3, <1>4 DEF RunsInv
<1>6. \A q \in Runs, m \in Steerings : InHand(m, run'[q]) => InHand(m, run[q])
  BY DEF Quiet, Starts, InHand, IsWorking, IsOpen
<1>7. UnseenIsNowhere'
  <2>1. ASSUME NEW m \in Steerings, IsUnseen(m)'
        PROVE  /\ \A s \in Sessions : ~InLog(m, store'[s])
               /\ \A r \in Runs : ~InHand(m, run'[r])
    <3>1. IsUnseen(m)
      BY <2>1
    <3>2. /\ \A s \in Sessions : ~InLog(m, store[s])
          /\ \A r \in Runs : ~InHand(m, run[r])
      BY <3>1 DEF SettledInv, SteeringInv, UnseenIsNowhere
    <3>3. QED
      BY <1>6, <3>2
  <2>2. QED
    BY <2>1 DEF UnseenIsNowhere
<1>8. InHandOnce'
  <2>1. ASSUME NEW m \in Steerings, NEW r \in Runs, InHand(m, run'[r])
        PROVE  /\ \A s \in Sessions : ~InLog(m, store'[s])
               /\ \A q \in Runs \ {r} : ~InHand(m, run'[q])
    <3>1. InHand(m, run[r])
      BY <1>6, <2>1
    <3>2. /\ \A s \in Sessions : ~InLog(m, store[s])
          /\ \A q \in Runs \ {r} : ~InHand(m, run[q])
      BY <3>1 DEF SettledInv, SteeringInv, InHandOnce
    <3>3. QED
      BY <1>6, <3>2
  <2>2. QED
    BY <2>1 DEF InHandOnce
<1>9. QED
  BY <1>1, <1>5, <1>7, <1>8

LEMMA RepairsNothing ==
  ASSUME NEW st
  PROVE  Repairs(st, st)
  BY DEF Repairs

(* When the store is as it was.                                             *)
LEMMA StoreStays ==
  ASSUME SettledInv, UNCHANGED <<sessions, store>>, DOMAIN run' = Runs,
         \A q \in Runs : run'[q] = run[q] \/ Quiet(q, run'[q]),
         \A m \in Steerings : IsUnseen(m)' => IsUnseen(m)
  PROVE  LogsInv' /\ RunsInv' /\ UnseenIsNowhere' /\ InHandOnce'
<1>1. DOMAIN store' = Sessions /\ \A s \in Sessions : Sound(store'[s])
  BY DEF SettledInv, Shapes, LogsInv
<1>2. \A s \in sessions : Repairs(store[s], store'[s])
  BY RepairsNothing
<1>3. \A s \in Sessions, m \in Steerings : InLog(m, store'[s]) =>
        \E o \in Sessions : InLog(m, store[o])
  OBVIOUS
<1>4. \A q \in Runs : IsOpen(run'[q]) => ~Starts(q, run'[q])
  <2>1. SUFFICES ASSUME NEW q \in Runs, IsOpen(run'[q]), Starts(q, run'[q])
                 PROVE  FALSE
    OBVIOUS
  <2>2. run'[q] = run[q] /\ IsOpen(run[q])
    BY <2>1 DEF Quiet
  <2>3. run[q].session \in sessions /\ RunLogged(run[q], store[run[q].session])
    BY <2>2, OpenRun
  <2>4. QED
    BY <2>1, <2>2, <2>3 DEF Starts, RunLogged
<1>5. \A q \in Runs : ~Starts(q, run'[q])
  BY <1>4 DEF Starts
<1>6. QED
  BY <1>1, <1>2, <1>3, <1>5, WorldKeeps

LEMMA OldRunsDoNotStart ==
  ASSUME SettledInv, NEW q \in Runs, run'[q] = run[q]
  PROVE  ~Starts(q, run'[q])
<1>1. SUFFICES ASSUME Starts(q, run'[q])
               PROVE  FALSE
  OBVIOUS
<1>2. IsOpen(run[q])
  BY <1>1 DEF Starts
<1>3. run[q].session \in sessions /\ RunLogged(run[q], store[run[q].session])
  BY <1>2, OpenRun
<1>4. QED
  BY <1>1, <1>3 DEF Starts, RunLogged

(* The steering messages and the inboxes, when none is pending in addition. *)
LEMMA InboxesShrink ==
  ASSUME SettledInv, UNCHANGED steering, DOMAIN inbox' = Runs,
         \A q \in Runs : \/ inbox'[q].pending = inbox[q].pending
                         \/ inbox'[q].pending = <<>>
  PROVE  PendingOnce'
<1>1. PICK none : none = <<>>
  OBVIOUS
<1>2. IsSeq(none) /\ DOMAIN none = {}
  BY <1>1, EmptyIsSeq
<1>3. PendingOnce
  BY DEF SettledInv, SteeringInv
<1>4. QED
  BY <1>1, <1>2, <1>3 DEF PendingOnce

LEMMA BeginKeeps ==
  ASSUME SettledInv, NEW r \in Runs, NEW s \in Sessions \cup {NoSession},
         Begin(r, s)
  PROVE  SettledInv'
<1>1. PICK old, after : old = run[r] /\ after = run'[r]
  OBVIOUS
<1>2. old.at = "new" /\ RunTyped(r, old)
  BY <1>1 DEF Begin, MayBegin, SettledInv, RunsInv
<1>3. run' = [run EXCEPT ![r].at = "begun"] /\ DOMAIN run = Runs
      /\ DOMAIN run[r] = DOMAIN IdleRun
  BY <1>1, <1>2 DEF Begin, SettledInv, Shapes, RunTyped
<1>4. /\ DOMAIN after = DOMAIN IdleRun /\ after.at = "begun"
      /\ after.fresh = old.fresh /\ after.mark = old.mark
      /\ after.turn = old.turn /\ after.step = old.step
      /\ after.todo = old.todo /\ after.unusable = old.unusable
      /\ after.outcome = old.outcome
      /\ DOMAIN run' = Runs /\ \A q \in Runs \ {r} : run'[q] = run[q]
  BY <1>1, <1>3 DEF IdleRun
<1>5. Quiet(r, after)
  BY <1>2, <1>4 DEF Quiet, RunTyped, IsOpen, RunStep
<1>6. UNCHANGED <<sessions, store, stopped, steering>>
  BY DEF Begin
<1>7. LogsInv' /\ RunsInv' /\ UnseenIsNowhere' /\ InHandOnce'
  <2>1. \A q \in Runs : run'[q] = run[q] \/ Quiet(q, run'[q])
    BY <1>1, <1>4, <1>5
  <2>2. \A m \in Steerings : IsUnseen(m)' => IsUnseen(m)
    BY <1>6 DEF IsUnseen
  <2>3. QED
    BY <1>4, <1>6, <2>1, <2>2, StoreStays
<1>8. /\ inbox' = [inbox EXCEPT ![r] = [active |-> TRUE, pending |-> <<>>]]
      /\ named' = [named EXCEPT ![r] = s]
  BY DEF Begin
<1>9. /\ DOMAIN inbox' = Runs /\ named' \in [Runs -> Sessions \cup {NoSession}]
      /\ \A q \in Runs : /\ DOMAIN inbox'[q] = {"active", "pending"}
                         /\ \/ inbox'[q].pending = inbox[q].pending
                            \/ inbox'[q].pending = <<>>
  BY <1>8 DEF SettledInv, Shapes
<1>10. PendingOnce'
  BY <1>6, <1>9, InboxesShrink
<1>11. Shapes'
  BY <1>4, <1>6, <1>9 DEF SettledInv, Shapes
<1>12. QED
  BY <1>7, <1>10, <1>11 DEF SettledInv, SteeringInv

LEMMA BeginFailsKeeps ==
  ASSUME SettledInv, NEW r \in Runs, BeginFails(r)
  PROVE  SettledInv'
<1>1. PICK after : after = run'[r]
  OBVIOUS
<1>2. PICK at \in {"new", "begun", "gone"} : at = "gone"
  OBVIOUS
<1>3. /\ after = [IdleRun EXCEPT !.at = at]
      /\ DOMAIN run' = Runs /\ \A q \in Runs \ {r} : run'[q] = run[q]
  BY <1>1, <1>2 DEF BeginFails, Dropped, SettledInv, Shapes
<1>4. Quiet(r, after)
  BY <1>3, GoneTyped DEF Quiet
<1>5. UNCHANGED <<sessions, store, stopped, steering>>
  BY DEF BeginFails
<1>6. LogsInv' /\ RunsInv' /\ UnseenIsNowhere' /\ InHandOnce'
  <2>1. \A q \in Runs : run'[q] = run[q] \/ Quiet(q, run'[q])
    BY <1>1, <1>3, <1>4
  <2>2. \A m \in Steerings : IsUnseen(m)' => IsUnseen(m)
    BY <1>5 DEF IsUnseen
  <2>3. QED
    BY <1>3, <1>5, <2>1, <2>2, StoreStays
<1>7. /\ inbox' = [inbox EXCEPT ![r].active = FALSE]
      /\ named' = [named EXCEPT ![r] = NoSession]
  BY DEF BeginFails, Dropped
<1>8. /\ DOMAIN inbox' = Runs /\ named' \in [Runs -> Sessions \cup {NoSession}]
      /\ \A q \in Runs : /\ DOMAIN inbox'[q] = {"active", "pending"}
                         /\ inbox'[q].pending = inbox[q].pending
  BY <1>7 DEF SettledInv, Shapes
<1>9. PendingOnce'
  BY <1>5, <1>8, InboxesShrink
<1>10. Shapes'
  BY <1>3, <1>5, <1>8 DEF SettledInv, Shapes
<1>11. QED
  BY <1>6, <1>9, <1>10 DEF SettledInv, SteeringInv

LEMMA StopKeeps ==
  ASSUME SettledInv, NEW r \in Runs, Stop(r)
  PROVE  SettledInv'
<1>1. UNCHANGED <<sessions, store, run, named, inbox, steering>>
      /\ stopped' = stopped \cup {r}
  BY DEF Stop
<1>2. LogsInv' /\ RunsInv' /\ UnseenIsNowhere' /\ InHandOnce'
  BY <1>1, StoreStays DEF SettledInv, Shapes, IsUnseen
<1>3. PendingOnce'
  BY <1>1, InboxesShrink DEF SettledInv, Shapes
<1>4. Shapes'
  BY <1>1 DEF SettledInv, Shapes
<1>5. QED
  BY <1>2, <1>3, <1>4 DEF SettledInv, SteeringInv

LEMMA SteerFindsKeeps ==
  ASSUME SettledInv, NEW m \in Steerings, NEW r \in Runs, SteerFinds(m, r)
  PROVE  SettledInv'
<1>1. /\ UNCHANGED <<sessions, store, run, named, stopped, inbox>>
      /\ steering' = [steering EXCEPT ![m] = [at |-> "found", run |-> r]]
      /\ steering[m].at = "unsent" /\ DOMAIN steering = Steerings
  BY DEF SteerFinds, SettledInv, Shapes
<1>2. /\ DOMAIN steering' = Steerings
      /\ steering'[m] = [at |-> "found", run |-> r]
      /\ \A o \in Steerings \ {m} : steering'[o] = steering[o]
  BY <1>1
<1>3. \A o \in Steerings : IsUnseen(o)' => IsUnseen(o)
  BY <1>1, <1>2 DEF IsUnseen
<1>4. LogsInv' /\ RunsInv' /\ UnseenIsNowhere' /\ InHandOnce'
  BY <1>1, <1>3, StoreStays DEF SettledInv, Shapes
<1>5. PendingOnce'
  <2>1. PendingOnce
    BY DEF SettledInv, SteeringInv
  <2>2. \A q \in Runs : \A i \in DOMAIN inbox[q].pending :
          inbox[q].pending[i] # m
    BY <1>1, <2>1 DEF PendingOnce
  <2>3. QED
    BY <1>1, <1>2, <2>1, <2>2 DEF PendingOnce
<1>6. Shapes'
  BY <1>1, <1>2 DEF SettledInv, Shapes
<1>7. QED
  BY <1>4, <1>5, <1>6 DEF SettledInv, SteeringInv

LEMMA SteerPushesKeeps ==
  ASSUME SettledInv, NEW m \in Steerings, SteerPushes(m)
  PROVE  SettledInv'
<1>1. PICK r : r = steering[m].run
  OBVIOUS
<1>2. /\ UNCHANGED <<sessions, store, run, named, stopped>>
      /\ steering' = [steering EXCEPT ![m].at = "accepted"]
      /\ inbox' = [inbox EXCEPT ![r].pending = Append(@, m)]
      /\ steering[m].at = "found"
  BY <1>1 DEF SteerPushes
<1>3. /\ DOMAIN steering = Steerings /\ DOMAIN inbox = Runs
      /\ DOMAIN steering[m] = {"at", "run"}
      /\ \A q \in Runs : DOMAIN inbox[q] = {"active", "pending"}
  BY DEF SettledInv, Shapes
<1>4. /\ DOMAIN steering' = Steerings /\ DOMAIN steering'[m] = {"at", "run"}
      /\ steering'[m].at = "accepted" /\ steering'[m].run = r
      /\ \A o \in Steerings \ {m} : steering'[o] = steering[o]
  BY <1>1, <1>2, <1>3
<1>5. /\ DOMAIN inbox' = Runs
      /\ \A q \in Runs : DOMAIN inbox'[q] = {"active", "pending"}
      /\ \A q \in Runs \ {r} : inbox'[q] = inbox[q]
      /\ r \in Runs => inbox'[r].pending = Append(inbox[r].pending, m)
  BY <1>2, <1>3
<1>6. \A o \in Steerings : IsUnseen(o)' => IsUnseen(o)
  BY <1>2, <1>4 DEF IsUnseen
<1>7. LogsInv' /\ RunsInv' /\ UnseenIsNowhere' /\ InHandOnce'
  BY <1>2, <1>6, StoreStays DEF SettledInv, Shapes
<1>8. \A q \in Runs :
        /\ IsSeq(inbox[q].pending)
        /\ \A i \in DOMAIN inbox[q].pending :
             /\ inbox[q].pending[i] \in Steerings /\ inbox[q].pending[i] # m
             /\ steering[inbox[q].pending[i]].at = "accepted"
             /\ steering[inbox[q].pending[i]].run = q
        /\ \A i, j \in DOMAIN inbox[q].pending :
             inbox[q].pending[i] = inbox[q].pending[j] => i = j
  BY <1>2 DEF SettledInv, SteeringInv, PendingOnce
<1>9. ASSUME NEW q \in Runs
      PROVE  /\ IsSeq(inbox'[q].pending)
             /\ \A i \in DOMAIN inbox'[q].pending :
                  /\ inbox'[q].pending[i] \in Steerings
                  /\ steering'[inbox'[q].pending[i]].at = "accepted"
                  /\ steering'[inbox'[q].pending[i]].run = q
             /\ \A i, j \in DOMAIN inbox'[q].pending :
                  inbox'[q].pending[i] = inbox'[q].pending[j] => i = j
  <2>1. CASE q # r
    BY <1>4, <1>5, <1>8, <2>1
  <2>2. CASE q = r
    <3>1. PICK old, one, new : /\ old = inbox[q].pending /\ one = <<m>>
                               /\ new = inbox'[q].pending
      OBVIOUS
    <3>2. IsSeq(old)
      BY <1>8, <3>1
    <3>3. new = old \o one
      BY <1>5, <2>2, <3>1, <3>2, AppendIs
    <3>4. IsSeq(one) /\ DOMAIN one = {1} /\ one[1] = m
      BY <3>1, SingleSeq
    <3>5. Joined(old, one, new)
      BY <3>2, <3>3, <3>4, Split
    <3>6. \A i \in DOMAIN old :
            /\ old[i] \in Steerings /\ old[i] # m
            /\ steering'[old[i]].at = "accepted" /\ steering'[old[i]].run = q
      BY <1>4, <1>8, <3>1
    <3>7. \A i \in DOMAIN new :
            \/ i \in DOMAIN old /\ new[i] = old[i]
            \/ i = Len(old) + 1 /\ new[i] = m
      BY <3>4, <3>5 DEF Joined
    <3>8. \A i \in DOMAIN new :
            /\ new[i] \in Steerings
            /\ steering'[new[i]].at = "accepted" /\ steering'[new[i]].run = q
      BY <1>4, <2>2, <3>6, <3>7
    <3>9. \A i, j \in DOMAIN old : old[i] = old[j] => i = j
      BY <1>8, <3>1
    <3>10. \A i, j \in DOMAIN new : new[i] = new[j] => i = j
      BY <3>6, <3>7, <3>9
    <3>11. QED
      BY <3>1, <3>5, <3>8, <3>10 DEF Joined
  <2>3. QED
    BY <2>1, <2>2
<1>10. PendingOnce'
  BY <1>9 DEF PendingOnce
<1>11. Shapes'
  BY <1>2, <1>4, <1>5 DEF SettledInv, Shapes
<1>12. QED
  BY <1>7, <1>10, <1>11 DEF SettledInv, SteeringInv

LEMMA ViewKeeps ==
  ASSUME SteeringsApart, SettledInv, NEW s \in Sessions, View(s)
  PROVE  SettledInv'
<1>1. PICK st, new : st = store[s] /\ new = Repaired(st)
  OBVIOUS
<1>2. /\ store' = [store EXCEPT ![s] = new]
      /\ UNCHANGED <<sessions, run, named, stopped, inbox, steering>>
  BY <1>1 DEF View
<1>3. Sound(new) /\ Repairs(st, new)
  BY <1>1, RepairedSound DEF SettledInv, LogsInv
<1>4. /\ DOMAIN store' = Sessions /\ store'[s] = new
      /\ \A o \in Sessions \ {s} : store'[o] = store[o]
  BY <1>2 DEF SettledInv, Shapes
<1>5. \A o \in Sessions : Sound(store'[o]) /\ Repairs(store[o], store'[o])
  BY <1>1, <1>3, <1>4, RepairsNothing DEF SettledInv, LogsInv
<1>6. \A o \in Sessions, m \in Steerings :
        InLog(m, store'[o]) => InLog(m, store[o])
  BY <1>5, RepairsSteer
<1>7. LogsInv' /\ RunsInv' /\ UnseenIsNowhere' /\ InHandOnce'
  <2>1. \A q \in Runs : run'[q] = run[q] /\ ~Starts(q, run'[q])
    BY <1>2, OldRunsDoNotStart
  <2>2. sessions \subseteq Sessions /\ DOMAIN run' = Runs
    BY <1>2 DEF SettledInv, Shapes
  <2>3. \A m \in Steerings : IsUnseen(m)' => IsUnseen(m)
    BY <1>2 DEF IsUnseen
  <2>4. \A o \in Sessions, m \in Steerings : InLog(m, store'[o]) =>
          \E p \in Sessions : InLog(m, store[p])
    BY <1>6
  <2>5. QED
    BY <1>2, <1>4, <1>5, <2>1, <2>2, <2>3, <2>4, WorldKeeps
<1>8. PendingOnce' /\ Shapes'
  BY <1>2, <1>4, InboxesShrink DEF SettledInv, Shapes
<1>9. QED
  BY <1>7, <1>8 DEF SettledInv, SteeringInv

LEMMA ForkKeeps ==
  ASSUME SteeringsApart, SettledInv, NEW s \in Sessions, NEW new \in Sessions,
         NEW at \in DOMAIN store[s].log, Fork(s, at, new)
  PROVE  SettledInv'
<1>1. PICK st, mid, copy : /\ st = store[s] /\ mid = Forked(st, at)
                           /\ copy = Repaired(mid)
  OBVIOUS
<1>2. /\ store' = [store EXCEPT ![new] = copy]
      /\ sessions' = sessions \cup {new} /\ new \notin sessions
      /\ UNCHANGED <<run, named, stopped, inbox, steering>>
  BY <1>1 DEF Fork
<1>3. Sound(st) /\ at \in DOMAIN st.log
  BY <1>1 DEF SettledInv, LogsInv
<1>4. /\ Sound(mid)
      /\ \A i \in DOMAIN mid.log : i \in DOMAIN st.log /\ mid.log[i] = st.log[i]
  BY <1>1, <1>3, ForkedSound
<1>5. Sound(copy) /\ Repairs(mid, copy)
  BY <1>1, <1>4, RepairedSound
<1>6. \A m \in Steerings : InLog(m, copy) => InLog(m, st)
  BY <1>4, <1>5 DEF Repairs, InLog
<1>7. /\ DOMAIN store' = Sessions /\ store'[new] = copy
      /\ \A o \in Sessions \ {new} : store'[o] = store[o]
      /\ sessions \subseteq Sessions
  BY <1>2 DEF SettledInv, Shapes
<1>8. /\ \A o \in Sessions : Sound(store'[o])
      /\ \A o \in sessions : Repairs(store[o], store'[o])
  BY <1>2, <1>5, <1>7, RepairsNothing DEF SettledInv, LogsInv
<1>9. \A o \in Sessions, m \in Steerings : InLog(m, store'[o]) =>
        \E p \in Sessions : InLog(m, store[p])
  BY <1>1, <1>6, <1>7
<1>10. LogsInv' /\ RunsInv' /\ UnseenIsNowhere' /\ InHandOnce'
  <2>1. \A q \in Runs : run'[q] = run[q] /\ ~Starts(q, run'[q])
    BY <1>2, OldRunsDoNotStart
  <2>2. DOMAIN run' = Runs /\ sessions \subseteq sessions'
    BY <1>2 DEF SettledInv, Shapes
  <2>3. \A m \in Steerings : IsUnseen(m)' => IsUnseen(m)
    BY <1>2 DEF IsUnseen
  <2>4. QED
    BY <1>7, <1>8, <1>9, <2>1, <2>2, <2>3, WorldKeeps
<1>11. PendingOnce'
  BY <1>2, InboxesShrink DEF SettledInv, Shapes
<1>12. Shapes'
  BY <1>2, <1>7 DEF SettledInv, Shapes
<1>13. QED
  BY <1>10, <1>11, <1>12 DEF SettledInv, SteeringInv

(* What is in memory is gone.                                               *)
LEMMA ForgetKeeps ==
  ASSUME SettledInv, Forget
  PROVE  /\ DOMAIN run' = Runs
         /\ \A q \in Runs : run'[q] = run[q] \/ Quiet(q, run'[q])
         /\ \A m \in Steerings : IsUnseen(m)' => IsUnseen(m)
         /\ PendingOnce'
         /\ DOMAIN store' = Sessions /\ sessions' \subseteq Sessions => Shapes'
<1>1. /\ DOMAIN run' = Runs
      /\ \A q \in Runs : run'[q] = run[q] \/ run'[q] = [IdleRun EXCEPT !.at = "gone"]
  BY DEF Forget
<1>2. \A q \in Runs : run'[q] = run[q] \/ Quiet(q, run'[q])
  <2>1. PICK at \in {"new", "begun", "gone"} : at = "gone"
    OBVIOUS
  <2>2. ASSUME NEW q \in Runs, run'[q] = [IdleRun EXCEPT !.at = at]
        PROVE  Quiet(q, run'[q])
    <3>1. PICK call : call = run'[q]
      OBVIOUS
    <3>2. Quiet(q, call)
      BY <2>2, <3>1, GoneTyped DEF Quiet
    <3>3. QED
      BY <3>1, <3>2
  <2>3. QED
    BY <1>1, <2>1, <2>2
<1>3. /\ DOMAIN steering' = Steerings
      /\ \A m \in Steerings :
           steering'[m] = IF steering[m].at \in {"found", "accepted"}
                          THEN [steering[m] EXCEPT !.at = "lost"] ELSE steering[m]
  BY DEF Forget
<1>4. \A m \in Steerings :
        /\ DOMAIN steering[m] = {"at", "run"}
        /\ steering[m].at \in {"unsent", "found", "accepted", "claimed",
                               "discarded", "lost"}
  BY DEF SettledInv, Shapes
<1>5. \A m \in Steerings :
        /\ DOMAIN steering'[m] = {"at", "run"}
        /\ steering'[m].at = steering[m].at \/ steering'[m].at = "lost"
  BY <1>3, <1>4
<1>6. \A m \in Steerings : IsUnseen(m)' => IsUnseen(m)
  BY <1>5 DEF IsUnseen
<1>7. DOMAIN inbox' = Runs /\ \A q \in Runs : inbox'[q] = ClosedInbox
  BY DEF Forget
<1>8. PendingOnce'
  <2>1. PICK none : none = <<>>
    OBVIOUS
  <2>2. IsSeq(none) /\ DOMAIN none = {}
    BY <2>1, EmptyIsSeq
  <2>3. \A q \in Runs : inbox'[q].pending = none
    BY <1>7, <2>1 DEF ClosedInbox
  <2>4. QED
    BY <2>2, <2>3 DEF PendingOnce
<1>9. named' \in [Runs -> Sessions \cup {NoSession}] /\ stopped' \subseteq Runs
  BY DEF Forget
<1>10. \A q \in Runs : DOMAIN inbox'[q] = {"active", "pending"}
  BY <1>7 DEF ClosedInbox
<1>11. DOMAIN store' = Sessions /\ sessions' \subseteq Sessions => Shapes'
  BY <1>1, <1>3, <1>4, <1>5, <1>7, <1>9, <1>10 DEF Shapes
<1>12. QED
  BY <1>1, <1>2, <1>6, <1>8, <1>11

LEMMA CrashKeeps ==
  ASSUME SettledInv, Crash
  PROVE  SettledInv'
<1>1. Forget /\ UNCHANGED <<sessions, store>>
  BY DEF Crash
<1>2. DOMAIN store' = Sessions /\ sessions' \subseteq Sessions
  BY <1>1 DEF SettledInv, Shapes
<1>3. /\ DOMAIN run' = Runs /\ PendingOnce' /\ Shapes'
      /\ \A q \in Runs : run'[q] = run[q] \/ Quiet(q, run'[q])
      /\ \A m \in Steerings : IsUnseen(m)' => IsUnseen(m)
  BY <1>1, <1>2, ForgetKeeps
<1>4. LogsInv' /\ RunsInv' /\ UnseenIsNowhere' /\ InHandOnce'
  BY <1>1, <1>3, StoreStays
<1>5. QED
  BY <1>3, <1>4 DEF SettledInv, SteeringInv

(* The events that open a turn: what they make of a session.                *)
HasOpened(st, new, t) ==
  /\ Sound(new) /\ Repairs(st, new)
  /\ t \in Nat \ {0} /\ t \in DOMAIN new.turns /\ t \notin DOMAIN st.turns
  /\ \A i \in DOMAIN new.log : new.log[i].turn = t => new.log[i].calls = {}

LEMMA OpenedSound ==
  ASSUME SteeringsApart, NEW st, Sound(st),
         NEW mid, mid = Repaired(st), NEW t, t = Len(mid.turns) + 1,
         NEW open, open = StartTurn(mid, t)
  PROVE  HasOpened(st, open, t)
<1>1. /\ Sound(mid) /\ AllEnded(mid) /\ Repairs(st, mid)
      /\ DOMAIN mid.turns = DOMAIN st.turns
  BY RepairedSound
<1>2. /\ Sound(open) /\ Repairs(mid, open) /\ DOMAIN open.turns = 1 .. t
      /\ t \in Nat \ {0} /\ t \notin DOMAIN mid.turns
      /\ \A i \in DOMAIN open.log :
           \/ i \in DOMAIN mid.log /\ open.log[i] = mid.log[i]
           \/ open.log[i].calls = {}
  BY <1>1, StartSound
<1>3. Repairs(st, open)
  BY <1>1, <1>2, RepairsTwice
<1>4. \A i \in DOMAIN mid.log : mid.log[i].turn # t
  <2>1. Len(mid.turns) \in Nat
    BY <1>1, SoundLog
  <2>2. ASSUME NEW i \in DOMAIN mid.log
        PROVE  mid.log[i].turn # t
    <3>1. mid.log[i].turn <= Len(mid.turns) /\ mid.log[i].turn \in Nat
      BY <1>1 DEF Sound, RowsSound, LogSound, EventTyped
    <3>2. QED
      BY <2>1, <3>1
  <2>3. QED
    BY <2>2
<1>5. t \in DOMAIN open.turns
  BY <1>2
<1>6. QED
  BY <1>1, <1>2, <1>3, <1>4, <1>5 DEF HasOpened

LEMMA PromptedSound ==
  ASSUME SteeringsApart, NEW open, Sound(open),
         NEW t \in DOMAIN open.turns, t \in Nat \ {0},
         \A i \in DOMAIN open.log : open.log[i].turn = t => open.log[i].calls = {},
         NEW new, new = Say(open, <<User(t, "prompt")>>)
  PROVE  /\ Sound(new) /\ Repairs(open, new) /\ t \in DOMAIN new.turns
         /\ \A i \in DOMAIN new.log : new.log[i].turn = t => new.log[i].calls = {}
<1>1. PICK e, ms : e = User(t, "prompt") /\ ms = <<e>>
  OBVIOUS
<1>2. e.kind = "user" /\ e.turn = t /\ e.text = "prompt" /\ e.calls = {}
  BY <1>1 DEF User, Event
<1>3. e.text \notin Steerings /\ EventTyped(e)
  BY <1>2, FS_EmptySet DEF SteeringsApart, EventTyped
<1>4. Fits(open, ms)
  BY <1>1, <1>2, <1>3, EventFits
<1>5. IsSeq(ms) /\ DOMAIN ms = {1} /\ ms[1] = e
  BY <1>1, SingleSeq
<1>6. Grows(open, ms, new) /\ new.turns = open.turns
  <2>1. new = Say(open, ms)
    BY <1>1
  <2>2. QED
    BY <1>5, <2>1, SayGrows
<1>7. Sound(new)
  BY <1>4, <1>6, Grown
<1>8. PICK log, all : log = open.log /\ all = new.log
  OBVIOUS
<1>9. Joined(log, ms, all)
  BY <1>5, <1>6, <1>8, SoundLog, Split DEF Grows
<1>10. Repairs(open, new)
  <2>1. /\ \A i \in DOMAIN ms : /\ ms[i].text \notin Steerings
                                /\ ms[i].calls = {}
        /\ new.log = open.log \o ms
        /\ DOMAIN open.turns \subseteq DOMAIN new.turns
    BY <1>2, <1>3, <1>5, <1>6 DEF Grows
  <2>2. QED
    BY <1>5, <2>1, GrowthRepairs
<1>11. \A i \in DOMAIN all : all[i].turn = t => all[i].calls = {}
  <2>1. \A i \in DOMAIN all :
          \/ i \in DOMAIN log /\ all[i] = log[i]
          \/ all[i] = e
    BY <1>5, <1>9 DEF Joined
  <2>2. \A i \in DOMAIN log : log[i].turn = t => log[i].calls = {}
    BY <1>8
  <2>3. QED
    BY <1>2, <2>1, <2>2
<1>12. t \in DOMAIN new.turns
  BY <1>6
<1>13. QED
  BY <1>7, <1>8, <1>10, <1>11, <1>12

(* A session gets what a repair and the opening of a turn make of it.       *)
LEMMA OtherSessions ==
  ASSUME SettledInv, NEW s \in Sessions, NEW new,
         store' = [store EXCEPT ![s] = new], sessions' = sessions \cup {s},
         Sound(new), Repairs(store[s], new)
  PROVE  /\ DOMAIN store' = Sessions /\ store'[s] = new
         /\ sessions \subseteq sessions' /\ sessions' \subseteq Sessions
         /\ \A o \in Sessions : Sound(store'[o])
         /\ \A o \in sessions : Repairs(store[o], store'[o])
         /\ \A o \in Sessions, m \in Steerings : InLog(m, store'[o]) =>
              \E p \in Sessions : InLog(m, store[p])
<1>1. /\ DOMAIN store' = Sessions /\ store'[s] = new
      /\ \A o \in Sessions \ {s} : store'[o] = store[o]
      /\ sessions \subseteq Sessions
  BY DEF SettledInv, Shapes
<1>2. \A o \in Sessions : Sound(store'[o]) /\ Repairs(store[o], store'[o])
  BY <1>1, RepairsNothing DEF SettledInv, LogsInv
<1>3. \A o \in Sessions, m \in Steerings :
        InLog(m, store'[o]) => InLog(m, store[o])
  BY <1>2, RepairsSteer
<1>4. QED
  BY <1>1, <1>2, <1>3

LEMMA OpenFailsKeeps ==
  ASSUME SteeringsApart, SettledInv, NEW r \in Runs, NEW said \in BOOLEAN,
         OpenFails(r, said)
  PROVE  SettledInv'
<1>1. /\ run' = [run EXCEPT ![r] = [IdleRun EXCEPT !.at = "gone"]]
      /\ named' = [named EXCEPT ![r] = NoSession]
      /\ inbox' = [inbox EXCEPT ![r].active = FALSE]
      /\ UNCHANGED <<stopped, steering>>
  BY DEF OpenFails, Dropped
<1>2. PICK s \in Sessions :
        /\ sessions' = sessions \cup {s}
        /\ store' = [store EXCEPT ![s] =
             LET t == Len(Repaired(store[s]).turns) + 1
                 opening == StartTurn(Repaired(store[s]), t)
             IN  IF said THEN Say(opening, <<User(t, "prompt")>>) ELSE opening]
  BY DEF OpenFails
<1>3. PICK st, mid, t, open, new :
        /\ st = store[s] /\ mid = Repaired(st) /\ t = Len(mid.turns) + 1
        /\ open = StartTurn(mid, t)
        /\ new = IF said THEN Say(open, <<User(t, "prompt")>>) ELSE open
  OBVIOUS
<1>4. Sound(new) /\ Repairs(st, new)
  <2>1. Sound(st)
    BY <1>3 DEF SettledInv, LogsInv
  <2>2. HasOpened(st, open, t)
    BY <1>3, <2>1, OpenedSound
  <2>3. /\ Sound(open) /\ Repairs(st, open)
        /\ t \in Nat \ {0} /\ t \in DOMAIN open.turns
        /\ \A i \in DOMAIN open.log : open.log[i].turn = t => open.log[i].calls = {}
    BY <2>2 DEF HasOpened
  <2>4. CASE said
    <3>1. new = Say(open, <<User(t, "prompt")>>)
      BY <1>3, <2>4
    <3>2. Sound(new) /\ Repairs(open, new)
      BY <2>3, <3>1, PromptedSound
    <3>3. QED
      BY <2>3, <3>2, RepairsTwice
  <2>5. CASE ~said
    BY <1>3, <2>3, <2>5
  <2>6. QED
    BY <2>4, <2>5
<1>5. store' = [store EXCEPT ![s] = new]
  BY <1>2, <1>3
<1>6. /\ DOMAIN store' = Sessions /\ sessions \subseteq sessions'
      /\ sessions' \subseteq Sessions
      /\ \A o \in Sessions : Sound(store'[o])
      /\ \A o \in sessions : Repairs(store[o], store'[o])
      /\ \A o \in Sessions, m \in Steerings : InLog(m, store'[o]) =>
           \E p \in Sessions : InLog(m, store[p])
  <2>1. Repairs(store[s], new)
    BY <1>3, <1>4
  <2>2. QED
    BY <1>2, <1>4, <1>5, <2>1, OtherSessions
<1>7. PICK after : after = run'[r]
  OBVIOUS
<1>8. PICK at \in {"new", "begun", "gone"} : at = "gone"
  OBVIOUS
<1>9. /\ after = [IdleRun EXCEPT !.at = at]
      /\ DOMAIN run' = Runs /\ \A q \in Runs \ {r} : run'[q] = run[q]
  BY <1>1, <1>7, <1>8 DEF SettledInv, Shapes
<1>10. Quiet(r, after)
  BY <1>9, GoneTyped DEF Quiet
<1>11. \A q \in Runs : run'[q] = run[q] \/ Quiet(q, run'[q])
  BY <1>7, <1>9, <1>10
<1>12. \A q \in Runs : ~Starts(q, run'[q])
  <2>1. \A q \in Runs : Quiet(q, run'[q]) => ~Starts(q, run'[q])
    BY DEF Quiet, Starts
  <2>2. QED
    BY <1>11, <2>1, OldRunsDoNotStart
<1>13. \A m \in Steerings : IsUnseen(m)' => IsUnseen(m)
  BY <1>1 DEF IsUnseen
<1>14. LogsInv' /\ RunsInv' /\ UnseenIsNowhere' /\ InHandOnce'
  BY <1>6, <1>9, <1>11, <1>12, <1>13, WorldKeeps
<1>15. /\ DOMAIN inbox' = Runs /\ named' \in [Runs -> Sessions \cup {NoSession}]
       /\ \A q \in Runs : /\ DOMAIN inbox'[q] = {"active", "pending"}
                          /\ inbox'[q].pending = inbox[q].pending
  BY <1>1 DEF SettledInv, Shapes
<1>16. PendingOnce'
  BY <1>1, <1>15, InboxesShrink
<1>17. Shapes'
  BY <1>1, <1>6, <1>9, <1>15 DEF SettledInv, Shapes
<1>18. QED
  BY <1>14, <1>16, <1>17 DEF SettledInv, SteeringInv

LEMMA CrashWhileOpeningKeeps ==
  ASSUME SteeringsApart, SettledInv, NEW r \in Runs, CrashWhileOpening(r)
  PROVE  SettledInv'
<1>1. Forget
  BY DEF CrashWhileOpening
<1>2. PICK s \in Sessions :
        /\ sessions' = sessions \cup {s}
        /\ store' = [store EXCEPT ![s] =
             StartTurn(Repaired(store[s]), Len(Repaired(store[s]).turns) + 1)]
  BY DEF CrashWhileOpening
<1>3. PICK st, mid, t, new :
        /\ st = store[s] /\ mid = Repaired(st) /\ t = Len(mid.turns) + 1
        /\ new = StartTurn(mid, t)
  OBVIOUS
<1>4. Sound(new) /\ Repairs(st, new)
  <2>1. Sound(st)
    BY <1>3 DEF SettledInv, LogsInv
  <2>2. QED
    BY <1>3, <2>1, OpenedSound DEF HasOpened
<1>5. store' = [store EXCEPT ![s] = new]
  BY <1>2, <1>3
<1>6. /\ DOMAIN store' = Sessions /\ sessions \subseteq sessions'
      /\ sessions' \subseteq Sessions
      /\ \A o \in Sessions : Sound(store'[o])
      /\ \A o \in sessions : Repairs(store[o], store'[o])
      /\ \A o \in Sessions, m \in Steerings : InLog(m, store'[o]) =>
           \E p \in Sessions : InLog(m, store[p])
  <2>1. Repairs(store[s], new)
    BY <1>3, <1>4
  <2>2. QED
    BY <1>2, <1>4, <1>5, <2>1, OtherSessions
<1>7. /\ DOMAIN run' = Runs /\ PendingOnce' /\ Shapes'
      /\ \A q \in Runs : run'[q] = run[q] \/ Quiet(q, run'[q])
      /\ \A m \in Steerings : IsUnseen(m)' => IsUnseen(m)
  BY <1>1, <1>6, ForgetKeeps
<1>8. \A q \in Runs : ~Starts(q, run'[q])
  <2>1. \A q \in Runs : Quiet(q, run'[q]) => ~Starts(q, run'[q])
    BY DEF Quiet, Starts
  <2>2. QED
    BY <1>7, <2>1, OldRunsDoNotStart
<1>9. LogsInv' /\ RunsInv' /\ UnseenIsNowhere' /\ InHandOnce'
  BY <1>6, <1>7, <1>8, WorldKeeps
<1>10. QED
  BY <1>7, <1>9 DEF SettledInv, SteeringInv

LEMMA OpenTurnKeeps ==
  ASSUME SteeringsApart, SettledInv, NEW r \in Runs, NEW say \in BOOLEAN,
         OpenTurn(r, say)
  PROVE  SettledInv'
<1>1. PICK s \in Sessions :
        /\ sessions' = sessions \cup {s}
        /\ Opened(r, s, Repaired(store[s]), say)
  BY DEF OpenTurn
<1>2. PICK st, mid, t, open, new :
        /\ st = store[s] /\ mid = Repaired(st) /\ t = Len(mid.turns) + 1
        /\ open = StartTurn(mid, t)
        /\ new = IF say THEN Say(open, <<User(t, "prompt")>>) ELSE open
  OBVIOUS
<1>3. PICK base : base = History(mid) \o
                         (IF say THEN <<Len(open.log) + 1>> ELSE <<>>)
  OBVIOUS
<1>4. PICK entries : entries = Entries(mid)
  OBVIOUS
<1>5. /\ store' = [store EXCEPT ![s] = new]
      /\ run' = [run EXCEPT ![r] =
           [IdleRun EXCEPT !.at = "step", !.session = s, !.turn = t, !.step = 1,
                           !.entries = entries, !.base = base]]
      /\ UNCHANGED <<named, stopped, inbox, steering>>
  <2>1. Opened(r, s, mid, say)
    BY <1>1, <1>2
  <2>2. /\ store' = [store EXCEPT ![s] = new]
        /\ run' = [run EXCEPT ![r] =
             [IdleRun EXCEPT !.at = "step", !.session = s, !.turn = t, !.step = 1,
                             !.entries = entries, !.base = base]]
    <3>1. CASE say
      BY <1>2, <1>3, <1>4, <2>1, <3>1 DEF Opened
    <3>2. CASE ~say
      BY <1>2, <1>3, <1>4, <2>1, <3>2 DEF Opened
    <3>3. QED
      BY <3>1, <3>2
  <2>3. UNCHANGED <<named, stopped, inbox, steering>>
    BY DEF OpenTurn
  <2>4. QED
    BY <2>2, <2>3
<1>6. Sound(st)
  BY <1>2 DEF SettledInv, LogsInv
<1>7. /\ Sound(open) /\ Repairs(st, open)
      /\ t \in Nat \ {0} /\ t \in DOMAIN open.turns /\ t \notin DOMAIN st.turns
      /\ \A i \in DOMAIN open.log : open.log[i].turn = t => open.log[i].calls = {}
  <2>1. mid = Repaired(st) /\ t = Len(mid.turns) + 1 /\ open = StartTurn(mid, t)
    BY <1>2
  <2>2. HasOpened(st, open, t)
    BY <1>6, <2>1, OpenedSound
  <2>3. QED
    BY <2>2 DEF HasOpened
<1>8. /\ Sound(new) /\ Repairs(st, new) /\ t \in DOMAIN new.turns
      /\ \A i \in DOMAIN new.log : new.log[i].turn = t => new.log[i].calls = {}
  <2>1. CASE say
    <3>1. new = Say(open, <<User(t, "prompt")>>)
      BY <1>2, <2>1
    <3>2. /\ Sound(new) /\ Repairs(open, new) /\ t \in DOMAIN new.turns
          /\ \A i \in DOMAIN new.log : new.log[i].turn = t => new.log[i].calls = {}
      BY <1>7, <3>1, PromptedSound
    <3>3. QED
      BY <1>7, <3>2, RepairsTwice
  <2>2. CASE ~say
    BY <1>2, <1>7, <2>2
  <2>3. QED
    BY <2>1, <2>2
<1>9. /\ DOMAIN store' = Sessions /\ store'[s] = new
      /\ sessions \subseteq sessions' /\ sessions' \subseteq Sessions
      /\ \A o \in Sessions : Sound(store'[o])
      /\ \A o \in sessions : Repairs(store[o], store'[o])
      /\ \A o \in Sessions, m \in Steerings : InLog(m, store'[o]) =>
           \E p \in Sessions : InLog(m, store[p])
  <2>1. Repairs(store[s], new)
    BY <1>2, <1>8
  <2>2. QED
    BY <1>1, <1>5, <1>8, <2>1, OtherSessions
<1>10. PICK after : after = run'[r]
  OBVIOUS
<1>11. /\ DOMAIN after = DOMAIN IdleRun /\ after.at = "step"
       /\ after.session = s /\ after.turn = t /\ after.step = 1
       /\ after.fresh = <<>> /\ after.mark = 0 /\ after.todo = <<>>
       /\ after.unusable = 0 /\ after.outcome = "none"
       /\ DOMAIN run' = Runs /\ \A q \in Runs \ {r} : run'[q] = run[q]
  <2>1. DOMAIN run = Runs
    BY DEF SettledInv, Shapes
  <2>2. QED
    BY <1>5, <1>10, <2>1 DEF IdleRun
<1>12. IsOpen(after) /\ ~IsWorking(after)
  BY <1>11 DEF IsOpen, IsWorking
<1>13. RunTyped(r, after)
  <2>1. PICK none : none = <<>>
    OBVIOUS
  <2>2. /\ IsSeq(none) /\ Len(none) = 0 /\ DOMAIN none = {}
        /\ after.fresh = none /\ after.todo = none
    BY <1>11, <2>1, EmptyIsSeq
  <2>3. MaxSteps[r] \in Nat \ {0} /\ MaxUnusable \in Nat
    BY ConstantsAssumption
  <2>4. after.step \in 0 .. MaxSteps[r]
    BY <1>11, <2>3
  <2>5. QED
    BY <1>11, <2>2, <2>3, <2>4 DEF RunTyped, RunStep
<1>14. Starts(r, after)
  <2>1. RunLogged(after, store'[after.session])
    BY <1>8, <1>9, <1>11 DEF RunLogged
  <2>2. after.session \in sessions'
    BY <1>1, <1>11
  <2>3. after.turn \notin DOMAIN store[after.session].turns
    BY <1>2, <1>7, <1>11
  <2>4. QED
    BY <1>12, <1>13, <2>1, <2>2, <2>3 DEF Starts
<1>15. \A q \in Runs \ {r} : run'[q] = run[q] /\ ~Starts(q, run'[q])
  BY <1>11, OldRunsDoNotStart
<1>16. LogsInv' /\ RunsInv' /\ UnseenIsNowhere' /\ InHandOnce'
  <2>1. /\ \A q \in Runs : \/ run'[q] = run[q] \/ Quiet(q, run'[q])
                           \/ Starts(q, run'[q])
        /\ \A p, q \in Runs : Starts(p, run'[p]) /\ Starts(q, run'[q]) => p = q
    BY <1>10, <1>14, <1>15
  <2>2. \A m \in Steerings : IsUnseen(m)' => IsUnseen(m)
    BY <1>5 DEF IsUnseen
  <2>3. QED
    BY <1>9, <1>11, <2>1, <2>2, WorldKeeps
<1>17. PendingOnce'
  BY <1>5, InboxesShrink DEF SettledInv, Shapes
<1>18. Shapes'
  BY <1>5, <1>9, <1>11 DEF SettledInv, Shapes
<1>19. QED
  BY <1>16, <1>17, <1>18 DEF SettledInv, SteeringInv

LEMMA EmptySound == Sound(EmptyStore) /\ \A m : ~InLog(m, EmptyStore)
<1>1. PICK st, none : st = EmptyStore /\ none = <<>>
  OBVIOUS
<1>2. /\ DOMAIN st = {"log", "surface", "turns"}
      /\ st.log = none /\ st.surface = {} /\ st.turns = none
  BY <1>1 DEF EmptyStore
<1>3. IsSeq(none) /\ Len(none) = 0 /\ DOMAIN none = {}
  BY <1>1, EmptyIsSeq
<1>4. none \in Seq(Reason \cup {"open"})
  BY <1>1
<1>5. LogSound(none)
  BY <1>3 DEF LogSound, TurnsInOrder, Once
<1>6. RowsSound(st)
  BY <1>2, <1>3, <1>4 DEF RowsSound
<1>7. QED
  BY <1>1, <1>2, <1>3, <1>5, <1>6 DEF Sound, InLog

LEMMA InitSettled ==
  ASSUME EarlierSound, Init
  PROVE  SettledInv
<1>1. PICK log \in Earlier :
        store = [s \in Sessions |-> IF s = First THEN Projected(log)
                                                 ELSE EmptyStore]
  BY DEF Init
<1>2. LogSound(log) /\ \A i \in DOMAIN log : log[i].text \notin Steerings
  BY DEF EarlierSound
<1>3. Sound(Projected(log)) /\ \A m \in Steerings : ~InLog(m, Projected(log))
  <2>1. Sound(Projected(log)) /\ Projected(log).log = log
    BY <1>2, ProjectedSound
  <2>2. QED
    BY <1>2, <2>1 DEF InLog
<1>4. /\ DOMAIN store = Sessions
      /\ \A s \in Sessions : /\ Sound(store[s])
                             /\ \A m \in Steerings : ~InLog(m, store[s])
  BY <1>1, <1>3, EmptySound
<1>5. \A r \in Runs : /\ RunTyped(r, run[r]) /\ RunUnlogged(run[r])
                      /\ ~IsOpen(run[r]) /\ \A m : ~InHand(m, run[r])
  <2>1. PICK call : call = IdleRun
    OBVIOUS
  <2>2. IsIdle(call)
    BY <2>1 DEF IdleRun, IsIdle
  <2>3. ASSUME NEW r \in Runs
        PROVE  /\ RunTyped(r, call) /\ RunUnlogged(call)
               /\ ~IsOpen(call) /\ \A m : ~InHand(m, call)
    BY <2>2, IdleTyped
  <2>4. \A r \in Runs : run[r] = call
    BY <2>1 DEF Init
  <2>5. QED
    BY <2>3, <2>4
<1>6. /\ DOMAIN inbox = Runs
      /\ \A r \in Runs : /\ DOMAIN inbox[r] = {"active", "pending"}
                         /\ inbox[r].pending = <<>>
  BY DEF Init, ClosedInbox
<1>7. PendingOnce
  <2>1. PICK none : none = <<>>
    OBVIOUS
  <2>2. IsSeq(none) /\ DOMAIN none = {}
    BY <2>1, EmptyIsSeq
  <2>3. \A r \in Runs : inbox[r].pending = none
    BY <1>6, <2>1
  <2>4. QED
    BY <2>2, <2>3 DEF PendingOnce
<1>8. Shapes
  <2>1. /\ DOMAIN steering = Steerings
        /\ \A m \in Steerings : DOMAIN steering[m] = {"at", "run"}
                                /\ steering[m].at = "unsent"
    BY DEF Init
  <2>2. sessions \subseteq Sessions /\ DOMAIN run = Runs /\ stopped \subseteq Runs
    BY ConstantsAssumption DEF Init
  <2>3. named \in [Runs -> Sessions \cup {NoSession}]
    BY DEF Init
  <2>4. QED
    BY <1>4, <1>6, <2>1, <2>2, <2>3 DEF Shapes
<1>9. LogsInv /\ RunsInv
  BY <1>4, <1>5 DEF LogsInv, RunsInv
<1>10. UnseenIsNowhere /\ InHandOnce
  BY <1>4, <1>5 DEF UnseenIsNowhere, InHandOnce
<1>11. QED
  BY <1>7, <1>8, <1>9, <1>10 DEF SettledInv, SteeringInv

LEMMA ChatKeeps ==
  ASSUME SteeringsApart, SettledInv, NEW r \in Runs, Chat(r)
  PROVE  SettledInv'
<1>1. CASE BeginFails(r)
  BY <1>1, BeginFailsKeeps
<1>2. ASSUME NEW say \in BOOLEAN, OpenTurn(r, say)
      PROVE  SettledInv'
  BY <1>2, OpenTurnKeeps
<1>7. ASSUME NEW said \in BOOLEAN, OpenFails(r, said)
      PROVE  SettledInv'
  BY <1>7, OpenFailsKeeps
<1>3. CASE CloseInbox(r)
  BY <1>3, CloseInboxKeeps
<1>4. CASE CloseTurn(r)
  BY <1>4, CloseTurnKeeps
<1>5. CASE Loop(r)
  <2>1. CASE NoticeStop(r)
    BY <2>1, NoticeStopKeeps
  <2>2. CASE BeginStep(r)
    BY <2>2, BeginStepKeeps
  <2>3. CASE Compact(r)
    BY <2>3, CompactKeeps
  <2>4. CASE Ask(r)
    BY <2>4, AskKeeps
  <2>5. CASE StepFails(r)
    BY <2>5, StepFailsKeeps
  <2>6. \A n \in {0} \cup CallCounts : n \in Nat
    BY ConstantsAssumption
  <2>7. ASSUME NEW n \in {0} \cup CallCounts, ReplyInterrupted(r, n, "said")
        PROVE  SettledInv'
    <3>1. PICK text \in {"said", "blank"} : text = "said"
      OBVIOUS
    <3>2. ReplyInterrupted(r, n, text) /\ n \in Nat
      BY <2>6, <2>7, <3>1
    <3>3. QED
      BY <3>2, ReplyInterruptedKeeps
  <2>8. CASE ReplyInterrupted(r, 0, "blank")
    <3>1. PICK text \in {"said", "blank"} : text = "blank"
      OBVIOUS
    <3>2. PICK n \in Nat : n = 0
      OBVIOUS
    <3>3. ReplyInterrupted(r, n, text)
      BY <2>8, <3>1, <3>2
    <3>4. QED
      BY <3>3, ReplyInterruptedKeeps
  <2>9. ASSUME NEW n \in CallCounts, ReplyCut(r, n)
        PROVE  SettledInv'
    BY <2>6, <2>9, ReplyCutKeeps
  <2>10. ASSUME NEW n \in CallCounts, ReplyCalls(r, n)
         PROVE  SettledInv'
    BY <2>6, <2>10, ReplyCallsKeeps
  <2>11. ASSUME NEW text \in {"said", "blank"}, ReplyAnswer(r, text)
         PROVE  SettledInv'
    BY <2>11, ReplyAnswerKeeps
  <2>12. CASE Conclude(r)
    BY <2>12, ConcludeKeeps
  <2>13. ASSUME NEW n \in 1 .. Len(run[r].todo), RunTools(r, n)
         PROVE  SettledInv'
    BY <2>13, RunToolsKeeps
  <2>14. CASE GiveUp(r)
    BY <2>14, GiveUpKeeps
  <2>15. CASE ToolsStopped(r)
    BY <2>15, ToolsStoppedKeeps
  <2>16. CASE ToolsDone(r)
    BY <2>16, ToolsDoneKeeps
  <2>17. CASE LeaveStep(r)
    BY <2>17, LeaveStepKeeps
  <2>18. QED
    BY <1>5, <2>1, <2>2, <2>3, <2>4, <2>5, <2>7, <2>8, <2>9, <2>10, <2>11,
       <2>12, <2>13, <2>14, <2>15, <2>16, <2>17 DEF Loop
<1>8. QED
  BY <1>1, <1>2, <1>3, <1>4, <1>5, <1>7 DEF Chat

LEMMA NextSettled ==
  ASSUME SteeringsApart, SettledInv, [Next]_vars
  PROVE  SettledInv'
<1>1. ASSUME NEW r \in Runs, Chat(r)
      PROVE  SettledInv'
  BY <1>1, ChatKeeps
<1>2. ASSUME NEW r \in Runs, Stop(r)
      PROVE  SettledInv'
  BY <1>2, StopKeeps
<1>3. ASSUME NEW r \in Runs, CrashWhileOpening(r)
      PROVE  SettledInv'
  BY <1>3, CrashWhileOpeningKeeps
<1>4. ASSUME NEW r \in Runs, NEW s \in Sessions \cup {NoSession}, Begin(r, s)
      PROVE  SettledInv'
  BY <1>4, BeginKeeps
<1>5. ASSUME NEW m \in Steerings, SteerPushes(m)
      PROVE  SettledInv'
  BY <1>5, SteerPushesKeeps
<1>6. ASSUME NEW m \in Steerings, NEW r \in Runs, SteerFinds(m, r)
      PROVE  SettledInv'
  BY <1>6, SteerFindsKeeps
<1>7. ASSUME NEW s \in Sessions, View(s)
      PROVE  SettledInv'
  BY <1>7, ViewKeeps
<1>8. ASSUME NEW s \in Sessions, NEW new \in Sessions,
             NEW at \in DOMAIN store[s].log, Fork(s, at, new)
      PROVE  SettledInv'
  BY <1>8, ForkKeeps
<1>9. CASE Crash
  BY <1>9, CrashKeeps
<1>10. CASE UNCHANGED vars
  BY <1>10 DEF vars, SettledInv, Shapes, LogsInv, RunsInv, SteeringInv,
               UnseenIsNowhere, InHandOnce, PendingOnce, IsUnseen
<1>11. QED
  BY <1>1, <1>2, <1>3, <1>4, <1>5, <1>6, <1>7, <1>8, <1>9, <1>10 DEF Next

(* Whatever stops, fails, is steered, repaired, forked or crashes, and in   *)
(* any order: the surface is rows of the log, every row has a status, and a *)
(* run is at a step of its loop, within its budget of steps, with a mark    *)
(* within what the turn has said, in a session that exists.  For any logs   *)
(* to start with that are sound, and any steering messages told from the    *)
(* other texts.                                                             *)
THEOREM TypeCorrect ==
  ASSUME EarlierSound, SteeringsApart
  PROVE  Spec => []TypeOK
<1>1. Init => SettledInv
  BY InitSettled
<1>2. SettledInv /\ [Next]_vars => SettledInv'
  BY NextSettled
<1>3. SettledInv => TypeOK
  <2>1. SUFFICES ASSUME SettledInv
                 PROVE  TypeOK
    OBVIOUS
  <2>2. ASSUME NEW s \in Sessions
        PROVE  /\ store[s].surface \subseteq DOMAIN store[s].log
               /\ \A t \in DOMAIN store[s].turns :
                    store[s].turns[t] \in Reason \cup {"open"}
    BY <2>1 DEF SettledInv, LogsInv, Sound, RowsSound
  <2>3. ASSUME NEW r \in Runs
        PROVE  /\ run[r].at \in RunStep
               /\ run[r].step \in 0 .. MaxSteps[r]
               /\ run[r].mark \in 0 .. Len(run[r].fresh)
               /\ run[r].unusable \in 0 .. MaxUnusable
               /\ run[r].outcome \in {"none", "again", "ok", "cancelled", "error"}
               /\ InTurnNow(r) => run[r].session \in sessions
               /\ named[r] \in Sessions \cup {NoSession}
    BY <2>1 DEF SettledInv, Shapes, RunsInv, RunTyped, InTurnNow, IsRegistered, IsOpen
  <2>4. QED
    BY <2>1, <2>2, <2>3 DEF TypeOK, SettledInv, Shapes
<1>4. QED
  BY <1>1, <1>2, <1>3, PTL DEF Spec

(* settle writes what the turn said since the mark, repair answers the      *)
(* calls that are left, and a fork copies the log up to a row: no call is   *)
(* answered twice in a log and no steering message appears in it twice, for *)
(* any number of chats, sessions, steps, calls and messages, whatever       *)
(* interrupts them between two writes.                                      *)
THEOREM NothingTwice ==
  ASSUME EarlierSound, SteeringsApart
  PROVE  Spec => []SettledOnce
<1>1. Init => SettledInv
  BY InitSettled
<1>2. SettledInv /\ [Next]_vars => SettledInv'
  BY NextSettled
<1>3. SettledInv => SettledOnce
  <2>1. SUFFICES ASSUME SettledInv, NEW s \in sessions, NEW i \in Settled(s),
                        NEW j \in Settled(s),
                        Same(store[s].log[i], store[s].log[j])
                 PROVE  i = j
    BY DEF SettledOnce
  <2>2. Once(store[s].log) /\ s \in Sessions
    BY <2>1 DEF SettledInv, Shapes, LogsInv, Sound, LogSound
  <2>3. /\ i \in DOMAIN store[s].log /\ j \in DOMAIN store[s].log
        /\ \/ store[s].log[i].kind = "tool"
           \/ store[s].log[i].text \in Steerings
    BY <2>1 DEF Settled
  <2>4. \/ SameResult(store[s].log[i], store[s].log[j])
        \/ SameSteering(store[s].log[i], store[s].log[j])
    BY <2>1, <2>3 DEF Same, SameResult, SameSteering
  <2>5. QED
    BY <2>2, <2>3, <2>4 DEF Once
<1>4. QED
  BY <1>1, <1>2, <1>3, PTL DEF Spec

(* open_turn, repair and close_turn: every turn of a session but its last   *)
(* is closed, for any number of chats and sessions, crashes, forks and      *)
(* views included.                                                          *)
THEOREM OnlyLastIsOpen ==
  ASSUME EarlierSound, SteeringsApart
  PROVE  Spec => []EarlierTurnsAreClosed
<1>1. Init => SettledInv
  BY InitSettled
<1>2. SettledInv /\ [Next]_vars => SettledInv'
  BY NextSettled
<1>3. SettledInv => EarlierTurnsAreClosed
  BY DEF SettledInv, Shapes, LogsInv, Sound, RowsSound, EarlierTurnsAreClosed
<1>4. QED
  BY <1>1, <1>2, <1>3, PTL DEF Spec

-----------------------------------------------------------------------------
(* The rows and the log.                                                    *)

LEMMA ToldOnce ==
  ASSUME NEW log, IsSeq(log), NEW t, NEW a, NEW b, Tells(log, t, a), Tells(log, t, b)
  PROVE  a = b
<1>1. DOMAIN log \subseteq Nat
  BY SeqFacts
<1>2. \A i, j \in DOMAIN log : i <= j /\ j <= i => i = j
  BY <1>1
<1>3. QED
  BY <1>2 DEF Tells

(* Sound rows that say what one log says are one.                           *)
LEMMA RowsAreTold ==
  ASSUME NEW st, NEW new, Sound(st), Sound(new), RowsTell(st), RowsTell(new),
         st.log = new.log
  PROVE  st = new
<1>1. PICK log, ts, us : log = st.log /\ ts = st.turns /\ us = new.turns
  OBVIOUS
<1>2. /\ IsSeq(log) /\ log = new.log
      /\ Len(ts) \in Nat /\ DOMAIN ts = 1 .. Len(ts)
      /\ Len(us) \in Nat /\ DOMAIN us = 1 .. Len(us)
      /\ ts \in Seq(Reason \cup {"open"}) /\ us \in Seq(Reason \cup {"open"})
  BY <1>1, SoundLog
<1>3. /\ \A i \in DOMAIN log : log[i].turn <= Len(ts) /\ log[i].turn <= Len(us)
      /\ \A t \in DOMAIN ts : \E i \in DOMAIN log : Begins(log, i, t)
      /\ \A t \in DOMAIN us : \E i \in DOMAIN log : Begins(log, i, t)
  BY <1>1, <1>2 DEF Sound, RowsSound
<1>4. \A t \in DOMAIN ts : t <= Len(us)
  BY <1>3 DEF Begins
<1>5. \A t \in DOMAIN us : t <= Len(ts)
  BY <1>3 DEF Begins
<1>6. Len(ts) = Len(us)
  <2>1. Len(ts) <= Len(us)
    BY <1>2, <1>4
  <2>2. Len(us) <= Len(ts)
    BY <1>2, <1>5
  <2>3. \A m, n \in Nat : m <= n /\ n <= m => m = n
    OBVIOUS
  <2>4. QED
    BY <1>2, <2>1, <2>2, <2>3, Zenon
<1>7. \A t \in DOMAIN ts : ts[t] = us[t]
  <2>1. ASSUME NEW t \in DOMAIN ts
        PROVE  ts[t] = us[t]
    <3>1. t \in DOMAIN us
      BY <1>2, <1>6
    <3>2. Tells(log, t, ts[t]) /\ Tells(log, t, us[t])
      BY <1>1, <1>2, <3>1 DEF RowsTell
    <3>3. QED
      BY <1>2, <3>2, ToldOnce, Zenon
  <2>2. QED
    BY <2>1
<1>8. ts = us
  <2>1. PICK S : S = Reason \cup {"open"}
    OBVIOUS
  <2>2. ts \in Seq(S) /\ us \in Seq(S)
    BY <1>2, <2>1
  <2>3. QED
    BY <1>2, <1>6, <1>7, <2>2, SeqEqual
<1>9. st.surface = new.surface
  BY <1>1, <1>2 DEF RowsTell
<1>10. QED
  BY <1>1, <1>8, <1>9 DEF RowsTell

LEMMA ProjectedTells ==
  ASSUME NEW log, LogSound(log)
  PROVE  RowsTell(Projected(log))
<1>1. PICK st, turns : st = Projected(log) /\ turns = TurnsOf(log)
  OBVIOUS
<1>2. /\ st = [log |-> log, surface |-> SurfaceOf(log), turns |-> turns]
      /\ st.log = log /\ st.surface = SurfaceOf(log) /\ st.turns = turns
  BY <1>1 DEF Projected
<1>3. st.surface = {i \in DOMAIN log : Shows(log, i)}
  BY <1>2 DEF SurfaceOf, Shows, Hides
<1>4. PICK k, starts : /\ starts = {j \in DOMAIN log : log[j].kind = "turnStart"}
                       /\ k = Cardinality({log[i].turn : i \in starts})
  OBVIOUS
<1>5. turns = [t \in 1 .. k |->
        IF {i \in DOMAIN log : Ends(log, i, t)} = {} THEN "open"
        ELSE log[CHOOSE l \in {i \in DOMAIN log : Ends(log, i, t)} :
                   \A j \in {i \in DOMAIN log : Ends(log, i, t)} : j <= l].text]
  BY <1>1, <1>4 DEF TurnsOf, Ends
<1>6. PICK n : n = Len(log)
  OBVIOUS
<1>7. n \in Nat /\ DOMAIN log = 1 .. n
  BY <1>6, SeqFacts DEF LogSound
<1>8. ASSUME NEW t \in 1 .. k
      PROVE  Tells(log, t, turns[t])
  <2>1. PICK S : S = {i \in DOMAIN log : Ends(log, i, t)}
    OBVIOUS
  <2>2. turns[t] = IF S = {} THEN "open"
                   ELSE log[CHOOSE i \in S : \A j \in S : j <= i].text
    BY <1>5, <2>1
  <2>3. CASE S = {}
    BY <2>1, <2>2, <2>3 DEF Tells
  <2>4. CASE S # {}
    <3>1. PICK last : last = CHOOSE i \in S : \A j \in S : j <= i
      OBVIOUS
    <3>2. \E i \in S : \A j \in S : j <= i
      BY <1>7, <2>1, <2>4, LastOf
    <3>3. last \in S /\ \A j \in S : j <= last
      BY <3>1, <3>2
    <3>4. turns[t] = log[last].text
      BY <2>2, <2>4, <3>1
    <3>5. QED
      BY <2>1, <3>3, <3>4 DEF Tells
  <2>5. QED
    BY <2>3, <2>4
<1>9. DOMAIN turns = 1 .. k
  BY <1>5
<1>10. RowsTell(st)
  BY <1>2, <1>3, <1>8, <1>9 DEF RowsTell
<1>11. QED
  BY <1>1, <1>10

LEMMA RowsMatch ==
  ASSUME NEW st, Sound(st), RowsTell(st)
  PROVE  st = Projected(st.log)
<1>1. PICK new : new = Projected(st.log)
  OBVIOUS
<1>2. PICK log : log = st.log /\ LogSound(log)
  BY DEF Sound
<1>3. Sound(Projected(log)) /\ Projected(log).log = log /\ RowsTell(Projected(log))
  BY <1>2, ProjectedSound, ProjectedTells
<1>4. Sound(new) /\ RowsTell(new) /\ st.log = new.log
  BY <1>1, <1>2, <1>3
<1>5. st = new
  BY <1>4, RowsAreTold
<1>6. QED
  BY <1>1, <1>5

-----------------------------------------------------------------------------
(* What the operations of the store make of both.                           *)

LEMMA TurnTold ==
  ASSUME NEW log, NEW ms, NEW all, Joined(log, ms, all), NEW t, NEW status,
         Tells(log, t, status), \A j \in DOMAIN ms : ~Ends(ms, j, t)
  PROVE  Tells(all, t, status)
<1>1. \A i \in DOMAIN all : Ends(all, i, t) => i \in DOMAIN log /\ Ends(log, i, t)
  BY DEF Joined, Ends
<1>2. \A i \in DOMAIN log : /\ i \in DOMAIN all /\ all[i] = log[i]
                            /\ Ends(log, i, t) => Ends(all, i, t)
  BY DEF Joined, Ends
<1>3. QED
  BY <1>1, <1>2 DEF Tells

LEMMA TurnEnded ==
  ASSUME NEW log, NEW ms, NEW all, Joined(log, ms, all), NEW t,
         DOMAIN ms = {1}, Ends(ms, 1, t)
  PROVE  Tells(all, t, ms[1].text)
<1>1. PICK n : n = Len(log)
  OBVIOUS
<1>2. /\ n \in Nat /\ DOMAIN log = 1 .. n
      /\ n + 1 \in DOMAIN all /\ all[n + 1] = ms[1]
      /\ \A i \in DOMAIN all : i \in DOMAIN log \/ i = n + 1
  BY <1>1 DEF Joined
<1>3. Ends(all, n + 1, t)
  BY <1>2 DEF Ends
<1>4. \A i \in DOMAIN all : i <= n + 1
  BY <1>2
<1>5. QED
  BY <1>2, <1>3, <1>4 DEF Tells

LEMMA SurfaceTold ==
  ASSUME NEW log, NEW ms, NEW all, Joined(log, ms, all), 
         \A j \in DOMAIN ms : ms[j].kind # "summary"
  PROVE  {i \in DOMAIN all : Shows(all, i)} =
           {i \in DOMAIN log : Shows(log, i)} \cup
           {Len(log) + j : j \in {k \in DOMAIN ms : ms[k].kind \in MessageKind}}
<1>1. PICK n : n = Len(log)
  OBVIOUS
<1>2. /\ n \in Nat /\ DOMAIN log = 1 .. n /\ DOMAIN ms = 1 .. Len(ms)
      /\ \A i \in DOMAIN log : i \in DOMAIN all /\ all[i] = log[i]
      /\ \A j \in DOMAIN ms : n + j \in DOMAIN all /\ all[n + j] = ms[j]
      /\ \A i \in DOMAIN all : i \in DOMAIN log \/ \E j \in DOMAIN ms : i = n + j
  BY <1>1 DEF Joined
<1>3. \A j \in DOMAIN all : all[j].kind = "summary" =>
        j \in DOMAIN log /\ all[j] = log[j]
  BY <1>2
<1>4. ASSUME NEW i \in DOMAIN log
      PROVE  Shows(all, i) <=> Shows(log, i)
  <2>1. all[i] = log[i]
    BY <1>2
  <2>2. \A j \in DOMAIN log : Hides(all, j, i) <=> Hides(log, j, i)
    BY <1>2, <2>1 DEF Hides
  <2>3. \A j \in DOMAIN all : Hides(all, j, i) => j \in DOMAIN log
    BY <1>3 DEF Hides
  <2>4. \A j \in DOMAIN log : j \in DOMAIN all
    BY <1>2
  <2>5. QED
    BY <2>1, <2>2, <2>3, <2>4 DEF Shows
<1>5. ASSUME NEW k \in DOMAIN ms
      PROVE  Shows(all, n + k) <=> ms[k].kind \in MessageKind
  <2>1. all[n + k] = ms[k] /\ k \in Nat \ {0}
    BY <1>2
  <2>2. \A j \in DOMAIN log : ~ (n + k < j)
    BY <1>2, <2>1
  <2>3. \A j \in DOMAIN all : ~Hides(all, j, n + k)
    BY <1>3, <2>2 DEF Hides
  <2>4. QED
    BY <2>1, <2>3 DEF Shows
<1>6. ASSUME NEW i
      PROVE  i \in {h \in DOMAIN all : Shows(all, h)} <=>
               \/ i \in {h \in DOMAIN log : Shows(log, h)}
               \/ i \in {n + j : j \in {k \in DOMAIN ms : ms[k].kind \in MessageKind}}
  BY <1>2, <1>4, <1>5
<1>7. QED
  BY <1>1, <1>6

(* What is appended without ending a turn or summarising anything.          *)
Adds(st, ms, new) ==
  /\ new = [log |-> st.log \o ms,
            surface |-> st.surface \cup
              {Len(st.log) + j : j \in {k \in DOMAIN ms : ms[k].kind \in MessageKind}},
            turns |-> st.turns]
  /\ IsSeq(ms) /\ \A j \in DOMAIN ms : ms[j].kind \notin {"summary", "turnEnd"}

LEMMA AddedTells ==
  ASSUME NEW st, NEW ms, NEW new, Sound(st), RowsTell(st), Adds(st, ms, new)
  PROVE  RowsTell(new)
<1>1. PICK log, all, S : /\ log = st.log /\ all = new.log
                         /\ S = {Len(log) + j : j \in {k \in DOMAIN ms :
                                                 ms[k].kind \in MessageKind}}
  OBVIOUS
<1>2. /\ new = [log |-> new.log, surface |-> new.surface, turns |-> new.turns]
      /\ all = log \o ms /\ new.surface = st.surface \cup S
      /\ new.turns = st.turns
  BY <1>1 DEF Adds
<1>3. Joined(log, ms, all)
  BY <1>1, <1>2, SoundLog, Split DEF Adds
<1>4. st.surface = {i \in DOMAIN log : Shows(log, i)}
  BY <1>1 DEF RowsTell
<1>5. {i \in DOMAIN all : Shows(all, i)} = {i \in DOMAIN log : Shows(log, i)} \cup S
  <2>1. \A j \in DOMAIN ms : ms[j].kind # "summary"
    BY DEF Adds
  <2>2. {i \in DOMAIN all : Shows(all, i)} =
          {i \in DOMAIN log : Shows(log, i)} \cup
          {Len(log) + j : j \in {k \in DOMAIN ms : ms[k].kind \in MessageKind}}
    BY <1>3, <2>1, SurfaceTold, Zenon
  <2>3. QED
    BY <1>1, <2>2, Zenon
<1>6. ASSUME NEW t \in DOMAIN st.turns
      PROVE  Tells(all, t, new.turns[t])
  <2>1. PICK status : status = st.turns[t]
    OBVIOUS
  <2>2. Tells(log, t, status)
    BY <1>1, <2>1 DEF RowsTell
  <2>3. \A j \in DOMAIN ms : ~Ends(ms, j, t)
    BY DEF Adds, Ends
  <2>4. QED
    BY <1>2, <1>3, <2>1, <2>2, <2>3, TurnTold
<1>7. QED
  BY <1>1, <1>2, <1>4, <1>5, <1>6 DEF RowsTell

LEMMA LoggedTells ==
  ASSUME NEW st, NEW e, Sound(st), RowsTell(st),
         e.kind \notin MessageKind \cup {"turnEnd"}
  PROVE  RowsTell(Logged(st, e))
<1>1. PICK ms, new : ms = <<e>> /\ new = Logged(st, e)
  OBVIOUS
<1>2. IsSeq(ms) /\ DOMAIN ms = {1} /\ ms[1] = e
  BY <1>1, SingleSeq
<1>3. PICK S : S = {Len(st.log) + j : j \in {k \in DOMAIN ms :
                                          ms[k].kind \in MessageKind}}
  OBVIOUS
<1>4. S = {}
  BY <1>2, <1>3
<1>5. new = [log |-> Append(st.log, e), surface |-> st.surface, turns |-> st.turns]
  <2>1. st = [log |-> st.log, surface |-> st.surface, turns |-> st.turns]
    BY DEF RowsTell
  <2>2. QED
    BY <1>1, <2>1 DEF Logged
<1>6. Append(st.log, e) = st.log \o ms
  BY <1>1, SoundLog, AppendIs
<1>7. new = [log |-> st.log \o ms, surface |-> st.surface \cup S,
             turns |-> st.turns]
  BY <1>4, <1>5, <1>6
<1>8. Adds(st, ms, new)
  BY <1>2, <1>3, <1>7 DEF Adds, MessageKind
<1>9. RowsTell(new)
  BY <1>8, AddedTells
<1>10. QED
  BY <1>1, <1>9

LEMMA SayTells ==
  ASSUME NEW st, NEW ms, Sound(st), RowsTell(st), IsSeq(ms),
         \A j \in DOMAIN ms : ms[j].kind \in {"user", "assistant", "tool"}
  PROVE  RowsTell(Say(st, ms))
<1>1. PICK new, S : /\ new = Say(st, ms)
                    /\ S = {Len(st.log) + j : j \in {k \in DOMAIN ms :
                                                 ms[k].kind \in MessageKind}}
  OBVIOUS
<1>2. S = {Len(st.log) + j : j \in DOMAIN ms}
  BY <1>1 DEF MessageKind
<1>3. new = [log |-> st.log \o ms, surface |-> st.surface \cup S,
             turns |-> st.turns]
  <2>1. st = [log |-> st.log, surface |-> st.surface, turns |-> st.turns]
    BY DEF RowsTell
  <2>2. new = [st EXCEPT !.log = st.log \o ms, !.surface = st.surface \cup S]
    BY <1>1, <1>2 DEF Say
  <2>3. QED
    BY <2>1, <2>2
<1>4. Adds(st, ms, new)
  BY <1>1, <1>3 DEF Adds
<1>5. RowsTell(new)
  BY <1>4, AddedTells
<1>6. QED
  BY <1>1, <1>5

LEMMA StartTells ==
  ASSUME NEW st, NEW t, t = Len(st.turns) + 1, Sound(st), RowsTell(st)
  PROVE  RowsTell(StartTurn(st, t))
<1>1. PICK e, mid, new : /\ e = Event("turnStart", t, "said", {})
                         /\ mid = Logged(st, e) /\ new = StartTurn(st, t)
  OBVIOUS
<1>2. e.kind = "turnStart" /\ e.turn = t
  BY <1>1 DEF Event
<1>3. RowsTell(mid)
  BY <1>1, <1>2, LoggedTells DEF MessageKind
<1>4. PICK ts, us : ts = st.turns /\ us = Append(ts, "open")
  OBVIOUS
<1>5. Len(ts) \in Nat /\ DOMAIN ts = 1 .. Len(ts) /\ t \notin DOMAIN ts
  BY <1>4, SoundLog
<1>6. new = [mid EXCEPT !.turns = us] /\ mid.turns = ts
  <2>1. DOMAIN st = {"log", "surface", "turns"}
    BY SoundLog
  <2>2. mid.turns = ts
    BY <1>1, <1>4, <2>1 DEF Logged
  <2>3. QED
    BY <1>1, <1>4, <1>5, <2>2 DEF StartTurn
<1>7. /\ new = [log |-> mid.log, surface |-> mid.surface, turns |-> us]
      /\ new.log = mid.log /\ new.surface = mid.surface /\ new.turns = us
  <2>1. mid = [log |-> mid.log, surface |-> mid.surface, turns |-> mid.turns]
    BY <1>3 DEF RowsTell
  <2>2. QED
    BY <1>6, <2>1
<1>8. DOMAIN us = 1 .. t /\ us[t] = "open" /\ \A u \in DOMAIN ts : us[u] = ts[u]
  <2>1. PICK S : S = Reason \cup {"open"}
    OBVIOUS
  <2>2. ts \in Seq(S) /\ "open" \in S
    BY <1>4, <2>1, SoundLog
  <2>3. QED
    BY <1>4, <1>5, <2>2
<1>9. \A i \in DOMAIN mid.log : ~Ends(mid.log, i, t)
  <2>1. PICK log, ms, all : log = st.log /\ ms = <<e>> /\ all = mid.log
    OBVIOUS
  <2>2. DOMAIN ms = {1} /\ ms[1] = e /\ IsSeq(ms)
    BY <2>1, SingleSeq
  <2>3. all = log \o ms
    BY <1>1, <2>1, LoggedGrows DEF Grows
  <2>4. Joined(log, ms, all)
    BY <2>1, <2>2, <2>3, SoundLog, Split
  <2>5. \A i \in DOMAIN log : log[i].turn <= Len(ts) /\ log[i].turn \in Nat
    BY <1>4, <2>1 DEF Sound, RowsSound, LogSound, EventTyped
  <2>6. \A i \in DOMAIN log : log[i].turn # t
    BY <1>4, <1>5, <2>5
  <2>7. QED
    BY <1>2, <2>1, <2>2, <2>4, <2>6 DEF Joined, Ends
<1>10. ASSUME NEW u \in 1 .. t
       PROVE  Tells(mid.log, u, us[u])
  <2>1. CASE u = t
    BY <1>8, <1>9, <2>1 DEF Tells
  <2>2. CASE u # t
    <3>1. u \in DOMAIN ts
      BY <1>4, <1>5, <1>10, <2>2
    <3>2. QED
      BY <1>3, <1>6, <1>8, <3>1 DEF RowsTell
  <2>3. QED
    BY <2>1, <2>2
<1>11. RowsTell(new)
  BY <1>3, <1>7, <1>8, <1>10 DEF RowsTell
<1>12. QED
  BY <1>1, <1>11

LEMMA EndTurnTells ==
  ASSUME NEW st, NEW t, NEW reason \in Reason, Sound(st), RowsTell(st),
         t \in DOMAIN st.turns
  PROVE  RowsTell(EndTurn(st, t, reason))
<1>1. PICK e, new, ms : /\ e = Event("turnEnd", t, reason, {})
                        /\ new = EndTurn(st, t, reason) /\ ms = <<e>>
  OBVIOUS
<1>2. e.kind = "turnEnd" /\ e.turn = t /\ e.text = reason
  BY <1>1 DEF Event
<1>3. IsSeq(ms) /\ DOMAIN ms = {1} /\ ms[1] = e
  BY <1>1, SingleSeq
<1>4. PICK ts, us, log, all : /\ ts = st.turns /\ us = [ts EXCEPT ![t] = reason]
                              /\ log = st.log /\ all = log \o ms
  OBVIOUS
<1>5. /\ new = [log |-> all, surface |-> st.surface, turns |-> us]
      /\ new.log = all /\ new.surface = st.surface /\ new.turns = us
  <2>1. st = [log |-> st.log, surface |-> st.surface, turns |-> st.turns]
    BY DEF RowsTell
  <2>2. Append(log, e) = all
    BY <1>1, <1>4, SoundLog, AppendIs
  <2>3. PICK mid : mid = Logged(st, e)
    OBVIOUS
  <2>4. mid = [log |-> all, surface |-> st.surface, turns |-> ts]
    BY <1>4, <2>1, <2>2, <2>3 DEF Logged
  <2>5. new = [mid EXCEPT !.turns[t] = reason]
    BY <1>1, <2>3 DEF EndTurn
  <2>6. QED
    BY <1>4, <2>4, <2>5
<1>6. Joined(log, ms, all)
  BY <1>3, <1>4, SoundLog, Split
<1>7. st.surface = {i \in DOMAIN all : Shows(all, i)}
  <2>1. \A j \in DOMAIN ms : ms[j].kind # "summary"
    BY <1>2, <1>3
  <2>2. {i \in DOMAIN all : Shows(all, i)} =
          {i \in DOMAIN log : Shows(log, i)} \cup
          {Len(log) + j : j \in {k \in DOMAIN ms : ms[k].kind \in MessageKind}}
    BY <1>6, <2>1, SurfaceTold, Zenon
  <2>3. \A k \in DOMAIN ms : ms[k].kind \notin MessageKind
    BY <1>2, <1>3 DEF MessageKind
  <2>4. {i \in DOMAIN all : Shows(all, i)} = {i \in DOMAIN log : Shows(log, i)}
    BY <2>2, <2>3
  <2>5. QED
    BY <1>4, <2>4 DEF RowsTell
<1>8. DOMAIN us = DOMAIN ts /\ us[t] = reason
      /\ \A u \in DOMAIN ts : u # t => us[u] = ts[u]
  BY <1>4
<1>9. ASSUME NEW u \in DOMAIN ts
      PROVE  Tells(all, u, us[u])
  <2>1. CASE u = t
    <3>1. Ends(ms, 1, t)
      BY <1>2, <1>3 DEF Ends
    <3>2. Tells(all, t, ms[1].text)
      BY <1>3, <1>6, <3>1, TurnEnded
    <3>3. QED
      BY <1>2, <1>3, <1>8, <2>1, <3>2
  <2>2. CASE u # t
    <3>1. PICK status : status = ts[u]
      OBVIOUS
    <3>2. Tells(log, u, status)
      BY <1>4, <3>1 DEF RowsTell
    <3>3. \A j \in DOMAIN ms : ~Ends(ms, j, u)
      BY <1>2, <1>3, <2>2 DEF Ends
    <3>4. Tells(all, u, status)
      BY <1>6, <3>2, <3>3, TurnTold
    <3>5. QED
      BY <1>8, <2>2, <3>1, <3>4
  <2>3. QED
    BY <2>1, <2>2
<1>10. RowsTell(new)
  BY <1>5, <1>7, <1>8, <1>9 DEF RowsTell
<1>11. QED
  BY <1>1, <1>10

(* A summary takes the place of what Summarise takes off the surface.       *)
LEMMA SummariseTells ==
  ASSUME NEW st, NEW e, Sound(st), RowsTell(st), e.kind = "summary"
  PROVE  RowsTell(Summarise(st, e))
<1>1. PICK new, ms, log, all, n :
        /\ new = Summarise(st, e) /\ ms = <<e>> /\ log = st.log
        /\ all = log \o ms /\ n = Len(log)
  OBVIOUS
<1>2. IsSeq(ms) /\ DOMAIN ms = {1} /\ ms[1] = e
  BY <1>1, SingleSeq
<1>3. PICK S : S = {i \in st.surface : ~(i <= e.cutoff \/ log[i].kind = "summary")}
                     \cup {n + 1}
  OBVIOUS
<1>4. /\ new = [log |-> all, surface |-> S, turns |-> st.turns]
      /\ new.log = all /\ new.surface = S /\ new.turns = st.turns
  <2>1. st = [log |-> st.log, surface |-> st.surface, turns |-> st.turns]
    BY DEF RowsTell
  <2>2. Append(log, e) = all
    BY <1>1, SoundLog, AppendIs
  <2>3. PICK mid : mid = Logged(st, e)
    OBVIOUS
  <2>4. mid = [log |-> all, surface |-> st.surface, turns |-> st.turns]
    BY <1>1, <2>1, <2>2, <2>3 DEF Logged
  <2>5. new = [mid EXCEPT !.surface =
                 {i \in @ : ~(i <= e.cutoff \/ log[i].kind = "summary")} \cup {n + 1}]
    BY <1>1, <2>3 DEF Summarise
  <2>6. QED
    BY <1>3, <2>4, <2>5
<1>5. Joined(log, ms, all)
  BY <1>1, <1>2, SoundLog, Split
<1>6. /\ n \in Nat /\ DOMAIN log = 1 .. n
      /\ \A i \in DOMAIN log : i \in DOMAIN all /\ all[i] = log[i]
      /\ n + 1 \in DOMAIN all /\ all[n + 1] = e
      /\ \A i \in DOMAIN all : i \in DOMAIN log \/ i = n + 1
  BY <1>1, <1>2, <1>5 DEF Joined
<1>7. Shows(all, n + 1)
  <2>1. \A j \in DOMAIN all : ~ (n + 1 < j)
    BY <1>6
  <2>2. QED
    BY <1>6, <2>1 DEF Shows, Hides, MessageKind
<1>8. ASSUME NEW i \in DOMAIN log
      PROVE  Shows(all, i) <=>
               Shows(log, i) /\ ~(i <= e.cutoff \/ log[i].kind = "summary")
  <2>1. all[i] = log[i] /\ i < n + 1
    BY <1>6
  <2>2. Hides(all, n + 1, i) <=> i <= e.cutoff \/ log[i].kind = "summary"
    BY <1>6, <2>1 DEF Hides
  <2>3. \A j \in DOMAIN log : Hides(all, j, i) <=> Hides(log, j, i)
    BY <1>6, <2>1 DEF Hides
  <2>4. (\A j \in DOMAIN all : ~Hides(all, j, i)) <=>
          (\A j \in DOMAIN log : ~Hides(log, j, i)) /\ ~Hides(all, n + 1, i)
    BY <1>6, <2>3
  <2>5. QED
    BY <2>1, <2>2, <2>4 DEF Shows
<1>9. S = {i \in DOMAIN all : Shows(all, i)}
  <2>1. st.surface = {i \in DOMAIN log : Shows(log, i)}
    BY <1>1 DEF RowsTell
  <2>2. ASSUME NEW i
        PROVE  i \in S <=> i \in DOMAIN all /\ Shows(all, i)
    BY <1>3, <1>6, <1>7, <1>8, <2>1
  <2>3. QED
    BY <2>2
<1>10. ASSUME NEW t \in DOMAIN st.turns
       PROVE  Tells(all, t, new.turns[t])
  <2>1. PICK status : status = st.turns[t]
    OBVIOUS
  <2>2. Tells(log, t, status)
    BY <1>1, <2>1 DEF RowsTell
  <2>3. \A j \in DOMAIN ms : ~Ends(ms, j, t)
    BY <1>2 DEF Ends
  <2>4. QED
    BY <1>4, <1>5, <2>1, <2>2, <2>3, TurnTold
<1>11. RowsTell(new)
  BY <1>4, <1>9, <1>10 DEF RowsTell
<1>12. QED
  BY <1>1, <1>11

LEMMA RepairedTells ==
  ASSUME NEW st, Sound(st), RowsTell(st), SteeringsApart
  PROVE  RowsTell(Repaired(st))
<1>1. PICK t : t = Len(st.turns)
  OBVIOUS
<1>2. t \in Nat /\ DOMAIN st.turns = 1 .. t
  BY <1>1, SoundLog
<1>3. CASE t = 0 \/ st.turns[t] # "open"
  BY <1>1, <1>3 DEF Repaired
<1>4. CASE t # 0 /\ st.turns[t] = "open"
  <2>1. PICK calls : calls = Unanswered(st, t)
    OBVIOUS
  <2>2. PICK ms, said, new, reason :
          /\ ms = ResultsFor(t, calls) /\ said = Say(st, ms)
          /\ reason = "interrupted" /\ new = EndTurn(said, t, reason)
    OBVIOUS
  <2>3. Repaired(st) = new
    BY <1>1, <1>4, <2>1, <2>2 DEF Repaired
  <2>4. t \in DOMAIN st.turns /\ reason \in Reason
    BY <1>2, <1>4, <2>2 DEF Reason
  <2>5. IsFiniteSet(calls)
    BY <2>1, <2>4, UnansweredFinite
  <2>6. IsSeq(ms) /\ \A i \in DOMAIN ms : \E c \in calls : ms[i] = ToolResult(t, c)
    BY <2>2, <2>5, ResultsAre
  <2>7. \A i \in DOMAIN ms : ms[i].kind \in {"user", "assistant", "tool"}
    BY <2>6 DEF ToolResult, Event
  <2>8. RowsTell(said)
    BY <2>2, <2>6, <2>7, SayTells
  <2>9. Fits(st, ms)
    BY <2>1, <2>2, <2>4, ResultsFit
  <2>10. Grows(st, ms, said) /\ said.turns = st.turns
    BY <2>2, <2>6, SayGrows
  <2>11. Sound(said)
    BY <2>9, <2>10, Grown
  <2>12. t \in DOMAIN said.turns
    BY <2>4, <2>10
  <2>13. RowsTell(new)
    BY <2>2, <2>4, <2>8, <2>11, <2>12, EndTurnTells
  <2>14. QED
    BY <2>3, <2>13
<1>5. QED
  BY <1>3, <1>4

LEMMA EmptyTells == RowsTell(EmptyStore)
<1>1. PICK st, none : st = EmptyStore /\ none = <<>>
  OBVIOUS
<1>2. /\ st = [log |-> none, surface |-> {}, turns |-> none]
      /\ st.log = none /\ st.surface = {} /\ st.turns = none
  BY <1>1 DEF EmptyStore
<1>3. DOMAIN none = {}
  BY <1>1, EmptyIsSeq
<1>4. RowsTell(st)
  BY <1>2, <1>3 DEF RowsTell
<1>5. QED
  BY <1>1, <1>4

LEMMA ForkedTells ==
  ASSUME NEW st, Sound(st), NEW at \in DOMAIN st.log
  PROVE  RowsTell(Forked(st, at))
<1>1. PICK log, n : log = st.log /\ n = at - 1
  OBVIOUS
<1>2. n \in Nat /\ n + 1 \in DOMAIN log
  BY <1>1, SoundLog
<1>3. PICK part : part = SubSeq(log, 1, n)
  OBVIOUS
<1>4. Forked(st, at) = Projected(part)
  BY <1>1, <1>3, Zenon DEF Forked
<1>5. LogSound(log)
  BY <1>1 DEF Sound
<1>6. LogSound(part)
  BY <1>2, <1>3, <1>5, PrefixSound, Zenon
<1>7. QED
  BY <1>4, <1>6, ProjectedTells

-----------------------------------------------------------------------------
(* Every step that writes to a store.                                       *)

LEMMA OneStoreTells ==
  ASSUME SettledInv, RowsInv, NEW s \in Sessions, NEW new,
         store' = [store EXCEPT ![s] = new], RowsTell(new)
  PROVE  RowsInv'
<1>1. /\ store'[s] = new
      /\ \A o \in Sessions \ {s} : store'[o] = store[o]
  BY DEF SettledInv, Shapes
<1>2. ASSUME NEW o \in Sessions
      PROVE  RowsTell(store'[o])
  <2>1. PICK st : st = store'[o]
    OBVIOUS
  <2>2. RowsTell(st)
    <3>1. CASE o = s
      BY <1>1, <2>1, <3>1
    <3>2. CASE o # s
      BY <1>1, <2>1, <3>2 DEF RowsInv
    <3>3. QED
      BY <3>1, <3>2
  <2>3. QED
    BY <2>1, <2>2
<1>3. QED
  BY <1>2 DEF RowsInv

LEMMA SameStoreTells ==
  ASSUME RowsInv, UNCHANGED store
  PROVE  RowsInv'
BY DEF RowsInv

(* What a step settles is what its run has said since the mark.             *)
Settles(r, s, ms) ==
  /\ s \in Sessions /\ s = run[r].session
  /\ store' = [store EXCEPT ![s] = Say(store[s], ms)]
  /\ IsSeq(ms)
  /\ \A j \in DOMAIN ms : \E i \in DOMAIN run'[r].fresh :
       ms[j] = run'[r].fresh[i]

LEMMA SettleSays ==
  ASSUME SettledInv, SettledInv', NEW r \in Runs, IsOpen(run[r]),
         NEW more, NEW at, NEW outcome, Settle(r, more, at, outcome)
  PROVE  \E s, ms : Settles(r, s, ms)
<1>1. PICK s, st, old, ms, new, after :
        /\ s = run[r].session /\ st = store[s] /\ old = run[r]
        /\ ms = Unsettled(r, more) /\ new = Say(st, ms) /\ after = run'[r]
  OBVIOUS
<1>2. PICK g : g = old.fresh \o more
  OBVIOUS
<1>3. s \in Sessions /\ RunTyped(r, old)
  BY <1>1, OpenRun
<1>4. RunTyped(r, after) /\ DOMAIN run = Runs
  BY <1>1 DEF SettledInv, Shapes, RunsInv
<1>5. after.fresh = g /\ after.mark = old.mark
  <2>1. run' = [run EXCEPT ![r].at = at, ![r].outcome = outcome,
                           ![r].fresh = @ \o more, ![r].todo = <<>>]
    BY DEF Settle
  <2>2. DOMAIN old = DOMAIN IdleRun
    BY <1>3 DEF RunTyped
  <2>3. {"at", "outcome", "fresh", "mark", "todo"} \subseteq DOMAIN old
    BY <2>2 DEF IdleRun
  <2>4. after = [old EXCEPT !.at = at, !.outcome = outcome,
                            !.fresh = @ \o more, !.todo = <<>>]
    BY <1>1, <1>4, <2>1
  <2>5. QED
    BY <1>2, <2>3, <2>4
<1>6. IsSeq(g) /\ old.mark \in 0 .. Len(g)
  BY <1>4, <1>5 DEF RunTyped
<1>7. PICK k : k = old.mark
  OBVIOUS
<1>8. ms = Tail2(g, k)
  BY <1>1, <1>2, <1>7 DEF Unsettled, Tail2
<1>9. /\ IsSeq(ms) /\ DOMAIN ms = 1 .. Len(g) - k
      /\ \A i \in 1 .. Len(g) - k : ms[i] = g[k + i]
  BY <1>6, <1>7, <1>8, Tail2Is
<1>10. \A j \in DOMAIN ms : k + j \in DOMAIN g /\ ms[j] = g[k + j]
  <2>1. Len(g) \in Nat /\ DOMAIN g = 1 .. Len(g)
    BY <1>6, SeqFacts
  <2>2. \A j \in 1 .. Len(g) - k : k + j \in DOMAIN g
    BY <1>6, <1>7, <2>1
  <2>3. QED
    BY <1>9, <2>2
<1>11. \A j \in DOMAIN ms : \E i \in DOMAIN run'[r].fresh :
         ms[j] = run'[r].fresh[i]
  BY <1>1, <1>5, <1>10
<1>12. store' = [store EXCEPT ![s] = Say(store[s], ms)]
  BY <1>1 DEF Settle, Write, Own
<1>13. QED
  <2>1. Settles(r, s, ms)
    BY <1>1, <1>3, <1>9, <1>11, <1>12 DEF Settles
  <2>2. QED
    BY <1>3, <2>1

LEMMA SettleTells ==
  ASSUME SettledInv, SettledInv', RowsInv, NEW r \in Runs, IsOpen(run[r]),
         NEW more, NEW at, NEW outcome, Settle(r, more, at, outcome)
  PROVE  RowsInv'
<1>1. PICK s, ms : Settles(r, s, ms) /\ s \in Sessions
  BY SettleSays DEF Settles
<1>2. PICK st, new, after : /\ st = store[s] /\ new = Say(st, ms)
                            /\ after = run'[r]
  OBVIOUS
<1>3. Sound(st) /\ RowsTell(st)
  BY <1>1, <1>2 DEF SettledInv, LogsInv, RowsInv
<1>4. RunTyped(r, after)
  BY <1>2 DEF SettledInv, RunsInv
<1>5. /\ IsSeq(ms) /\ store' = [store EXCEPT ![s] = new]
      /\ \A j \in DOMAIN ms : \E i \in DOMAIN after.fresh :
           ms[j] = after.fresh[i]
  BY <1>1, <1>2 DEF Settles
<1>6. \A j \in DOMAIN ms : ms[j].kind \in {"user", "assistant", "tool"}
  BY <1>4, <1>5 DEF RunTyped
<1>7. RowsTell(new)
  BY <1>2, <1>3, <1>5, <1>6, SayTells
<1>8. QED
  BY <1>1, <1>5, <1>7, OneStoreTells

(* The events around a step.                                                *)
LEMMA MarkTells ==
  ASSUME SettledInv, RowsInv, NEW r \in Runs, IsOpen(run[r]),
         \/ Write(r, StartStep(Own(r), Turn(r)))
         \/ Write(r, EndStep(Own(r), Turn(r)))
  PROVE  RowsInv'
<1>1. PICK s, st, t : s = run[r].session /\ st = store[s] /\ t = run[r].turn
  OBVIOUS
<1>2. s \in Sessions /\ Sound(st) /\ RowsTell(st)
  BY <1>1, OpenRun DEF RowsInv
<1>3. PICK kind \in {"stepStart", "stepEnd"} :
        store' = [store EXCEPT ![s] = Logged(st, Event(kind, t, "said", {}))]
  BY <1>1 DEF Write, StartStep, EndStep, Own, Turn
<1>4. PICK e, new : e = Event(kind, t, "said", {}) /\ new = Logged(st, e)
  OBVIOUS
<1>5. e.kind \notin MessageKind \cup {"turnEnd"}
  BY <1>4 DEF Event, MessageKind
<1>6. RowsTell(new)
  BY <1>2, <1>4, <1>5, LoggedTells
<1>7. QED
  BY <1>2, <1>3, <1>4, <1>6, OneStoreTells

LEMMA CompactTells ==
  ASSUME SettledInv, RowsInv, NEW r \in Runs, Compact(r)
  PROVE  RowsInv'
<1>1. PICK s, st, t : s = run[r].session /\ st = store[s] /\ t = run[r].turn
  OBVIOUS
<1>2. IsOpen(run[r])
  BY DEF Compact, IsOpen
<1>3. s \in Sessions /\ Sound(st) /\ RowsTell(st)
  BY <1>1, <1>2, OpenRun DEF RowsInv
<1>4. CASE UNCHANGED store
  BY <1>4, SameStoreTells
<1>5. ASSUME NEW cutoff, NEW covers,
             Write(r, Summarise(Own(r), Summary(Turn(r), cutoff, covers)))
      PROVE  RowsInv'
  <2>1. PICK e, new : e = Summary(t, cutoff, covers) /\ new = Summarise(st, e)
    OBVIOUS
  <2>2. e.kind = "summary"
    BY <2>1 DEF Summary, Event
  <2>3. RowsTell(new)
    BY <1>3, <2>1, <2>2, SummariseTells
  <2>4. store' = [store EXCEPT ![s] = new]
    BY <1>1, <1>5, <2>1 DEF Write, Own, Turn
  <2>5. QED
    BY <1>3, <2>3, <2>4, OneStoreTells
<1>6. \/ UNCHANGED store
      \/ \E cutoff, covers :
           Write(r, Summarise(Own(r), Summary(Turn(r), cutoff, covers)))
  BY DEF Compact
<1>7. QED
  BY <1>4, <1>5, <1>6

LEMMA CloseTurnTells ==
  ASSUME SettledInv, RowsInv, NEW r \in Runs, CloseTurn(r)
  PROVE  RowsInv'
<1>1. PICK old, s, st, t, reason :
        /\ old = run[r] /\ s = old.session /\ st = store[s] /\ t = old.turn
        /\ reason = IF old.outcome = "ok" THEN "complete" ELSE old.outcome
  OBVIOUS
<1>2. old.at = "closed" /\ IsOpen(old)
  BY <1>1 DEF CloseTurn, IsOpen
<1>3. /\ s \in Sessions /\ Sound(st) /\ RunLogged(old, st) /\ RunTyped(r, old)
      /\ RowsTell(st)
  BY <1>1, <1>2, OpenRun DEF RowsInv
<1>4. reason \in Reason /\ t \in DOMAIN st.turns
  BY <1>1, <1>2, <1>3 DEF RunTyped, RunLogged, Reason
<1>5. PICK new : new = EndTurn(st, t, reason)
  OBVIOUS
<1>6. RowsTell(new)
  BY <1>3, <1>4, <1>5, EndTurnTells
<1>7. store' = [store EXCEPT ![s] = new]
  BY <1>1, <1>5 DEF CloseTurn, Write, Own, Turn
<1>8. QED
  BY <1>3, <1>6, <1>7, OneStoreTells

(* A turn that is opened in a session, repaired first.                      *)
LEMMA OpenedTells ==
  ASSUME SteeringsApart, NEW st, Sound(st), RowsTell(st),
         NEW mid, mid = Repaired(st), NEW t, t = Len(mid.turns) + 1,
         NEW open, open = StartTurn(mid, t)
  PROVE  /\ Sound(open) /\ RowsTell(open)
         /\ RowsTell(Say(open, <<User(t, "prompt")>>))
<1>1. Sound(mid) /\ RowsTell(mid)
  BY RepairedSound, RepairedTells
<1>2. RowsTell(open)
  BY <1>1, StartTells
<1>3. Sound(open)
  BY OpenedSound DEF HasOpened
<1>4. PICK e, ms : e = User(t, "prompt") /\ ms = <<e>>
  OBVIOUS
<1>5. IsSeq(ms) /\ DOMAIN ms = {1} /\ ms[1] = e
  BY <1>4, SingleSeq
<1>6. e.kind = "user"
  BY <1>4 DEF User, Event
<1>7. RowsTell(Say(open, ms))
  BY <1>2, <1>3, <1>5, <1>6, SayTells
<1>8. QED
  BY <1>2, <1>3, <1>4, <1>7

LEMMA OpenTurnTells ==
  ASSUME SteeringsApart, SettledInv, RowsInv, NEW r \in Runs,
         NEW say \in BOOLEAN, OpenTurn(r, say)
  PROVE  RowsInv'
<1>1. PICK s \in Sessions : Opened(r, s, Repaired(store[s]), say)
  BY DEF OpenTurn
<1>2. PICK st, mid, t, open, new :
        /\ st = store[s] /\ mid = Repaired(st) /\ t = Len(mid.turns) + 1
        /\ open = StartTurn(mid, t)
        /\ new = IF say THEN Say(open, <<User(t, "prompt")>>) ELSE open
  OBVIOUS
<1>3. store' = [store EXCEPT ![s] = new]
  <2>1. Opened(r, s, mid, say)
    BY <1>1, <1>2
  <2>2. CASE say
    BY <1>2, <2>1, <2>2 DEF Opened
  <2>3. CASE ~say
    BY <1>2, <2>1, <2>3 DEF Opened
  <2>4. QED
    BY <2>2, <2>3
<1>4. Sound(st) /\ RowsTell(st)
  BY <1>2 DEF SettledInv, LogsInv, RowsInv
<1>5. RowsTell(open) /\ RowsTell(Say(open, <<User(t, "prompt")>>))
  BY <1>2, <1>4, OpenedTells
<1>6. RowsTell(new)
  BY <1>2, <1>5
<1>7. QED
  BY <1>3, <1>6, OneStoreTells

LEMMA OpenFailsTells ==
  ASSUME SteeringsApart, SettledInv, RowsInv, NEW r \in Runs,
         NEW said \in BOOLEAN, OpenFails(r, said)
  PROVE  RowsInv'
<1>1. PICK s \in Sessions :
        store' = [store EXCEPT ![s] =
          LET t == Len(Repaired(store[s]).turns) + 1
              opening == StartTurn(Repaired(store[s]), t)
          IN  IF said THEN Say(opening, <<User(t, "prompt")>>) ELSE opening]
  BY DEF OpenFails
<1>2. PICK st, mid, t, open, new :
        /\ st = store[s] /\ mid = Repaired(st) /\ t = Len(mid.turns) + 1
        /\ open = StartTurn(mid, t)
        /\ new = IF said THEN Say(open, <<User(t, "prompt")>>) ELSE open
  OBVIOUS
<1>3. store' = [store EXCEPT ![s] = new]
  BY <1>1, <1>2
<1>4. Sound(st) /\ RowsTell(st)
  BY <1>2 DEF SettledInv, LogsInv, RowsInv
<1>5. RowsTell(open) /\ RowsTell(Say(open, <<User(t, "prompt")>>))
  BY <1>2, <1>4, OpenedTells
<1>6. RowsTell(new)
  BY <1>2, <1>5
<1>7. QED
  BY <1>3, <1>6, OneStoreTells

LEMMA CrashWhileOpeningTells ==
  ASSUME SteeringsApart, SettledInv, RowsInv, NEW r \in Runs,
         CrashWhileOpening(r)
  PROVE  RowsInv'
<1>1. PICK s \in Sessions :
        store' = [store EXCEPT ![s] =
          StartTurn(Repaired(store[s]), Len(Repaired(store[s]).turns) + 1)]
  BY DEF CrashWhileOpening
<1>2. PICK st, mid, t, open :
        /\ st = store[s] /\ mid = Repaired(st) /\ t = Len(mid.turns) + 1
        /\ open = StartTurn(mid, t)
  OBVIOUS
<1>3. Sound(st) /\ RowsTell(st)
  BY <1>2 DEF SettledInv, LogsInv, RowsInv
<1>4. RowsTell(open)
  BY <1>2, <1>3, OpenedTells
<1>5. QED
  BY <1>1, <1>2, <1>4, OneStoreTells

LEMMA ViewTells ==
  ASSUME SteeringsApart, SettledInv, RowsInv, NEW s \in Sessions, View(s)
  PROVE  RowsInv'
<1>1. PICK st, new : st = store[s] /\ new = Repaired(st)
  OBVIOUS
<1>2. Sound(st) /\ RowsTell(st)
  BY <1>1 DEF SettledInv, LogsInv, RowsInv
<1>3. RowsTell(new)
  BY <1>1, <1>2, RepairedTells
<1>4. store' = [store EXCEPT ![s] = new]
  BY <1>1 DEF View, SettledInv, Shapes
<1>5. QED
  BY <1>3, <1>4, OneStoreTells

LEMMA ForkTells ==
  ASSUME SteeringsApart, SettledInv, RowsInv, NEW s \in Sessions,
         NEW new \in Sessions, NEW at \in DOMAIN store[s].log, Fork(s, at, new)
  PROVE  RowsInv'
<1>1. PICK st, mid, copy : /\ st = store[s] /\ mid = Forked(st, at)
                           /\ copy = Repaired(mid)
  OBVIOUS
<1>2. Sound(st) /\ at \in DOMAIN st.log
  BY <1>1 DEF SettledInv, LogsInv
<1>3. Sound(mid) /\ RowsTell(mid)
  BY <1>1, <1>2, ForkedSound, ForkedTells
<1>4. RowsTell(copy)
  BY <1>1, <1>3, RepairedTells
<1>5. store' = [store EXCEPT ![new] = copy]
  BY <1>1 DEF Fork
<1>6. QED
  BY <1>4, <1>5, OneStoreTells

LEMMA InitTells ==
  ASSUME EarlierSound, Init
  PROVE  RowsInv
<1>1. PICK log \in Earlier :
        store = [s \in Sessions |-> IF s = First THEN Projected(log)
                                                 ELSE EmptyStore]
  BY DEF Init
<1>2. RowsTell(Projected(log))
  BY ProjectedTells DEF EarlierSound
<1>3. ASSUME NEW s \in Sessions
      PROVE  RowsTell(store[s])
  <2>1. store[s] = Projected(log) \/ store[s] = EmptyStore
    BY <1>1
  <2>2. PICK st : st = store[s]
    OBVIOUS
  <2>3. RowsTell(st)
    BY <1>2, <2>1, <2>2, EmptyTells
  <2>4. QED
    BY <2>2, <2>3
<1>4. QED
  BY <1>3 DEF RowsInv

(* What a step of the agent's loop does to the store.                       *)
LEMMA LoopWrites ==
  ASSUME NEW r \in Runs, Loop(r)
  PROVE  \/ UNCHANGED store
         \/ Compact(r)
         \/ IsOpen(run[r]) /\ Write(r, StartStep(Own(r), Turn(r)))
         \/ IsOpen(run[r]) /\ Write(r, EndStep(Own(r), Turn(r)))
         \/ /\ IsOpen(run[r])
            /\ \E more, at, outcome : Settle(r, more, at, outcome)
<1>1. CASE NoticeStop(r) \/ Ask(r) \/ GiveUp(r)
  BY <1>1 DEF NoticeStop, Ask, GiveUp
<1>2. CASE BeginStep(r)
  BY <1>2 DEF BeginStep, IsOpen
<1>3. CASE LeaveStep(r)
  BY <1>3 DEF LeaveStep, IsOpen
<1>4. CASE Conclude(r)
  BY <1>4 DEF Conclude, IsOpen
<1>5. CASE StepFails(r)
  BY <1>5 DEF StepFails, IsOpen
<1>6. ASSUME NEW n, NEW text, ReplyInterrupted(r, n, text)
      PROVE  IsOpen(run[r]) /\ \E more, at, outcome : Settle(r, more, at, outcome)
  BY <1>6 DEF ReplyInterrupted, IsOpen
<1>7. ASSUME NEW n, ReplyCut(r, n)
      PROVE  IsOpen(run[r]) /\ \E more, at, outcome : Settle(r, more, at, outcome)
  BY <1>7 DEF ReplyCut, IsOpen
<1>8. ASSUME NEW n, ReplyCalls(r, n)
      PROVE  UNCHANGED store
  BY <1>8 DEF ReplyCalls
<1>9. ASSUME NEW text, ReplyAnswer(r, text)
      PROVE  IsOpen(run[r]) /\ \E more, at, outcome : Settle(r, more, at, outcome)
  BY <1>9 DEF ReplyAnswer, IsOpen
<1>10. ASSUME NEW n, RunTools(r, n)
       PROVE  UNCHANGED store
  BY <1>10 DEF RunTools
<1>11. CASE ToolsStopped(r) \/ ToolsDone(r)
  BY <1>11 DEF ToolsStopped, ToolsDone, IsOpen
<1>12. QED
  BY <1>1, <1>2, <1>3, <1>4, <1>5, <1>6, <1>7, <1>8, <1>9, <1>10, <1>11
  DEF Loop

LEMMA LoopTells ==
  ASSUME SettledInv, SettledInv', RowsInv, NEW r \in Runs, Loop(r)
  PROVE  RowsInv'
<1>1. CASE UNCHANGED store
  BY <1>1, SameStoreTells
<1>2. CASE Compact(r)
  BY <1>2, CompactTells
<1>3. CASE IsOpen(run[r]) /\ Write(r, StartStep(Own(r), Turn(r)))
  BY <1>3, MarkTells
<1>4. CASE IsOpen(run[r]) /\ Write(r, EndStep(Own(r), Turn(r)))
  BY <1>4, MarkTells
<1>5. ASSUME IsOpen(run[r]), NEW more, NEW at, NEW outcome,
             Settle(r, more, at, outcome)
      PROVE  RowsInv'
  BY <1>5, SettleTells
<1>6. QED
  BY <1>1, <1>2, <1>3, <1>4, <1>5, LoopWrites

LEMMA NextTells ==
  ASSUME SteeringsApart, SettledInv, SettledInv', RowsInv, [Next]_vars
  PROVE  RowsInv'
<1>1. ASSUME NEW r \in Runs, Chat(r)
      PROVE  RowsInv'
  <2>1. CASE BeginFails(r) \/ CloseInbox(r)
    BY <2>1, SameStoreTells DEF BeginFails, CloseInbox
  <2>2. ASSUME NEW say \in BOOLEAN, OpenTurn(r, say)
        PROVE  RowsInv'
    BY <2>2, OpenTurnTells
  <2>3. ASSUME NEW said \in BOOLEAN, OpenFails(r, said)
        PROVE  RowsInv'
    BY <2>3, OpenFailsTells
  <2>4. CASE Loop(r)
    BY <2>4, LoopTells
  <2>5. CASE CloseTurn(r)
    BY <2>5, CloseTurnTells
  <2>6. QED
    BY <1>1, <2>1, <2>2, <2>3, <2>4, <2>5 DEF Chat
<1>2. ASSUME NEW r \in Runs, CrashWhileOpening(r)
      PROVE  RowsInv'
  BY <1>2, CrashWhileOpeningTells
<1>3. ASSUME NEW s \in Sessions, View(s)
      PROVE  RowsInv'
  BY <1>3, ViewTells
<1>4. ASSUME NEW s \in Sessions, NEW new \in Sessions,
             NEW at \in DOMAIN store[s].log, Fork(s, at, new)
      PROVE  RowsInv'
  BY <1>4, ForkTells
<1>5. CASE \/ \E r \in Runs : Stop(r)
           \/ \E r \in Runs, s \in Sessions \cup {NoSession} : Begin(r, s)
           \/ \E m \in Steerings :
                SteerPushes(m) \/ \E r \in Runs : SteerFinds(m, r)
           \/ Crash \/ UNCHANGED vars
  BY <1>5, SameStoreTells
  DEF Stop, Begin, SteerPushes, SteerFinds, Crash, vars
<1>6. QED
  BY <1>1, <1>2, <1>3, <1>4, <1>5 DEF Next

(* projections::apply, in the transaction that appends the event: whatever  *)
(* the appends are (messages, summaries in any order and with any cutoff,   *)
(* turns that open and end, repairs, copies of a log into a fork), the rows *)
(* of every session are those that rebuilding from its log would make.      *)
THEOREM RowsAreTheLog ==
  ASSUME EarlierSound, SteeringsApart
  PROVE  Spec => []ProjectionsMatchLog
<1>1. Init => SettledInv /\ RowsInv
  BY InitSettled, InitTells
<1>2. SettledInv /\ RowsInv /\ [Next]_vars => SettledInv' /\ RowsInv'
  BY NextSettled, NextTells
<1>3. SettledInv /\ RowsInv => ProjectionsMatchLog
  <2>1. SUFFICES ASSUME SettledInv, RowsInv, NEW s \in sessions
        PROVE  store[s] = Projected(store[s].log)
    BY DEF ProjectionsMatchLog
  <2>2. PICK st : st = store[s]
    OBVIOUS
  <2>3. Sound(st) /\ RowsTell(st)
    BY <2>1, <2>2 DEF SettledInv, Shapes, LogsInv, RowsInv
  <2>4. st = Projected(st.log)
    BY <2>3, RowsMatch
  <2>5. QED
    BY <2>2, <2>4
<1>4. QED
  BY <1>1, <1>2, <1>3, PTL DEF Spec

-----------------------------------------------------------------------------
(* Logs that have forgotten nothing, as they grow.                          *)

(* What is appended besides summaries.                                      *)
Extended(log, all) ==
  /\ Len(log) \in Nat /\ Len(all) \in Nat /\ Len(log) <= Len(all)
  /\ DOMAIN log = 1 .. Len(log) /\ DOMAIN all = 1 .. Len(all)
  /\ \A i \in DOMAIN log : all[i] = log[i]
  /\ \A i \in DOMAIN all \ DOMAIN log :
       all[i].kind # "summary" /\ ~IsBlank(all[i])

LEMMA ExtendedBy ==
  ASSUME NEW log, NEW ms, NEW all, IsSeq(log), IsSeq(ms), all = log \o ms,
         \A j \in DOMAIN ms : ms[j].kind # "summary" /\ ~IsBlank(ms[j])
  PROVE  Extended(log, all)
<1>1. /\ IsSeq(all) /\ Len(all) = Len(log) + Len(ms)
      /\ Len(log) \in Nat /\ Len(ms) \in Nat
      /\ DOMAIN log = 1 .. Len(log) /\ DOMAIN ms = 1 .. Len(ms)
      /\ DOMAIN all = 1 .. Len(log) + Len(ms)
  BY ConcatSeq
<1>2. Joined(log, ms, all)
  BY Split
<1>3. Len(log) <= Len(all) /\ Len(all) \in Nat /\ DOMAIN all = 1 .. Len(all)
  BY <1>1
<1>4. \A i \in DOMAIN all \ DOMAIN log :
        all[i].kind # "summary" /\ ~IsBlank(all[i])
  BY <1>2 DEF Joined
<1>5. \A i \in DOMAIN log : all[i] = log[i]
  BY <1>2 DEF Joined
<1>6. QED
  BY <1>1, <1>3, <1>4, <1>5 DEF Extended

LEMMA ExtendedByNothing ==
  ASSUME NEW log, IsSeq(log)
  PROVE  Extended(log, log)
<1>1. Len(log) \in Nat /\ DOMAIN log = 1 .. Len(log)
  BY SeqFacts
<1>2. QED
  BY <1>1 DEF Extended

LEMMA ExtendedTwice ==
  ASSUME NEW log, NEW mid, NEW all, Extended(log, mid), Extended(mid, all)
  PROVE  Extended(log, all)
<1>1. DOMAIN log \subseteq DOMAIN mid /\ DOMAIN mid \subseteq DOMAIN all
  BY DEF Extended
<1>2. Len(log) <= Len(all)
  BY DEF Extended
<1>3. \A i \in DOMAIN log : all[i] = log[i]
  BY <1>1 DEF Extended
<1>4. \A i \in DOMAIN all \ DOMAIN log :
        all[i].kind # "summary" /\ ~IsBlank(all[i])
  <2>1. ASSUME NEW i \in DOMAIN all \ DOMAIN log
        PROVE  all[i].kind # "summary" /\ ~IsBlank(all[i])
    <3>1. CASE i \in DOMAIN mid
      <4>1. all[i] = mid[i] /\ mid[i].kind # "summary" /\ ~IsBlank(mid[i])
        BY <2>1, <3>1 DEF Extended
      <4>2. QED
        BY <4>1
    <3>2. CASE i \notin DOMAIN mid
      BY <2>1, <3>2 DEF Extended
    <3>3. QED
      BY <3>1, <3>2
  <2>2. QED
    BY <2>1
<1>5. QED
  BY <1>2, <1>3, <1>4 DEF Extended

LEMMA ShownStill ==
  ASSUME NEW log, NEW all, Extended(log, all),
         NEW n \in Len(log) .. Len(all), NEW i \in DOMAIN log
  PROVE  ShownAt(all, n, i) <=> ShownAt(log, Len(log), i)
<1>1. PICK m : m = Len(log)
  OBVIOUS
<1>2. /\ m \in Nat /\ n \in Nat /\ m <= n /\ n <= Len(all) /\ Len(all) \in Nat
      /\ DOMAIN log = 1 .. m /\ DOMAIN all = 1 .. Len(all)
      /\ \A j \in 1 .. m : all[j] = log[j]
  BY <1>1 DEF Extended
<1>3. \A j \in 1 .. n : j \notin 1 .. m => all[j].kind # "summary"
  BY <1>2 DEF Extended
<1>4. all[i] = log[i]
  BY <1>2
<1>5. \A j \in 1 .. m : Hides(all, j, i) <=> Hides(log, j, i)
  BY <1>2, <1>4 DEF Hides
<1>6. \A j \in 1 .. n : Hides(all, j, i) => j \in 1 .. m
  BY <1>3 DEF Hides
<1>7. \A j \in 1 .. m : j \in 1 .. n
  BY <1>2
<1>8. QED
  BY <1>1, <1>4, <1>5, <1>6, <1>7 DEF ShownAt

LEMMA ShowsIs ==
  ASSUME NEW log, DOMAIN log = 1 .. Len(log), NEW i
  PROVE  Shows(log, i) <=> ShownAt(log, Len(log), i)
BY DEF Shows, ShownAt

(* Up to a point both logs have, they are alike.                            *)
LEMMA KeptBefore ==
  ASSUME NEW log, NEW all, NEW n \in Nat, \A i \in 1 .. n : all[i] = log[i],
         KeptAt(log, n)
  PROVE  KeptAt(all, n)
<1>1. \A i, j \in 1 .. n : Hides(all, j, i) <=> Hides(log, j, i)
  BY DEF Hides
<1>2. \A i \in 1 .. n : ShownAt(all, n, i) <=> ShownAt(log, n, i)
  BY <1>1 DEF ShownAt
<1>3. QED
  BY <1>2 DEF KeptAt

LEMMA KeptExtended ==
  ASSUME NEW log, NEW all, Extended(log, all), LogKept(log)
  PROVE  LogKept(all)
<1>1. PICK m, l : m = Len(log) /\ l = Len(all)
  OBVIOUS
<1>2. /\ m \in Nat /\ l \in Nat /\ m <= l
      /\ DOMAIN log = 1 .. m /\ DOMAIN all = 1 .. l
      /\ \A i \in 1 .. m : all[i] = log[i]
      /\ \A i \in 1 .. l : i \notin 1 .. m =>
           all[i].kind # "summary" /\ ~IsBlank(all[i])
  BY <1>1 DEF Extended
<1>3. NoBlanks(all)
  BY <1>2 DEF NoBlanks, LogKept
<1>4. ASSUME NEW n \in 0 .. l
      PROVE  KeptAt(all, n)
  <2>1. CASE n <= m
    <3>1. n \in Nat /\ n \in 0 .. m /\ \A i \in 1 .. n : i \in 1 .. m
      BY <1>2, <2>1
    <3>2. KeptAt(log, n)
      BY <1>1, <3>1 DEF LogKept
    <3>3. \A i \in 1 .. n : all[i] = log[i]
      BY <1>2, <3>1
    <3>4. QED
      BY <3>1, <3>2, <3>3, KeptBefore
  <2>2. CASE ~(n <= m)
    <3>1. n \in Nat /\ n \in m .. l /\ \A i \in 1 .. m : i \in 1 .. n
      BY <1>2, <2>2
    <3>2. ASSUME NEW i \in 1 .. n, all[i].kind \in MessageKind \ {"summary"}
          PROVE  \E j \in 1 .. n :
                   /\ ShownAt(all, n, j)
                   /\ j = i \/ (all[j].kind = "summary" /\ i \in all[j].covers)
      <4>1. CASE i \in 1 .. m
        <5>1. KeptAt(log, m)
          BY <1>1, <1>2 DEF LogKept
        <5>2. log[i].kind \in MessageKind \ {"summary"}
          BY <1>2, <3>2, <4>1
        <5>3. PICK j \in 1 .. m :
                /\ ShownAt(log, m, j)
                /\ j = i \/ (log[j].kind = "summary" /\ i \in log[j].covers)
          BY <4>1, <5>1, <5>2 DEF KeptAt
        <5>4. ShownAt(all, n, j)
          BY <1>1, <1>2, <3>1, <5>3, ShownStill
        <5>5. QED
          BY <1>2, <3>1, <5>3, <5>4
      <4>2. CASE i \notin 1 .. m
        <5>1. \A j \in 1 .. n : Hides(all, j, i) => j \in 1 .. m
          BY <1>2, <3>1 DEF Hides
        <5>2. \A j \in 1 .. m : ~(i < j)
          BY <1>2, <3>1, <4>2
        <5>3. ShownAt(all, n, i)
          BY <3>2, <5>1, <5>2 DEF ShownAt, Hides
        <5>4. QED
          BY <5>3
      <4>3. QED
        BY <4>1, <4>2
    <3>3. QED
      BY <3>2 DEF KeptAt
  <2>3. QED
    BY <2>1, <2>2
<1>5. QED
  BY <1>1, <1>3, <1>4 DEF LogKept

LEMMA KeptPrefix ==
  ASSUME NEW log, LogKept(log), NEW n \in Nat, n <= Len(log), Len(log) \in Nat,
         NEW part, Len(part) = n, DOMAIN part = 1 .. n,
         \A i \in 1 .. n : i \in DOMAIN log /\ part[i] = log[i]
  PROVE  LogKept(part)
<1>1. NoBlanks(part)
  BY DEF LogKept, NoBlanks
<1>2. ASSUME NEW k \in 0 .. n
      PROVE  KeptAt(part, k)
  <2>1. k \in Nat /\ k \in 0 .. Len(log) /\ \A i \in 1 .. k : i \in 1 .. n
    OBVIOUS
  <2>2. KeptAt(log, k)
    BY <2>1 DEF LogKept
  <2>3. \A i \in 1 .. k : part[i] = log[i]
    BY <2>1
  <2>4. QED
    BY <2>1, <2>2, <2>3, KeptBefore
<1>3. QED
  BY <1>1, <1>2 DEF LogKept

(* A summary that was made from all it hides.                               *)
LEMMA KeptSummarised ==
  ASSUME NEW log, IsSeq(log), LogKept(log), NEW e, e.kind = "summary",
         NEW all, all = log \o <<e>>,
         \A i \in DOMAIN log :
           Shows(log, i) /\ (i <= e.cutoff \/ log[i].kind = "summary") =>
             IF log[i].kind = "summary" THEN log[i].covers \subseteq e.covers
                                        ELSE i \in e.covers
  PROVE  LogKept(all)
<1>1. PICK m, ms : m = Len(log) /\ ms = <<e>>
  OBVIOUS
<1>2. IsSeq(ms) /\ DOMAIN ms = {1} /\ ms[1] = e /\ Len(ms) = 1
  <2>1. IsSeq(ms) /\ DOMAIN ms = {1} /\ ms[1] = e
    BY <1>1, SingleSeq
  <2>2. Len(ms) \in Nat /\ DOMAIN ms = 1 .. Len(ms)
    BY <2>1, SeqFacts
  <2>3. Len(ms) = 1
    BY <2>1, <2>2
  <2>4. QED
    BY <2>1, <2>3
<1>3. /\ m \in Nat /\ DOMAIN log = 1 .. m /\ Len(all) = m + 1
      /\ DOMAIN all = 1 .. m + 1
      /\ \A i \in 1 .. m : all[i] = log[i]
  BY <1>1, <1>2, ConcatSeq
<1>4. all[m + 1] = e
  <2>1. Joined(log, ms, all)
    BY <1>1, <1>2, Split
  <2>2. QED
    BY <1>1, <1>2, <2>1 DEF Joined
<1>5. NoBlanks(all)
  <2>1. ~IsBlank(e)
    BY DEF IsBlank
  <2>2. \A i \in 1 .. m : ~IsBlank(all[i])
    BY <1>3 DEF LogKept, NoBlanks
  <2>3. \A i \in 1 .. m + 1 : i \in 1 .. m \/ i = m + 1
    BY <1>3
  <2>4. QED
    BY <1>3, <1>4, <2>1, <2>2, <2>3 DEF NoBlanks
<1>6. ASSUME NEW n \in 0 .. m
      PROVE  KeptAt(all, n)
  <2>1. n \in Nat /\ \A i \in 1 .. n : i \in 1 .. m
    BY <1>3
  <2>2. KeptAt(log, n)
    BY <1>1 DEF LogKept
  <2>3. \A i \in 1 .. n : all[i] = log[i]
    BY <1>3, <2>1
  <2>4. QED
    BY <2>1, <2>2, <2>3, KeptBefore
<1>7. KeptAt(all, m + 1)
  <2>1. ShownAt(all, m + 1, m + 1)
    <3>1. \A j \in 1 .. m + 1 : ~(m + 1 < j)
      BY <1>3
    <3>2. QED
      BY <1>4, <3>1 DEF ShownAt, Hides, MessageKind
  <2>2. m + 1 \in 1 .. m + 1 /\ \A i \in 1 .. m : i \in 1 .. m + 1
    BY <1>3
  <2>3. ASSUME NEW i \in 1 .. m, Shows(log, i),
               ~(i <= e.cutoff \/ log[i].kind = "summary")
        PROVE  ShownAt(all, m + 1, i)
    <3>1. all[i] = log[i] /\ \A j \in 1 .. m : all[j] = log[j]
      BY <1>3
    <3>2. \A j \in 1 .. m : ~Hides(all, j, i)
      BY <1>3, <2>3, <3>1 DEF Shows, Hides
    <3>3. ~Hides(all, m + 1, i)
      BY <1>4, <2>3, <3>1 DEF Hides
    <3>4. \A j \in 1 .. m + 1 : j \in 1 .. m \/ j = m + 1
      BY <1>3
    <3>5. QED
      BY <2>3, <3>1, <3>2, <3>3, <3>4 DEF ShownAt, Shows
  <2>4. ASSUME NEW i \in 1 .. m + 1, all[i].kind \in MessageKind \ {"summary"}
        PROVE  \E j \in 1 .. m + 1 :
                 /\ ShownAt(all, m + 1, j)
                 /\ j = i \/ (all[j].kind = "summary" /\ i \in all[j].covers)
    <3>1. i \in 1 .. m /\ all[i] = log[i]
      <4>1. i # m + 1
        BY <1>4, <2>4
      <4>2. QED
        BY <1>3, <2>4, <4>1
    <3>2. KeptAt(log, m)
      BY <1>1, <1>3 DEF LogKept
    <3>3. PICK j \in 1 .. m :
            /\ ShownAt(log, m, j)
            /\ j = i \/ (log[j].kind = "summary" /\ i \in log[j].covers)
      BY <2>4, <3>1, <3>2 DEF KeptAt
    <3>4. Shows(log, j) /\ all[j] = log[j] /\ j \in DOMAIN log
      BY <1>1, <1>3, <3>3, ShowsIs
    <3>5. CASE j <= e.cutoff \/ log[j].kind = "summary"
      <4>1. i \in e.covers
        BY <2>4, <3>1, <3>3, <3>4, <3>5
      <4>2. QED
        BY <1>4, <2>1, <2>2, <4>1
    <3>6. CASE ~(j <= e.cutoff \/ log[j].kind = "summary")
      BY <2>2, <2>3, <3>3, <3>4, <3>6
    <3>7. QED
      BY <3>5, <3>6
  <2>5. QED
    BY <2>4 DEF KeptAt
<1>8. \A n \in 0 .. m + 1 : n \in 0 .. m \/ n = m + 1
  BY <1>3
<1>9. QED
  BY <1>3, <1>5, <1>6, <1>7, <1>8 DEF LogKept

-----------------------------------------------------------------------------
(* The order of a history.                                                  *)

LEMMA RankIs ==
  ASSUME NEW n \in Nat, NEW S \in SUBSET (1 .. n)
  PROVE  /\ IsFiniteSet(S) /\ Cardinality(S) \in Nat
         /\ \A i \in S : UpTo(S, i) \in 1 .. Cardinality(S)
         /\ \A i, j \in S : i < j => UpTo(S, i) < UpTo(S, j)
<1>1. IsFiniteSet(S) /\ Cardinality(S) \in Nat
  <2>1. IsFiniteSet(1 .. n)
    BY FS_Interval
  <2>2. IsFiniteSet(S)
    BY <2>1, FS_Subset
  <2>3. QED
    BY <2>2, FS_CardinalityType
<1>2. ASSUME NEW i \in S
      PROVE  UpTo(S, i) \in 1 .. Cardinality(S)
  <2>1. PICK T : T = {j \in S : j <= i}
    OBVIOUS
  <2>2. T \in SUBSET S /\ i \in T
    BY <2>1
  <2>3. IsFiniteSet(T) /\ Cardinality(T) <= Cardinality(S)
    BY <1>1, <2>2, FS_Subset
  <2>4. Cardinality(T) \in Nat /\ Cardinality(T) # 0
    BY <2>2, <2>3, FS_CardinalityType, FS_EmptySet
  <2>5. QED
    BY <1>1, <2>1, <2>3, <2>4 DEF UpTo
<1>3. ASSUME NEW i \in S, NEW j \in S, i < j
      PROVE  UpTo(S, i) < UpTo(S, j)
  <2>1. PICK T, U : T = {h \in S : h <= i} /\ U = {h \in S : h <= j}
    OBVIOUS
  <2>2. T \in SUBSET U /\ U \in SUBSET S /\ j \in U /\ j \notin T
    <3>1. \A h \in S : h \in Nat
      OBVIOUS
    <3>2. \A h \in S : h <= i => h <= j
      BY <1>3, <3>1
    <3>3. ~(j <= i) /\ j <= j
      BY <1>3, <3>1
    <3>4. QED
      BY <2>1, <3>2, <3>3
  <2>3. IsFiniteSet(U) /\ IsFiniteSet(T)
    BY <1>1, <2>2, FS_Subset
  <2>4. /\ Cardinality(T) <= Cardinality(U)
        /\ Cardinality(U) = Cardinality(T) => U = T
    BY <2>2, <2>3, FS_Subset
  <2>5. Cardinality(T) \in Nat /\ Cardinality(U) \in Nat
    BY <2>3, FS_CardinalityType
  <2>6. Cardinality(T) < Cardinality(U)
    BY <2>2, <2>4, <2>5
  <2>7. QED
    BY <2>1, <2>6 DEF UpTo
<1>4. QED
  BY <1>1, <1>2, <1>3

(* The elements of a set of seqs, each once and in order.                   *)
IsInOrder(f, S) == f = InOrder[S]
LEMMA InOrderIs ==
  ASSUME NEW n \in Nat, NEW S \in SUBSET (1 .. n), NEW f, IsInOrder(f, S)
  PROVE  /\ IsSeq(f) /\ Len(f) = Cardinality(S) /\ DOMAIN f = 1 .. Len(f)
         /\ Len(f) \in Nat
         /\ \A k \in DOMAIN f : f[k] \in S
         /\ \A i \in S : \E k \in DOMAIN f : f[k] = i
         /\ \A k, l \in DOMAIN f : k < l => f[k] < f[l]
<1>1. PICK m : m = Cardinality(S)
  OBVIOUS
<1>2. PICK rank : rank = [i \in S |-> UpTo(S, i)]
  OBVIOUS
<1>3. /\ IsFiniteSet(S) /\ m \in Nat /\ rank \in [S -> 1 .. m]
      /\ \A i, j \in S : i < j => rank[i] < rank[j]
  BY <1>1, <1>2, RankIs
<1>4. rank \in Surjection(S, 1 .. m)
  <2>1. \A i, j \in S : i # j => rank[i] # rank[j]
    <3>1. ASSUME NEW i \in S, NEW j \in S, i # j
          PROVE  rank[i] # rank[j]
      <4>1. i \in Nat /\ j \in Nat /\ rank[i] \in Nat /\ rank[j] \in Nat
        BY <1>3
      <4>2. i < j \/ j < i
        BY <3>1, <4>1
      <4>3. QED
        BY <1>3, <4>1, <4>2
    <3>2. QED
      BY <3>1
  <2>2. rank \in Injection(S, 1 .. m)
    BY <1>3, <2>1 DEF Injection, IsInjective
  <2>3. IsFiniteSet(1 .. m) /\ Cardinality(1 .. m) = m
    BY <1>3, FS_Interval
  <2>4. PICK T : T = 1 .. m
    OBVIOUS
  <2>5. rank \in Surjection(S, T)
    BY <1>1, <2>2, <2>3, <2>4, FS_Injection
  <2>6. QED
    BY <2>4, <2>5
<1>5. \A k \in 1 .. m : \E i \in S : rank[i] = k
  BY <1>4 DEF Surjection
<1>6. /\ DOMAIN f = 1 .. m /\ f = [k \in 1 .. m |-> f[k]]
      /\ \A k \in 1 .. m : f[k] \in S /\ rank[f[k]] = k
  <2>1. f = [k \in 1 .. m |-> CHOOSE i \in S : UpTo(S, i) = k]
    <3>1. S \in SUBSET Nat
      OBVIOUS
    <3>2. QED
      BY <1>1, <3>1 DEF IsInOrder, InOrder
  <2>2. \A k \in 1 .. m : \E i \in S : UpTo(S, i) = k
    BY <1>2, <1>5
  <2>3. \A k \in 1 .. m : f[k] \in S /\ UpTo(S, f[k]) = k
    BY <2>1, <2>2
  <2>4. QED
    BY <1>2, <2>1, <2>3
<1>7. IsSeq(f) /\ Len(f) = m
  BY <1>3, <1>6, FunSeq
<1>8. ASSUME NEW i \in S
      PROVE  \E k \in DOMAIN f : f[k] = i
  <2>1. PICK k : k = rank[i]
    OBVIOUS
  <2>2. k \in 1 .. m /\ f[k] \in S /\ rank[f[k]] = rank[i]
    BY <1>3, <1>6, <2>1
  <2>3. f[k] \in Nat /\ i \in Nat /\ rank[i] \in Nat
    <3>1. \A h \in S : h \in Nat
      OBVIOUS
    <3>2. k \in Nat
      BY <1>3, <2>2
    <3>3. QED
      BY <2>1, <2>2, <3>1, <3>2
  <2>4. ~(f[k] < i) /\ ~(i < f[k])
    BY <1>3, <2>2, <2>3
  <2>5. QED
    BY <1>6, <2>2, <2>3, <2>4
<1>9. ASSUME NEW k \in DOMAIN f, NEW l \in DOMAIN f, k < l
      PROVE  f[k] < f[l]
  <2>1. f[k] \in S /\ f[l] \in S /\ rank[f[k]] = k /\ rank[f[l]] = l
    BY <1>6
  <2>2. f[k] \in Nat /\ f[l] \in Nat /\ k \in Nat /\ l \in Nat
    BY <1>3, <1>6, <2>1
  <2>3. f[k] # f[l]
    BY <1>9, <2>1, <2>2
  <2>4. ~(f[l] < f[k])
    BY <1>3, <1>9, <2>1, <2>2
  <2>5. QED
    BY <2>2, <2>3, <2>4
<1>10. QED
  BY <1>1, <1>3, <1>6, <1>7, <1>8, <1>9

(* A history without its summary is in the order of the log, and the        *)
(* summary, the only one there is, comes first.                             *)
Ordered(log, S, R, a) ==
  /\ IsSeq(R) /\ Len(R) \in Nat /\ DOMAIN R = 1 .. Len(R) /\ a \in 0 .. Len(R)
  /\ \A x \in DOMAIN R : R[x] \in S
  /\ \A i \in S : \E x \in DOMAIN R : R[x] = i
  /\ \A x \in DOMAIN R : log[R[x]].kind = "summary" <=> x <= a
  /\ \A x, y \in DOMAIN R : a < x /\ x < y => R[x] < R[y]
  /\ a <= 1

LEMMA ReplayedOrdered ==
  ASSUME NEW st, Sound(st), RowsTell(st), NEW R, R = Replayed(st)
  PROVE  \E a : Ordered(st.log, st.surface, R, a)
<1>1. PICK log, n, S : log = st.log /\ n = Len(log) /\ S = st.surface
  OBVIOUS
<1>2. PICK Sums, Newest :
        /\ Sums = {i \in S : log[i].kind = "summary"}
        /\ Newest = {i \in Sums : \A j \in Sums : j <= i}
  OBVIOUS
<1>3. PICK Others : Others = S \ Newest
  OBVIOUS
<1>4. PICK f, g : IsInOrder(f, Newest) /\ IsInOrder(g, Others)
  BY DEF IsInOrder
<1>5. R = f \o g
  BY <1>1, <1>2, <1>3, <1>4 DEF IsInOrder, Replayed, Replay
<1>6. n \in Nat /\ S \in SUBSET (1 .. n) /\ DOMAIN log = 1 .. n
  BY <1>1, SoundLog
<1>7. Newest \in SUBSET (1 .. n) /\ Others \in SUBSET (1 .. n)
  BY <1>2, <1>3, <1>6
<1>8. /\ IsSeq(f) /\ DOMAIN f = 1 .. Len(f) /\ Len(f) \in Nat
      /\ \A k \in DOMAIN f : f[k] \in Newest
      /\ \A i \in Newest : \E k \in DOMAIN f : f[k] = i
      /\ \A k, l \in DOMAIN f : k < l => f[k] < f[l]
  BY <1>4, <1>6, <1>7, InOrderIs
<1>9. /\ IsSeq(g) /\ DOMAIN g = 1 .. Len(g) /\ Len(g) \in Nat
      /\ \A k \in DOMAIN g : g[k] \in Others
      /\ \A i \in Others : \E k \in DOMAIN g : g[k] = i
      /\ \A k, l \in DOMAIN g : k < l => g[k] < g[l]
  BY <1>4, <1>6, <1>7, InOrderIs
<1>10. ASSUME NEW i \in Sums, NEW j \in Sums
       PROVE  i = j
  <2>1. /\ i \in DOMAIN log /\ j \in DOMAIN log /\ Shows(log, i) /\ Shows(log, j)
        /\ log[i].kind = "summary" /\ log[j].kind = "summary"
    BY <1>1, <1>2 DEF RowsTell
  <2>2. ~(i < j) /\ ~(j < i)
    BY <2>1 DEF Shows, Hides
  <2>3. i \in Nat /\ j \in Nat
    BY <1>6, <2>1
  <2>4. QED
    BY <2>2, <2>3
<1>11. Newest = Sums
  <2>1. \A i \in Sums : i \in Nat
    BY <1>2, <1>6
  <2>2. \A i \in Sums : \A j \in Sums : j <= i
    BY <1>10, <2>1
  <2>3. QED
    BY <1>2, <2>2
<1>12. PICK a, b : a = Len(f) /\ b = Len(g)
  OBVIOUS
<1>13. a <= 1
  <2>0. a \in Nat
    BY <1>8, <1>12
  <2>1. SUFFICES ASSUME 1 < a
        PROVE  FALSE
    BY <2>0
  <2>2. 1 \in DOMAIN f /\ 2 \in DOMAIN f
    BY <1>8, <1>12, <2>0, <2>1
  <2>3. f[1] < f[2] /\ f[1] = f[2]
    BY <1>8, <1>10, <1>11, <2>2
  <2>4. f[1] \in Nat
    <3>1. \A i \in Newest : i \in Nat
      BY <1>6, <1>7
    <3>2. f[1] \in Newest
      BY <1>8, <2>2
    <3>3. QED
      BY <3>1, <3>2
  <2>5. QED
    BY <2>3, <2>4
<1>14. /\ IsSeq(R) /\ Len(R) = a + b /\ DOMAIN R = 1 .. a + b
       /\ \A x \in 1 .. a : R[x] = f[x]
       /\ \A y \in 1 .. b : R[a + y] = g[y]
  BY <1>5, <1>8, <1>9, <1>12, ConcatSeq
<1>15. a \in Nat /\ b \in Nat
  BY <1>8, <1>9, <1>12
<1>16. ASSUME NEW x \in 1 .. a + b
       PROVE  \/ x \in 1 .. a /\ R[x] \in Newest
              \/ /\ x - a \in 1 .. b /\ R[x] = g[x - a] /\ R[x] \in Others
                 /\ ~(x <= a)
  <2>1. CASE x <= a
    BY <1>8, <1>12, <1>14, <1>15, <2>1
  <2>2. CASE ~(x <= a)
    <3>1. x - a \in 1 .. b /\ a + (x - a) = x
      BY <1>15, <2>2
    <3>2. R[x] = g[x - a]
      BY <1>14, <3>1
    <3>3. QED
      BY <1>9, <1>12, <2>2, <3>1, <3>2
  <2>3. QED
    BY <2>1, <2>2
<1>17. \A x \in DOMAIN R : R[x] \in S
  BY <1>2, <1>3, <1>14, <1>16
<1>18. ASSUME NEW i \in S
       PROVE  \E x \in DOMAIN R : R[x] = i
  <2>1. CASE i \in Newest
    <3>1. PICK k \in 1 .. a : f[k] = i
      BY <1>8, <1>12, <2>1
    <3>2. k \in 1 .. a + b
      BY <1>15, <3>1
    <3>3. QED
      BY <1>14, <3>1, <3>2
  <2>2. CASE i \notin Newest
    <3>1. PICK k \in 1 .. b : g[k] = i
      BY <1>3, <1>9, <1>12, <2>2
    <3>2. a + k \in 1 .. a + b
      BY <1>15, <3>1
    <3>3. QED
      BY <1>14, <3>1, <3>2
  <2>3. QED
    BY <2>1, <2>2
<1>19. ASSUME NEW x \in DOMAIN R
       PROVE  log[R[x]].kind = "summary" <=> x <= a
  BY <1>2, <1>3, <1>11, <1>14, <1>15, <1>16
<1>20. ASSUME NEW x \in DOMAIN R, NEW y \in DOMAIN R, a < x, x < y
       PROVE  R[x] < R[y]
  <2>1. x \in Nat /\ y \in Nat
    BY <1>14, <1>15
  <2>2. ~(x <= a) /\ ~(y <= a)
    BY <1>15, <1>20, <2>1
  <2>3. /\ x - a \in 1 .. b /\ R[x] = g[x - a]
        /\ y - a \in 1 .. b /\ R[y] = g[y - a]
    BY <1>14, <1>15, <1>16, <2>1, <2>2
  <2>4. x - a < y - a
    BY <1>15, <1>20, <2>1
  <2>5. QED
    BY <1>9, <1>12, <2>3, <2>4
<1>21. a \in 0 .. Len(R) /\ Len(R) \in Nat /\ DOMAIN R = 1 .. Len(R)
  BY <1>14, <1>15
<1>22. Ordered(log, S, R, a)
  BY <1>13, <1>14, <1>17, <1>18, <1>19, <1>20, <1>21 DEF Ordered
<1>23. QED
  BY <1>1, <1>22

(* The cutoff of a summary is the last of what it takes the place of.       *)
IsLastOf(E, k, c) == /\ c \in {0} \cup {E[x] : x \in 1 .. k}
                     /\ \A x \in 1 .. k : E[x] <= c
LEMMA ShadowedOrdered ==
  ASSUME NEW log, NEW n \in Nat, DOMAIN log = 1 .. n,
         NEW S, S \subseteq DOMAIN log, NEW R, NEW a, Ordered(log, S, R, a),
         NEW E, DOMAIN E = DOMAIN R,
         \A x \in DOMAIN R : E[x] = IF x <= a THEN 0 ELSE R[x],
         NEW k \in DOMAIN R, NEW c, c = ShadowedThrough(E, k)
  PROVE  IsLastOf(E, k, c)
<1>1. /\ a \in Nat /\ a <= 1 /\ Len(R) \in Nat /\ DOMAIN R = 1 .. Len(R)
      /\ k \in Nat /\ 1 <= k
      /\ \A x \in 1 .. k : x \in DOMAIN R /\ x \in Nat
  BY DEF Ordered
<1>2. \A x \in DOMAIN R : R[x] \in Nat
  BY DEF Ordered
<1>3. PICK T : T = {0} \cup {E[x] : x \in 1 .. k}
  OBVIOUS
<1>4. c \in T /\ \A x \in 1 .. k : E[x] <= c
  <2>1. c = CHOOSE m \in T : \A x \in 1 .. k : E[x] <= m
    BY <1>3 DEF ShadowedThrough
  <2>2. \E m \in T : \A x \in 1 .. k : E[x] <= m
    <3>1. CASE k <= a
      <4>1. \A x \in 1 .. k : E[x] = 0
        BY <1>1, <3>1
      <4>2. QED
        BY <1>3, <4>1
    <3>2. CASE ~(k <= a)
      <4>1. E[k] = R[k] /\ E[k] \in T /\ R[k] \in Nat
        BY <1>1, <1>2, <1>3, <3>2
      <4>2. ASSUME NEW x \in 1 .. k
            PROVE  E[x] <= R[k]
        <5>1. CASE x <= a
          BY <1>1, <4>1, <5>1
        <5>2. CASE ~(x <= a) /\ x # k
          <6>1. a < x /\ x < k /\ E[x] = R[x] /\ x \in DOMAIN R
            BY <1>1, <5>2
          <6>2. R[x] < R[k] /\ R[x] \in Nat
            BY <1>2, <6>1 DEF Ordered
          <6>3. QED
            BY <4>1, <6>1, <6>2
        <5>3. CASE x = k
          BY <4>1, <5>3
        <5>4. QED
          BY <5>1, <5>2, <5>3
      <4>3. QED
        BY <4>1, <4>2
    <3>3. QED
      BY <3>1, <3>2
  <2>3. QED
    BY <2>1, <2>2
<1>5. QED
  BY <1>3, <1>4 DEF IsLastOf

(* What a summary of the first messages of a history would hide are those   *)
(* messages.                                                                *)
LEMMA OrderedTakes ==
  ASSUME NEW log, NEW n, n = Len(log), n \in Nat, DOMAIN log = 1 .. n,
         NEW S, S = {i \in DOMAIN log : Shows(log, i)},
         NEW R, NEW a, Ordered(log, S, R, a),
         NEW E, DOMAIN E = DOMAIN R,
         \A x \in DOMAIN R : E[x] = IF x <= a THEN 0 ELSE R[x],
         NEW call, call.entries = E, \A x \in DOMAIN R : call.base[x] = R[x],
         NEW k \in DOMAIN R
  PROVE  Takes(call, log, k)
<1>1. /\ a \in Nat /\ a <= 1 /\ Len(R) \in Nat /\ DOMAIN R = 1 .. Len(R)
      /\ k \in Nat /\ 1 <= k
      /\ \A x \in 1 .. k : x \in DOMAIN R /\ x \in Nat
  BY DEF Ordered
<1>2. \A x \in DOMAIN R : R[x] \in S /\ R[x] \in 1 .. n /\ R[x] \in Nat
  BY DEF Ordered
<1>3. PICK T : T = {0} \cup {E[x] : x \in 1 .. k}
  OBVIOUS
<1>4. PICK c : c = ShadowedThrough(E, k)
  OBVIOUS
<1>5. c \in T /\ \A x \in 1 .. k : E[x] <= c
  <2>1. S \subseteq DOMAIN log
    OBVIOUS
  <2>2. IsLastOf(E, k, c)
    BY <1>4, <2>1, ShadowedOrdered
  <2>3. QED
    BY <1>3, <2>2 DEF IsLastOf
<1>6. c \in 0 .. n
  <2>1. \A x \in 1 .. k : E[x] \in 0 .. n
    BY <1>1, <1>2
  <2>2. QED
    BY <1>3, <1>5, <2>1
<1>7. ASSUME NEW i \in DOMAIN log, Shows(log, i),
             i <= c \/ log[i].kind = "summary"
      PROVE  \E j \in 1 .. k : call.base[j] = i
  <2>1. PICK y \in DOMAIN R : R[y] = i
    BY <1>7 DEF Ordered
  <2>2. y \in 1 .. k
    <3>1. CASE y <= a
      BY <1>1, <3>1
    <3>2. CASE ~(y <= a)
      <4>1. log[i].kind # "summary"
        BY <2>1, <3>2 DEF Ordered
      <4>2. i <= c /\ i \in Nat \ {0}
        BY <1>7, <4>1
      <4>3. PICK x \in 1 .. k : E[x] = c
        BY <1>3, <1>5, <1>6, <4>2
      <4>4. ~(x <= a) /\ R[x] = c
        BY <1>1, <4>2, <4>3
      <4>5. ~(x < y)
        <5>1. x < y => R[x] < R[y]
          BY <1>1, <4>4 DEF Ordered
        <5>2. R[x] \in Nat
          BY <1>1, <1>2
        <5>3. QED
          BY <2>1, <4>2, <4>4, <5>1, <5>2
      <4>6. y \in Nat /\ 1 <= y
        BY <1>1
      <4>7. QED
        BY <1>1, <4>5, <4>6
    <3>3. QED
      BY <3>1, <3>2
  <2>3. QED
    BY <2>1, <2>2
<1>8. QED
  BY <1>4, <1>6, <1>7 DEF Takes

LEMMA TakesStill ==
  ASSUME NEW log, NEW all, Extended(log, all), NEW call, NEW k,
         Takes(call, log, k)
  PROVE  Takes(call, all, k)
<1>1. PICK c, m, l : /\ c = ShadowedThrough(call.entries, k)
                     /\ m = Len(log) /\ l = Len(all)
  OBVIOUS
<1>2. /\ m \in Nat /\ l \in Nat /\ m <= l
      /\ DOMAIN log = 1 .. m /\ DOMAIN all = 1 .. l
      /\ \A i \in 1 .. m : all[i] = log[i]
      /\ \A i \in 1 .. l : i \notin 1 .. m => all[i].kind # "summary"
  BY <1>1 DEF Extended
<1>3. /\ c \in 0 .. m
      /\ \A i \in 1 .. m :
           Shows(log, i) /\ (i <= c \/ log[i].kind = "summary")
             => \E j \in 1 .. k : call.base[j] = i
  BY <1>1, <1>2 DEF Takes
<1>4. c \in 0 .. l
  BY <1>2, <1>3
<1>5. ASSUME NEW i \in 1 .. l, Shows(all, i), i <= c \/ all[i].kind = "summary"
      PROVE  \E j \in 1 .. k : call.base[j] = i
  <2>1. i \in 1 .. m
    <3>1. CASE i <= c
      BY <1>2, <1>3, <3>1
    <3>2. CASE all[i].kind = "summary"
      BY <1>2, <3>2
    <3>3. QED
      BY <1>5, <3>1, <3>2
  <2>2. all[i] = log[i]
    BY <1>2, <2>1
  <2>3. Shows(log, i)
    <3>1. ShownAt(all, l, i)
      BY <1>1, <1>2, <1>5, ShowsIs
    <3>2. l \in Len(log) .. Len(all) /\ i \in DOMAIN log
      BY <1>1, <1>2, <2>1
    <3>3. ShownAt(log, m, i)
      BY <1>1, <3>1, <3>2, ShownStill
    <3>4. QED
      BY <1>1, <1>2, <3>3, ShowsIs
  <2>4. QED
    BY <1>3, <1>5, <2>1, <2>2, <2>3
<1>6. QED
  BY <1>1, <1>2, <1>4, <1>5 DEF Takes

LEMMA ReplaysStill ==
  ASSUME NEW log, NEW all, Extended(log, all), NEW call, NEW after,
         RunReplays(call, log),
         MaySummarise(after) => /\ MaySummarise(call)
                                /\ after.base = call.base
                                /\ after.entries = call.entries
  PROVE  RunReplays(after, all)
<1>1. SUFFICES ASSUME MaySummarise(after), NEW k \in 1 .. Len(after.base) - 1
      PROVE  Takes(after, all, k)
  <2>1. MaySummarise(after) => IsSeq(after.base)
    BY DEF RunReplays
  <2>2. QED
    BY <2>1 DEF RunReplays
<1>2. Takes(call, log, k)
  BY <1>1 DEF RunReplays
<1>3. Takes(call, all, k)
  BY <1>2, TakesStill
<1>4. QED
  BY <1>1, <1>3 DEF Takes

LEMMA HistoryIs ==
  ASSUME NEW st, Sound(st), NoBlanks(st.log)
  PROVE  History(st) = Replayed(st)
<1>1. st.surface \subseteq DOMAIN st.log
  BY SoundLog
<1>2. {i \in st.surface : ~IsBlank(st.log[i])} = st.surface
  BY <1>1 DEF NoBlanks
<1>3. QED
  BY <1>2 DEF History, Replayed

(* A turn that is opened with the history of its session, and perhaps with  *)
(* what a person says.                                                      *)
LEMMA OpenedReplays ==
  ASSUME NEW st, Sound(st), RowsTell(st), NoBlanks(st.log),
         NEW p, IsSeq(p), Len(p) <= 1,
         NEW call, call.entries = Entries(st), call.base = History(st) \o p,
         NEW all, Extended(st.log, all)
  PROVE  RunReplays(call, all)
<1>1. PICK log, S, R, E, n :
        /\ log = st.log /\ S = st.surface /\ R = Replayed(st)
        /\ E = Entries(st) /\ n = Len(log)
  OBVIOUS
<1>2. PICK a : Ordered(log, S, R, a)
  BY <1>1, ReplayedOrdered
<1>3. n \in Nat /\ DOMAIN log = 1 .. n
  BY <1>1, SoundLog
<1>4. S = {i \in DOMAIN log : Shows(log, i)}
  BY <1>1 DEF RowsTell
<1>5. E = [x \in DOMAIN R |->
             IF log[R[x]].kind = "summary" THEN 0 ELSE R[x]]
  BY <1>1 DEF Entries
<1>6. DOMAIN E = DOMAIN R
      /\ \A x \in DOMAIN R : E[x] = IF x <= a THEN 0 ELSE R[x]
  BY <1>2, <1>5 DEF Ordered
<1>7. PICK base : base = R \o p
  OBVIOUS
<1>8. call.base = base
  BY <1>1, <1>7, HistoryIs
<1>9. IsSeq(R) /\ Len(R) \in Nat /\ DOMAIN R = 1 .. Len(R)
  BY <1>2 DEF Ordered
<1>10. /\ Len(base) = Len(R) + Len(p) /\ Len(p) \in Nat
       /\ \A x \in DOMAIN R : base[x] = R[x]
  BY <1>7, <1>9, ConcatSeq
<1>11. \A k \in 1 .. Len(base) - 1 : k \in DOMAIN R
  BY <1>9, <1>10
<1>12. ASSUME NEW k \in DOMAIN R
       PROVE  Takes(call, log, k)
  <2>1. /\ call.entries = E /\ \A x \in DOMAIN R : call.base[x] = R[x]
    BY <1>1, <1>8, <1>10
  <2>2. n = Len(log) /\ n \in Nat /\ DOMAIN log = 1 .. n
    BY <1>1, <1>3
  <2>3. QED
    BY <1>2, <1>4, <1>6, <1>12, <2>1, <2>2, OrderedTakes, Zenon
<1>13. \A k \in 1 .. Len(call.base) - 1 : Takes(call, log, k)
  BY <1>8, <1>11, <1>12
<1>14. RunReplays(call, log)
  <2>1. IsSeq(base)
    BY <1>7, <1>9, ConcatSeq
  <2>2. QED
    BY <1>8, <1>13, <2>1 DEF RunReplays
<1>15. QED
  BY <1>1, <1>14, ReplaysStill

-----------------------------------------------------------------------------
(* Every write but a summary and a fork appends what is not forgotten.      *)

LEMMA GrowsExtends ==
  ASSUME NEW st, NEW ms, NEW new, Sound(st), IsSeq(ms), Grows(st, ms, new),
         \A j \in DOMAIN ms : ms[j].kind # "summary" /\ ~IsBlank(ms[j])
  PROVE  Extended(st.log, new.log)
<1>1. PICK log, all : log = st.log /\ all = new.log
  OBVIOUS
<1>2. IsSeq(log) /\ all = log \o ms
  BY <1>1, SoundLog DEF Grows
<1>3. Extended(log, all)
  BY <1>2, ExtendedBy
<1>4. QED
  BY <1>1, <1>3

LEMMA EventExtends ==
  ASSUME NEW st, NEW e, NEW new, Sound(st), Grows(st, <<e>>, new),
         e.kind \notin {"summary", "assistant"}
  PROVE  Extended(st.log, new.log)
<1>1. PICK ms : ms = <<e>>
  OBVIOUS
<1>2. IsSeq(ms) /\ DOMAIN ms = {1} /\ ms[1] = e
  BY <1>1, SingleSeq
<1>3. ~IsBlank(e)
  BY DEF IsBlank
<1>4. Grows(st, ms, new)
  BY <1>1
<1>5. QED
  BY <1>2, <1>3, <1>4, GrowsExtends

LEMMA LoggedExtends ==
  ASSUME NEW st, NEW e, Sound(st), e.kind \notin {"summary", "assistant"}
  PROVE  Extended(st.log, Logged(st, e).log)
BY LoggedGrows, EventExtends

LEMMA SayExtends ==
  ASSUME NEW st, NEW ms, Sound(st), IsSeq(ms), NoBlanks(ms),
         \A j \in DOMAIN ms : ms[j].kind # "summary"
  PROVE  Extended(st.log, Say(st, ms).log)
<1>1. Grows(st, ms, Say(st, ms))
  BY SayGrows
<1>2. \A j \in DOMAIN ms : ~IsBlank(ms[j])
  BY DEF NoBlanks
<1>3. QED
  BY <1>1, <1>2, GrowsExtends

LEMMA EndTurnExtends ==
  ASSUME NEW st, NEW t, NEW reason \in Reason, Sound(st), t \in DOMAIN st.turns
  PROVE  Extended(st.log, EndTurn(st, t, reason).log)
<1>1. PICK e : e = Event("turnEnd", t, reason, {})
  OBVIOUS
<1>2. e.kind \notin {"summary", "assistant"}
  BY <1>1 DEF Event
<1>3. Grows(st, <<e>>, EndTurn(st, t, reason))
  BY <1>1, EndTurnGrows
<1>4. QED
  BY <1>2, <1>3, EventExtends

LEMMA StartExtends ==
  ASSUME NEW st, NEW t, Sound(st)
  PROVE  Extended(st.log, StartTurn(st, t).log)
<1>1. PICK e : e = Event("turnStart", t, "said", {})
  OBVIOUS
<1>2. e.kind \notin {"summary", "assistant"}
  BY <1>1 DEF Event
<1>3. DOMAIN st = {"log", "surface", "turns"}
  BY SoundLog
<1>4. StartTurn(st, t).log = Logged(st, e).log
  BY <1>1, <1>3 DEF StartTurn, Logged
<1>5. Extended(st.log, Logged(st, e).log)
  BY <1>2, LoggedExtends
<1>6. QED
  BY <1>4, <1>5

LEMMA RepairedExtends ==
  ASSUME NEW st, Sound(st), SteeringsApart
  PROVE  Extended(st.log, Repaired(st).log)
<1>1. PICK t : t = Len(st.turns)
  OBVIOUS
<1>2. t \in Nat /\ DOMAIN st.turns = 1 .. t
  BY <1>1, SoundLog
<1>3. CASE t = 0 \/ st.turns[t] # "open"
  <2>1. Repaired(st) = st
    BY <1>1, <1>3 DEF Repaired
  <2>2. Extended(st.log, st.log)
    BY SoundLog, ExtendedByNothing
  <2>3. QED
    BY <2>1, <2>2
<1>4. CASE t # 0 /\ st.turns[t] = "open"
  <2>1. PICK calls : calls = Unanswered(st, t)
    OBVIOUS
  <2>2. PICK ms, said, new, reason :
          /\ ms = ResultsFor(t, calls) /\ said = Say(st, ms)
          /\ reason = "interrupted" /\ new = EndTurn(said, t, reason)
    OBVIOUS
  <2>3. Repaired(st) = new
    BY <1>1, <1>4, <2>1, <2>2 DEF Repaired
  <2>4. t \in DOMAIN st.turns /\ reason \in Reason
    BY <1>2, <1>4, <2>2 DEF Reason
  <2>5. IsFiniteSet(calls)
    BY <2>1, <2>4, UnansweredFinite
  <2>6. IsSeq(ms) /\ \A i \in DOMAIN ms : \E c \in calls : ms[i] = ToolResult(t, c)
    BY <2>2, <2>5, ResultsAre
  <2>7. \A i \in DOMAIN ms : ms[i].kind = "tool"
    BY <2>6 DEF ToolResult, Event
  <2>8. NoBlanks(ms)
    BY <2>7 DEF NoBlanks, IsBlank
  <2>9. Extended(st.log, said.log)
    BY <2>2, <2>6, <2>7, <2>8, SayExtends
  <2>10. Fits(st, ms)
    BY <2>1, <2>2, <2>4, ResultsFit
  <2>11. Grows(st, ms, said) /\ said.turns = st.turns
    BY <2>2, <2>6, SayGrows
  <2>12. Sound(said)
    BY <2>10, <2>11, Grown
  <2>13. Extended(said.log, new.log)
    BY <2>2, <2>4, <2>11, <2>12, EndTurnExtends
  <2>14. QED
    BY <2>3, <2>9, <2>13, ExtendedTwice
<1>5. QED
  BY <1>3, <1>4

(* A turn that is opened: the log of the repaired session goes on.          *)
LEMMA OpenedExtends ==
  ASSUME SteeringsApart, NEW st, Sound(st),
         NEW mid, mid = Repaired(st), NEW t, t = Len(mid.turns) + 1,
         NEW open, open = StartTurn(mid, t), NEW said,
         said = Say(open, <<User(t, "prompt")>>)
  PROVE  /\ Extended(st.log, mid.log)
         /\ Extended(mid.log, open.log) /\ Extended(mid.log, said.log)
<1>1. Sound(mid) /\ Extended(st.log, mid.log)
  BY RepairedSound, RepairedExtends
<1>2. Extended(mid.log, open.log)
  BY <1>1, StartExtends
<1>3. Sound(open)
  BY OpenedSound DEF HasOpened
<1>4. PICK e, ms : e = User(t, "prompt") /\ ms = <<e>>
  OBVIOUS
<1>5. IsSeq(ms) /\ DOMAIN ms = {1} /\ ms[1] = e
  BY <1>4, SingleSeq
<1>6. e.kind = "user"
  BY <1>4 DEF User, Event
<1>7. NoBlanks(ms) /\ \A j \in DOMAIN ms : ms[j].kind # "summary"
  BY <1>5, <1>6 DEF NoBlanks, IsBlank
<1>8. Extended(open.log, Say(open, ms).log)
  BY <1>3, <1>5, <1>7, SayExtends
<1>9. Extended(mid.log, said.log)
  BY <1>2, <1>4, <1>8, ExtendedTwice
<1>10. QED
  BY <1>1, <1>2, <1>9

-----------------------------------------------------------------------------
(* What a turn has said, as it goes on: never a blank message.              *)

SameTurn(old, after) ==
  /\ after.session = old.session /\ after.base = old.base
  /\ after.entries = old.entries /\ after.tried = old.tried

(* A step of a run leaves the others alone, and adds to what it has said.   *)
Goes(r) ==
  /\ \A q \in Runs \ {r} : run'[q] = run[q]
  /\ SameTurn(run[r], run'[r])
  /\ NoBlanks(run[r].fresh) => NoBlanks(run'[r].fresh)

LEMMA MoreUnblanked ==
  ASSUME NEW f, NEW ms, IsSeq(f), IsSeq(ms), NoBlanks(f), NoBlanks(ms),
         NEW g, g = f \o ms
  PROVE  NoBlanks(g)
<1>1. Joined(f, ms, g)
  BY Split
<1>2. ASSUME NEW i \in DOMAIN g
      PROVE  ~IsBlank(g[i])
  <2>1. CASE i \in DOMAIN f
    BY <1>1, <2>1 DEF Joined, NoBlanks
  <2>2. CASE \E j \in DOMAIN ms : i = Len(f) + j
    BY <1>1, <2>2 DEF Joined, NoBlanks
  <2>3. QED
    BY <1>1, <1>2, <2>1, <2>2 DEF Joined
<1>3. QED
  BY <1>2 DEF NoBlanks

LEMMA GoesBy ==
  ASSUME NEW r \in Runs, NEW old, old = run[r], RunTyped(r, old),
         \A q \in Runs \ {r} : run'[q] = run[q],
         NEW after, after = run'[r], SameTurn(old, after),
         NEW more, IsSeq(more), NoBlanks(more),
         after.fresh = old.fresh \o more \/ after.fresh = old.fresh
  PROVE  Goes(r)
<1>1. PICK f, g : f = old.fresh /\ g = after.fresh
  OBVIOUS
<1>2. IsSeq(f)
  BY <1>1 DEF RunTyped
<1>3. NoBlanks(f) => NoBlanks(g)
  BY <1>1, <1>2, MoreUnblanked
<1>4. QED
  BY <1>1, <1>3 DEF Goes

LEMMA NothingSaid == IsSeq(<<>>) /\ NoBlanks(<<>>)
<1>1. PICK none : none = <<>>
  OBVIOUS
<1>2. IsSeq(none) /\ DOMAIN none = {}
  BY <1>1, EmptyIsSeq
<1>3. QED
  BY <1>1, <1>2 DEF NoBlanks

(* Every action of the loop but Compact changes these fields only.          *)
LEMMA SettleGoes ==
  ASSUME SettledInv, NEW r \in Runs, IsOpen(run[r]), NEW more, IsSeq(more),
         NoBlanks(more), NEW at, NEW outcome, Settle(r, more, at, outcome)
  PROVE  Goes(r)
<1>1. PICK old, after : old = run[r] /\ after = run'[r]
  OBVIOUS
<1>2. RunTyped(r, old) /\ DOMAIN run = Runs /\ DOMAIN old = DOMAIN IdleRun
  BY <1>1, OpenRun DEF SettledInv, Shapes, RunTyped
<1>3. run' = [run EXCEPT ![r].at = at, ![r].outcome = outcome,
                         ![r].fresh = @ \o more, ![r].todo = <<>>]
  BY DEF Settle
<1>4. \A q \in Runs \ {r} : run'[q] = run[q]
  BY <1>2, <1>3
<1>5. after = [old EXCEPT !.at = at, !.outcome = outcome,
                          !.fresh = @ \o more, !.todo = <<>>]
  BY <1>1, <1>2, <1>3
<1>6. {"session", "base", "entries", "tried", "fresh"} \subseteq DOMAIN old
  BY <1>2 DEF IdleRun
<1>7. SameTurn(old, after) /\ after.fresh = old.fresh \o more
  BY <1>5, <1>6 DEF SameTurn
<1>8. QED
  BY <1>1, <1>2, <1>4, <1>7, GoesBy

LEMMA ReturnGoes ==
  ASSUME SettledInv, NEW r \in Runs, IsOpen(run[r]), NEW outcome,
         Return(r, outcome, <<>>)
  PROVE  Goes(r)
<1>1. PICK old, after, more : /\ old = run[r] /\ after = run'[r]
                              /\ more = <<>>
  OBVIOUS
<1>2. RunTyped(r, old) /\ DOMAIN run = Runs /\ DOMAIN old = DOMAIN IdleRun
  BY <1>1, OpenRun DEF SettledInv, Shapes, RunTyped
<1>3. run' = [run EXCEPT ![r].at = "returned", ![r].outcome = outcome,
                         ![r].fresh = @ \o more]
  BY <1>1 DEF Return
<1>4. \A q \in Runs \ {r} : run'[q] = run[q]
  BY <1>2, <1>3
<1>5. after = [old EXCEPT !.at = "returned", !.outcome = outcome,
                          !.fresh = @ \o more]
  BY <1>1, <1>2, <1>3
<1>6. {"session", "base", "entries", "tried", "fresh"} \subseteq DOMAIN old
  BY <1>2 DEF IdleRun
<1>7. SameTurn(old, after) /\ after.fresh = old.fresh \o more
  BY <1>5, <1>6 DEF SameTurn
<1>8. IsSeq(more) /\ NoBlanks(more)
  BY <1>1, NothingSaid
<1>9. QED
  BY <1>1, <1>2, <1>4, <1>7, <1>8, GoesBy

LEMMA SteeredUnblank ==
  ASSUME SettledInv, NEW r \in Runs
  PROVE  IsSeq(Steered(r)) /\ NoBlanks(Steered(r))
<1>1. PICK p, ms, t : p = inbox[r].pending /\ ms = Steered(r) /\ t = Turn(r)
  OBVIOUS
<1>2. SteeredIn(ms, p, t)
  BY <1>1, SteeredAre
<1>3. IsSeq(ms) /\ \A i \in DOMAIN ms : ms[i].kind = "user"
  BY <1>2 DEF SteeredIn, Spoken
<1>4. NoBlanks(ms)
  BY <1>3 DEF NoBlanks, IsBlank
<1>5. QED
  BY <1>1, <1>3, <1>4

LEMMA BeginStepGoes ==
  ASSUME SettledInv, NEW r \in Runs, BeginStep(r)
  PROVE  Goes(r)
<1>1. PICK old, after, more, n :
        /\ old = run[r] /\ after = run'[r] /\ more = Steered(r)
        /\ n = Len(old.fresh)
  OBVIOUS
<1>2. IsOpen(run[r])
  BY DEF BeginStep, IsOpen
<1>3. RunTyped(r, old) /\ DOMAIN run = Runs /\ DOMAIN old = DOMAIN IdleRun
  BY <1>1, <1>2, OpenRun DEF SettledInv, Shapes, RunTyped
<1>4. run' = [run EXCEPT ![r].at = "prepared", ![r].mark = n,
                         ![r].fresh = @ \o more]
  BY <1>1 DEF BeginStep
<1>5. \A q \in Runs \ {r} : run'[q] = run[q]
  BY <1>3, <1>4
<1>6. after = [old EXCEPT !.at = "prepared", !.mark = n, !.fresh = @ \o more]
  BY <1>1, <1>3, <1>4
<1>7. {"session", "base", "entries", "tried", "fresh"} \subseteq DOMAIN old
  BY <1>3 DEF IdleRun
<1>8. SameTurn(old, after) /\ after.fresh = old.fresh \o more
  BY <1>6, <1>7 DEF SameTurn
<1>9. IsSeq(more) /\ NoBlanks(more)
  BY <1>1, SteeredUnblank
<1>10. QED
  BY <1>1, <1>3, <1>5, <1>8, <1>9, GoesBy

(* On to the next step, with what was steered or nothing.                   *)
Onward(r) ==
  \/ run' = [run EXCEPT ![r].at = "step", ![r].step = @ + 1,
                        ![r].outcome = "none",
                        ![r].fresh = @ \o Steered(r)]
  \/ run' = [run EXCEPT ![r].at = "step", ![r].step = @ + 1,
                        ![r].outcome = "none"]
LEMMA NextStepGoes ==
  ASSUME SettledInv, NEW r \in Runs, IsOpen(run[r]), Onward(r)
  PROVE  Goes(r)
<1>1. PICK old, after, more :
        old = run[r] /\ after = run'[r] /\ more = Steered(r)
  OBVIOUS
<1>2. RunTyped(r, old) /\ DOMAIN run = Runs /\ DOMAIN old = DOMAIN IdleRun
  BY <1>1, OpenRun DEF SettledInv, Shapes, RunTyped
<1>3. {"session", "base", "entries", "tried", "fresh"} \subseteq DOMAIN old
  BY <1>2 DEF IdleRun
<1>4. \A q \in Runs \ {r} : run'[q] = run[q]
  BY <1>2 DEF Onward
<1>5. IsSeq(more) /\ NoBlanks(more)
  BY <1>1, SteeredUnblank
<1>6. SameTurn(old, after)
      /\ (after.fresh = old.fresh \o more \/ after.fresh = old.fresh)
  <2>1. CASE run' = [run EXCEPT ![r].at = "step", ![r].step = @ + 1,
                                ![r].outcome = "none",
                                ![r].fresh = @ \o Steered(r)]
    <3>1. after = [old EXCEPT !.at = "step", !.step = @ + 1,
                              !.outcome = "none", !.fresh = @ \o more]
      BY <1>1, <1>2, <2>1
    <3>2. QED
      BY <1>3, <3>1 DEF SameTurn
  <2>2. CASE run' = [run EXCEPT ![r].at = "step", ![r].step = @ + 1,
                                ![r].outcome = "none"]
    <3>1. after = [old EXCEPT !.at = "step", !.step = @ + 1,
                              !.outcome = "none"]
      BY <1>1, <1>2, <2>2
    <3>2. QED
      BY <1>3, <3>1 DEF SameTurn
  <2>3. QED
    BY <2>1, <2>2 DEF Onward
<1>7. QED
  BY <1>1, <1>2, <1>4, <1>5, <1>6, GoesBy

LEMMA ResultsUnblank ==
  ASSUME SteeringsApart, NEW r, NEW calls, IsSeq(calls),
         NEW ms, ms = Results(r, calls)
  PROVE  IsSeq(ms) /\ NoBlanks(ms)
<1>1. PICK t : t = Turn(r)
  OBVIOUS
<1>2. ms = ResultsIn(t, calls)
  BY <1>1 DEF Results, ResultsIn
<1>3. IsSeq(ms) /\ \A i \in DOMAIN ms : ms[i].kind = "tool"
  BY <1>2, ResultsOf
<1>4. QED
  BY <1>3 DEF NoBlanks, IsBlank

LEMMA OneUnblank ==
  ASSUME NEW e, ~IsBlank(e), NEW ms, ms = <<e>>
  PROVE  IsSeq(ms) /\ NoBlanks(ms)
<1>1. IsSeq(ms) /\ DOMAIN ms = {1} /\ ms[1] = e
  BY SingleSeq
<1>2. QED
  BY <1>1 DEF NoBlanks

(* What a reply adds, a message of it only when it is not blank.            *)
LEMMA ReplyUnblank ==
  ASSUME NEW e, NEW one, one = <<e>>, NEW ms, IsSeq(ms), NoBlanks(ms),
         NEW first, first = IF IsBlank(e) THEN <<>> ELSE one,
         NEW more, more = first \o ms
  PROVE  IsSeq(first) /\ NoBlanks(first) /\ IsSeq(more) /\ NoBlanks(more)
<1>1. IsSeq(first) /\ NoBlanks(first)
  BY NothingSaid, OneUnblank
<1>2. IsSeq(more)
  BY <1>1, ConcatSeq
<1>3. NoBlanks(more)
  BY <1>1, MoreUnblanked
<1>4. QED
  BY <1>1, <1>2, <1>3

LEMMA SaidIsNotBlank ==
  ASSUME NEW t, NEW made
  PROVE  ~IsBlank(Assistant(t, "said", made))
BY DEF Assistant, Event, IsBlank

LEMMA ReplyInterruptedGoes ==
  ASSUME SteeringsApart, SettledInv, NEW r \in Runs, NEW n \in Nat, NEW text,
         ReplyInterrupted(r, n, text)
  PROVE  Goes(r)
<1>1. PICK calls, e, ms, one, first, more :
        /\ calls = Calls(r, n) /\ e = Assistant(Turn(r), text, SetOf(calls))
        /\ ms = Results(r, calls) /\ one = <<e>>
        /\ first = IF IsBlank(e) THEN <<>> ELSE one
        /\ more = first \o ms
  OBVIOUS
<1>2. IsSeq(calls)
  BY <1>1, CallsAre
<1>3. IsSeq(ms) /\ NoBlanks(ms)
  BY <1>1, <1>2, ResultsUnblank
<1>4. IsSeq(more) /\ NoBlanks(more)
  BY <1>1, <1>3, ReplyUnblank
<1>5. Settle(r, more, "settled", "cancelled") /\ IsOpen(run[r])
  BY <1>1 DEF ReplyInterrupted, IsOpen
<1>6. QED
  BY <1>4, <1>5, SettleGoes

LEMMA ReplyCutGoes ==
  ASSUME SteeringsApart, SettledInv, NEW r \in Runs, NEW n \in Nat,
         ReplyCut(r, n)
  PROVE  Goes(r)
<1>1. PICK calls, e, ms, one, more :
        /\ calls = Calls(r, n) /\ e = Assistant(Turn(r), "said", SetOf(calls))
        /\ ms = Results(r, calls) /\ one = <<e>> /\ more = one \o ms
  OBVIOUS
<1>2. IsSeq(calls)
  BY <1>1, CallsAre
<1>3. IsSeq(ms) /\ NoBlanks(ms)
  BY <1>1, <1>2, ResultsUnblank
<1>4. one = IF IsBlank(e) THEN <<>> ELSE one
  BY <1>1, SaidIsNotBlank
<1>5. IsSeq(more) /\ NoBlanks(more)
  BY <1>1, <1>3, <1>4, ReplyUnblank
<1>6. Settle(r, more, "settled", "again") /\ IsOpen(run[r])
  BY <1>1 DEF ReplyCut, IsOpen
<1>7. QED
  BY <1>5, <1>6, SettleGoes

LEMMA ReplyAnswerGoes ==
  ASSUME SettledInv, NEW r \in Runs, NEW text, ReplyAnswer(r, text)
  PROVE  Goes(r)
<1>1. PICK e, one, first :
        /\ e = Assistant(Turn(r), text, {}) /\ one = <<e>>
        /\ first = IF IsBlank(e) THEN <<>> ELSE one
  OBVIOUS
<1>2. IsSeq(first) /\ NoBlanks(first)
  BY <1>1, NothingSaid, OneUnblank
<1>3. Settle(r, first, "answered", "ok") /\ IsOpen(run[r])
  BY <1>1 DEF ReplyAnswer, IsOpen
<1>4. QED
  BY <1>2, <1>3, SettleGoes

LEMMA ReplyCallsGoes ==
  ASSUME SettledInv, NEW r \in Runs, NEW n, ReplyCalls(r, n)
  PROVE  Goes(r)
<1>1. PICK old, after, calls, e, more, f, g :
        /\ old = run[r] /\ after = run'[r] /\ calls = Calls(r, n)
        /\ e = Assistant(Turn(r), "said", SetOf(calls)) /\ more = <<e>>
        /\ f = old.fresh /\ g = Append(f, e)
  OBVIOUS
<1>2. IsOpen(run[r])
  BY DEF ReplyCalls, IsOpen
<1>3. RunTyped(r, old) /\ DOMAIN run = Runs /\ DOMAIN old = DOMAIN IdleRun
  BY <1>1, <1>2, OpenRun DEF SettledInv, Shapes, RunTyped
<1>4. run' = [run EXCEPT ![r].at = "tools", ![r].todo = calls,
                         ![r].fresh = Append(@, e)]
  BY <1>1 DEF ReplyCalls
<1>5. \A q \in Runs \ {r} : run'[q] = run[q]
  BY <1>3, <1>4
<1>6. after = [old EXCEPT !.at = "tools", !.todo = calls,
                          !.fresh = Append(@, e)]
  BY <1>1, <1>3, <1>4
<1>7. {"session", "base", "entries", "tried", "fresh"} \subseteq DOMAIN old
  BY <1>3 DEF IdleRun
<1>8. SameTurn(old, after) /\ after.fresh = g
  BY <1>1, <1>6, <1>7 DEF SameTurn
<1>9. IsSeq(f) /\ g = f \o more
  BY <1>1, <1>3, AppendIs DEF RunTyped
<1>10. IsSeq(more) /\ NoBlanks(more)
  BY <1>1, SaidIsNotBlank, OneUnblank
<1>11. after.fresh = old.fresh \o more
  BY <1>1, <1>8, <1>9
<1>12. old = run[r] /\ after = run'[r] /\ SameTurn(old, after)
  BY <1>1, <1>8
<1>13. QED
  BY <1>3, <1>5, <1>10, <1>11, <1>12, GoesBy

LEMMA RunToolsGoes ==
  ASSUME SteeringsApart, SettledInv, NEW r \in Runs,
         NEW n \in 1 .. Len(run[r].todo), RunTools(r, n)
  PROVE  Goes(r)
<1>1. PICK old, after, todo : old = run[r] /\ after = run'[r] /\ todo = old.todo
  OBVIOUS
<1>2. PICK calls, rest, more :
        /\ calls = Head2(todo, n) /\ more = Results(r, calls)
        /\ rest = SubSeq(todo, n + 1, Len(todo))
  OBVIOUS
<1>3. IsOpen(run[r])
  BY DEF RunTools, IsOpen
<1>4. RunTyped(r, old) /\ DOMAIN run = Runs /\ DOMAIN old = DOMAIN IdleRun
  BY <1>1, <1>3, OpenRun DEF SettledInv, Shapes, RunTyped
<1>5. PICK u : run' = [run EXCEPT ![r].todo = rest, ![r].unusable = u,
                                  ![r].fresh = @ \o more]
  BY <1>1, <1>2 DEF RunTools, Head2
<1>6. \A q \in Runs \ {r} : run'[q] = run[q]
  BY <1>4, <1>5
<1>7. after = [old EXCEPT !.todo = rest, !.unusable = u, !.fresh = @ \o more]
  BY <1>1, <1>4, <1>5
<1>8. {"session", "base", "entries", "tried", "fresh"} \subseteq DOMAIN old
  BY <1>4 DEF IdleRun
<1>9. SameTurn(old, after) /\ after.fresh = old.fresh \o more
  BY <1>7, <1>8 DEF SameTurn
<1>10. IsSeq(calls)
  <2>1. IsSeq(todo) /\ n \in 0 .. Len(todo)
    BY <1>1, <1>4, SeqFacts DEF RunTyped
  <2>2. IsSeq(SubSeq(todo, 1, n))
    BY <2>1, SubSeqSeq
  <2>3. QED
    BY <1>2, <2>2 DEF Head2
<1>11. IsSeq(more) /\ NoBlanks(more)
  BY <1>2, <1>10, ResultsUnblank
<1>12. QED
  BY <1>1, <1>4, <1>6, <1>9, <1>11, GoesBy

(* One field, where the run is.                                             *)
LEMMA MovesGoes ==
  ASSUME SettledInv, NEW r \in Runs, IsOpen(run[r]), NEW at,
         run' = [run EXCEPT ![r].at = at]
  PROVE  Goes(r)
<1>1. PICK old, after, none : /\ old = run[r] /\ after = run'[r]
                              /\ none = <<>>
  OBVIOUS
<1>2. RunTyped(r, old) /\ DOMAIN run = Runs /\ DOMAIN old = DOMAIN IdleRun
  BY <1>1, OpenRun DEF SettledInv, Shapes, RunTyped
<1>3. \A q \in Runs \ {r} : run'[q] = run[q]
  BY <1>2
<1>4. after = [old EXCEPT !.at = at]
  BY <1>1, <1>2
<1>5. {"session", "base", "entries", "tried", "fresh"} \subseteq DOMAIN old
  BY <1>2 DEF IdleRun
<1>6. SameTurn(old, after) /\ after.fresh = old.fresh
  BY <1>4, <1>5 DEF SameTurn
<1>7. IsSeq(none) /\ NoBlanks(none)
  BY <1>1, NothingSaid
<1>8. old = run[r] /\ after = run'[r]
  BY <1>1
<1>9. QED
  BY <1>2, <1>3, <1>6, <1>7, <1>8, GoesBy

LEMMA LeavesGoes ==
  ASSUME SettledInv, NEW r \in Runs, Conclude(r) \/ LeaveStep(r)
  PROVE  Goes(r)
<1>1. IsOpen(run[r])
  BY DEF Conclude, LeaveStep, IsOpen
<1>2. Onward(r) \/ \E outcome : Return(r, outcome, <<>>)
  BY DEF Conclude, LeaveStep, Onward
<1>3. QED
  BY <1>1, <1>2, ReturnGoes, NextStepGoes

LEMMA LoopGoes ==
  ASSUME SteeringsApart, SettledInv, NEW r \in Runs, Loop(r)
  PROVE  IsOpen(run[r]) /\ (Compact(r) \/ Goes(r))
<1>1. IsOpen(run[r])
  BY DEF Loop, IsOpen, NoticeStop, BeginStep, Compact, Ask, StepFails,
         ReplyInterrupted, ReplyCut, ReplyCalls, ReplyAnswer, Conclude,
         RunTools, GiveUp, ToolsStopped, ToolsDone, LeaveStep
<1>2. CASE NoticeStop(r) \/ GiveUp(r)
  <2>1. \E outcome : Return(r, outcome, <<>>)
    BY <1>2 DEF NoticeStop, GiveUp
  <2>2. QED
    BY <1>1, <2>1, ReturnGoes
<1>3. CASE BeginStep(r)
  BY <1>1, <1>3, BeginStepGoes
<1>4. CASE Ask(r)
  <2>1. run' = [run EXCEPT ![r].at = "asking"]
    BY <1>4 DEF Ask
  <2>2. QED
    BY <1>1, <2>1, MovesGoes
<1>5. CASE StepFails(r) \/ ToolsDone(r)
  <2>1. \E at, outcome : Settle(r, <<>>, at, outcome)
    BY <1>5 DEF StepFails, ToolsDone
  <2>2. QED
    BY <1>1, <2>1, SettleGoes, NothingSaid
<1>6. CASE ToolsStopped(r)
  <2>1. PICK calls, more : calls = run[r].todo /\ more = Results(r, calls)
    OBVIOUS
  <2>2. IsSeq(calls)
    BY <1>1, <2>1, OpenRun DEF RunTyped
  <2>3. IsSeq(more) /\ NoBlanks(more)
    BY <2>1, <2>2, ResultsUnblank
  <2>4. Settle(r, more, "settled", "cancelled")
    BY <1>6, <2>1 DEF ToolsStopped
  <2>5. QED
    BY <1>1, <2>3, <2>4, SettleGoes
<1>7. \A n \in {0} \cup CallCounts : n \in Nat
  BY ConstantsAssumption
<1>8. ASSUME NEW n \in {0} \cup CallCounts, NEW text,
             ReplyInterrupted(r, n, text)
      PROVE  Goes(r)
  BY <1>7, <1>8, ReplyInterruptedGoes
<1>9. ASSUME NEW n \in CallCounts, ReplyCut(r, n)
      PROVE  Goes(r)
  BY <1>7, <1>9, ReplyCutGoes
<1>10. ASSUME NEW n, ReplyCalls(r, n)
       PROVE  Goes(r)
  BY <1>10, ReplyCallsGoes
<1>11. ASSUME NEW text, ReplyAnswer(r, text)
       PROVE  Goes(r)
  BY <1>11, ReplyAnswerGoes
<1>12. ASSUME NEW n \in 1 .. Len(run[r].todo), RunTools(r, n)
       PROVE  Goes(r)
  BY <1>12, RunToolsGoes
<1>13. CASE Conclude(r) \/ LeaveStep(r)
  BY <1>1, <1>13, LeavesGoes
<1>14. CASE \/ \E n \in {0} \cup CallCounts : ReplyInterrupted(r, n, "said")
            \/ ReplyInterrupted(r, 0, "blank")
            \/ \E n \in CallCounts : ReplyCut(r, n) \/ ReplyCalls(r, n)
            \/ \E text \in {"said", "blank"} : ReplyAnswer(r, text)
            \/ \E n \in 1 .. Len(run[r].todo) : RunTools(r, n)
  BY <1>1, <1>8, <1>9, <1>10, <1>11, <1>12, <1>14
<1>15. QED
  BY <1>1, <1>2, <1>3, <1>4, <1>5, <1>6, <1>13, <1>14 DEF Loop

(* A summary is tried once in a turn.                                       *)
LEMMA CompactGoes ==
  ASSUME SettledInv, NEW r \in Runs, Compact(r)
  PROVE  /\ \A q \in Runs \ {r} : run'[q] = run[q]
         /\ ~MaySummarise(run'[r]) /\ run'[r].fresh = run[r].fresh
<1>1. PICK old, after : old = run[r] /\ after = run'[r]
  OBVIOUS
<1>2. IsOpen(run[r])
  BY DEF Compact, IsOpen
<1>3. RunTyped(r, old) /\ DOMAIN run = Runs /\ DOMAIN old = DOMAIN IdleRun
  BY <1>1, <1>2, OpenRun DEF SettledInv, Shapes, RunTyped
<1>4. {"base", "tried", "fresh"} \subseteq DOMAIN old
  BY <1>3 DEF IdleRun
<1>5. \/ run' = [run EXCEPT ![r].tried = TRUE]
      \/ \E b : run' = [run EXCEPT ![r].tried = TRUE, ![r].base = b]
  BY DEF Compact
<1>6. \A q \in Runs \ {r} : run'[q] = run[q]
  BY <1>3, <1>5
<1>7. CASE run' = [run EXCEPT ![r].tried = TRUE]
  <2>1. after = [old EXCEPT !.tried = TRUE]
    BY <1>1, <1>3, <1>7
  <2>2. after.tried = TRUE /\ after.fresh = old.fresh
    BY <1>4, <2>1
  <2>3. QED
    BY <1>1, <1>6, <2>2 DEF MaySummarise
<1>8. ASSUME NEW b, run' = [run EXCEPT ![r].tried = TRUE, ![r].base = b]
      PROVE  ~MaySummarise(run'[r]) /\ run'[r].fresh = run[r].fresh
  <2>1. after = [old EXCEPT !.tried = TRUE, !.base = b]
    BY <1>1, <1>3, <1>8
  <2>2. after.tried = TRUE /\ after.fresh = old.fresh
    BY <1>4, <2>1
  <2>3. QED
    BY <1>1, <2>2 DEF MaySummarise
<1>9. QED
  BY <1>5, <1>6, <1>7, <1>8

-----------------------------------------------------------------------------
(* Every step keeps what it should.                                         *)

Carries(old, after) ==
  MaySummarise(after) => /\ MaySummarise(old)
                         /\ after.session = old.session
                         /\ after.base = old.base
                         /\ after.entries = old.entries

(* A run that may still summarise had the same history, in a session that   *)
(* has only grown, or it has just been given its history.                   *)
ReplaysOn(q) ==
  \/ RunReplays(run'[q], store'[run'[q].session].log)
  \/ /\ Carries(run[q], run'[q])
     /\ MaySummarise(run'[q]) =>
          Extended(store[run[q].session].log, store'[run[q].session].log)

LEMMA KeptNow ==
  ASSUME KeptInv, \A s \in Sessions : LogKept(store'[s].log),
         \A q \in Runs : NoBlanks(run'[q].fresh),
         \A q \in Runs : ReplaysOn(q)
  PROVE  KeptInv'
<1>1. ASSUME NEW q \in Runs
      PROVE  RunReplays(run'[q], store'[run'[q].session].log)
  <2>1. PICK old, after, log, all :
          /\ old = run[q] /\ after = run'[q]
          /\ log = store[run[q].session].log
          /\ all = store'[run'[q].session].log
    OBVIOUS
  <2>2. CASE ~MaySummarise(after)
    BY <2>1, <2>2 DEF RunReplays
  <2>3. CASE RunReplays(after, all)
    BY <2>1, <2>3
  <2>4. CASE MaySummarise(after) /\ ~RunReplays(after, all)
    <3>1. /\ MaySummarise(old) /\ after.session = old.session
          /\ after.base = old.base /\ after.entries = old.entries
      BY <1>1, <2>1, <2>4 DEF ReplaysOn, Carries
    <3>2. Extended(log, all)
      BY <1>1, <2>1, <2>4, <3>1 DEF ReplaysOn
    <3>3. RunReplays(old, log)
      BY <1>1, <2>1 DEF KeptInv
    <3>4. RunReplays(after, all)
      BY <3>1, <3>2, <3>3, ReplaysStill
    <3>5. QED
      BY <2>4, <3>4
  <2>5. QED
    BY <2>2, <2>3, <2>4
<1>2. QED
  BY <1>1 DEF KeptInv

LEMMA GrownKept ==
  ASSUME KeptInv, NEW s \in Sessions, Extended(store[s].log, store'[s].log)
  PROVE  LogKept(store'[s].log)
<1>1. PICK log, all : log = store[s].log /\ all = store'[s].log
  OBVIOUS
<1>2. Extended(log, all) /\ LogKept(log)
  BY <1>1 DEF KeptInv
<1>3. LogKept(all)
  BY <1>2, KeptExtended
<1>4. QED
  BY <1>1, <1>3

(* One store has grown.                                                     *)
LEMMA OneGrown ==
  ASSUME SettledInv, NEW s \in Sessions, NEW new,
         store' = [store EXCEPT ![s] = new], Extended(store[s].log, new.log),
         NEW o \in Sessions
  PROVE  Extended(store[o].log, store'[o].log)
<1>1. PICK log, all : log = store[o].log /\ all = store'[o].log
  OBVIOUS
<1>2. Extended(log, all)
  <2>1. CASE o = s
    <3>1. store'[o] = new
      BY <2>1 DEF SettledInv, Shapes
    <3>2. QED
      BY <1>1, <2>1, <3>1
  <2>2. CASE o # s
    <3>1. store'[o] = store[o]
      BY <2>2 DEF SettledInv, Shapes
    <3>2. IsSeq(log)
      BY <1>1, SoundLog DEF SettledInv, LogsInv
    <3>3. QED
      BY <1>1, <3>1, <3>2, ExtendedByNothing
  <2>3. QED
    BY <2>1, <2>2
<1>3. QED
  BY <1>1, <1>2

LEMMA NoneGrown ==
  ASSUME SettledInv, UNCHANGED store, NEW o \in Sessions
  PROVE  Extended(store[o].log, store'[o].log)
<1>1. PICK log : log = store[o].log
  OBVIOUS
<1>2. IsSeq(log)
  BY <1>1, SoundLog DEF SettledInv, LogsInv
<1>3. Extended(log, log)
  BY <1>2, ExtendedByNothing
<1>4. QED
  BY <1>1, <1>3

(* Steps that only make logs longer.                                        *)
LEMMA LongerKept ==
  ASSUME SettledInv, KeptInv,
         \A s \in Sessions : Extended(store[s].log, store'[s].log),
         \A q \in Runs : NoBlanks(run'[q].fresh),
         \A q \in Runs : Carries(run[q], run'[q])
  PROVE  KeptInv'
<1>1. \A s \in Sessions : LogKept(store'[s].log)
  BY GrownKept
<1>2. ASSUME NEW q \in Runs
      PROVE  ReplaysOn(q)
  <2>1. MaySummarise(run'[q]) => IsOpen(run[q])
    BY <1>2 DEF Carries, MaySummarise
  <2>2. IsOpen(run[q]) => run[q].session \in Sessions
    BY <1>2, OpenRun
  <2>3. QED
    BY <1>2, <2>1, <2>2 DEF ReplaysOn
<1>3. QED
  BY <1>1, <1>2, KeptNow

(* A run that stays as it is, or is no longer in a turn.                    *)
LEMMA CarriesSame ==
  ASSUME NEW old, NEW after,
         after = old \/ ~IsOpen(after)
  PROVE  Carries(old, after)
BY DEF Carries, MaySummarise

LEMMA GoesCarries ==
  ASSUME SettledInv, KeptInv, NEW r \in Runs, IsOpen(run[r]), Goes(r)
  PROVE  \A q \in Runs : NoBlanks(run'[q].fresh) /\ Carries(run[q], run'[q])
<1>1. ASSUME NEW q \in Runs
      PROVE  NoBlanks(run'[q].fresh) /\ Carries(run[q], run'[q])
  <2>1. PICK old, after : old = run[q] /\ after = run'[q]
    OBVIOUS
  <2>2. NoBlanks(old.fresh)
    BY <1>1, <2>1 DEF KeptInv
  <2>3. CASE q = r
    <3>1. SameTurn(old, after) /\ IsOpen(old) /\ NoBlanks(after.fresh)
      BY <2>1, <2>2, <2>3 DEF Goes
    <3>2. Carries(old, after)
      BY <3>1 DEF Carries, MaySummarise, SameTurn
    <3>3. QED
      BY <2>1, <3>1, <3>2
  <2>4. CASE q # r
    <3>1. after = old
      BY <1>1, <2>1, <2>4 DEF Goes
    <3>2. QED
      BY <2>1, <2>2, <3>1, CarriesSame
  <2>5. QED
    BY <2>3, <2>4
<1>2. QED
  BY <1>1

(* Runs that begin, or are no longer in a turn.                             *)
IsSilent(call) == ~IsOpen(call) /\ NoBlanks(call.fresh)

LEMMA GoneIsSilent ==
  ASSUME NEW call, call = [IdleRun EXCEPT !.at = "gone"]
  PROVE  IsSilent(call)
<1>1. PICK at, none : at = "gone" /\ none = <<>>
  OBVIOUS
<1>2. call.at = at /\ call.fresh = none
  BY <1>1 DEF IdleRun
<1>3. NoBlanks(none)
  BY <1>1, NothingSaid
<1>4. ~IsOpen(call)
  BY <1>1, <1>2 DEF IsOpen
<1>5. QED
  BY <1>2, <1>3, <1>4 DEF IsSilent

LEMMA SilentCarries ==
  ASSUME KeptInv, \A q \in Runs : run'[q] = run[q] \/ IsSilent(run'[q])
  PROVE  \A q \in Runs : NoBlanks(run'[q].fresh) /\ Carries(run[q], run'[q])
<1>1. ASSUME NEW q \in Runs
      PROVE  NoBlanks(run'[q].fresh) /\ Carries(run[q], run'[q])
  <2>1. PICK old, after : old = run[q] /\ after = run'[q]
    OBVIOUS
  <2>2. NoBlanks(old.fresh)
    BY <1>1, <2>1 DEF KeptInv
  <2>3. after = old \/ IsSilent(after)
    BY <1>1, <2>1
  <2>4. NoBlanks(after.fresh) /\ Carries(old, after)
    BY <2>2, <2>3, CarriesSame DEF IsSilent
  <2>5. QED
    BY <2>1, <2>4
<1>2. QED
  BY <1>1

LEMMA ForgetCarries ==
  ASSUME KeptInv, Forget
  PROVE  \A q \in Runs : NoBlanks(run'[q].fresh) /\ Carries(run[q], run'[q])
<1>1. \A q \in Runs : \/ run'[q] = run[q]
                      \/ run'[q] = [IdleRun EXCEPT !.at = "gone"]
  BY DEF Forget
<1>2. ASSUME NEW q \in Runs
      PROVE  run'[q] = run[q] \/ IsSilent(run'[q])
  <2>1. PICK after : after = run'[q]
    OBVIOUS
  <2>2. after = run[q] \/ after = [IdleRun EXCEPT !.at = "gone"]
    BY <1>1, <2>1
  <2>3. after = run[q] \/ IsSilent(after)
    BY <2>2, GoneIsSilent
  <2>4. QED
    BY <2>1, <2>3
<1>3. QED
  BY <1>2, SilentCarries

LEMMA DroppedCarries ==
  ASSUME SettledInv, KeptInv, NEW r \in Runs,
         run' = [run EXCEPT ![r] = [IdleRun EXCEPT !.at = "gone"]]
  PROVE  \A q \in Runs : NoBlanks(run'[q].fresh) /\ Carries(run[q], run'[q])
<1>1. PICK after : after = run'[r]
  OBVIOUS
<1>2. after = [IdleRun EXCEPT !.at = "gone"]
  BY <1>1 DEF SettledInv, Shapes
<1>3. IsSilent(after)
  BY <1>2, GoneIsSilent
<1>4. \A q \in Runs \ {r} : run'[q] = run[q]
  BY DEF SettledInv, Shapes
<1>5. QED
  BY <1>1, <1>3, <1>4, SilentCarries

LEMMA BeginCarries ==
  ASSUME SettledInv, KeptInv, NEW r \in Runs, NEW s, Begin(r, s)
  PROVE  \A q \in Runs : NoBlanks(run'[q].fresh) /\ Carries(run[q], run'[q])
<1>1. PICK old, after, f : old = run[r] /\ after = run'[r] /\ f = old.fresh
  OBVIOUS
<1>2. old.at = "new" /\ RunTyped(r, old)
  BY <1>1 DEF Begin, MayBegin, SettledInv, RunsInv
<1>3. run' = [run EXCEPT ![r].at = "begun"] /\ DOMAIN run = Runs
      /\ DOMAIN old = DOMAIN IdleRun
  BY <1>1, <1>2 DEF Begin, SettledInv, Shapes, RunTyped
<1>4. after.at = "begun" /\ after.fresh = f
  BY <1>1, <1>3 DEF IdleRun
<1>5. \A q \in Runs \ {r} : run'[q] = run[q]
  BY <1>3
<1>6. NoBlanks(f)
  BY <1>1 DEF KeptInv
<1>7. IsSilent(after)
  BY <1>4, <1>6 DEF IsSilent, IsOpen
<1>8. QED
  BY <1>1, <1>5, <1>7, SilentCarries

-----------------------------------------------------------------------------
(* What the steps write.                                                    *)

LEMMA SettleExtends ==
  ASSUME SettledInv, SettledInv', NEW r \in Runs, IsOpen(run[r]),
         NoBlanks(run'[r].fresh),
         NEW more, NEW at, NEW outcome, Settle(r, more, at, outcome)
  PROVE  \A o \in Sessions : Extended(store[o].log, store'[o].log)
<1>1. PICK s, ms : Settles(r, s, ms) /\ s \in Sessions
  BY SettleSays DEF Settles
<1>2. PICK st, new, after : /\ st = store[s] /\ new = Say(st, ms)
                            /\ after = run'[r]
  OBVIOUS
<1>3. Sound(st) /\ RunTyped(r, after) /\ NoBlanks(after.fresh)
  BY <1>1, <1>2 DEF SettledInv, LogsInv, RunsInv
<1>4. /\ IsSeq(ms) /\ store' = [store EXCEPT ![s] = new]
      /\ \A j \in DOMAIN ms : \E i \in DOMAIN after.fresh :
           ms[j] = after.fresh[i]
  BY <1>1, <1>2 DEF Settles
<1>5. NoBlanks(ms) /\ \A j \in DOMAIN ms : ms[j].kind # "summary"
  BY <1>3, <1>4 DEF RunTyped, NoBlanks
<1>6. Extended(st.log, new.log)
  BY <1>2, <1>3, <1>4, <1>5, SayExtends
<1>7. QED
  BY <1>1, <1>2, <1>4, <1>6, OneGrown

LEMMA MarkExtends ==
  ASSUME SettledInv, NEW r \in Runs, IsOpen(run[r]),
         \/ Write(r, StartStep(Own(r), Turn(r)))
         \/ Write(r, EndStep(Own(r), Turn(r)))
  PROVE  \A o \in Sessions : Extended(store[o].log, store'[o].log)
<1>1. PICK s, st, t : s = run[r].session /\ st = store[s] /\ t = run[r].turn
  OBVIOUS
<1>2. s \in Sessions /\ Sound(st)
  BY <1>1, OpenRun
<1>3. PICK kind \in {"stepStart", "stepEnd"} :
        store' = [store EXCEPT ![s] = Logged(st, Event(kind, t, "said", {}))]
  BY <1>1 DEF Write, StartStep, EndStep, Own, Turn
<1>4. PICK e, new : e = Event(kind, t, "said", {}) /\ new = Logged(st, e)
  OBVIOUS
<1>5. e.kind \notin {"summary", "assistant"}
  BY <1>4 DEF Event
<1>6. Extended(st.log, new.log)
  BY <1>2, <1>4, <1>5, LoggedExtends
<1>7. QED
  BY <1>1, <1>2, <1>3, <1>4, <1>6, OneGrown

LEMMA CloseTurnExtends ==
  ASSUME SettledInv, NEW r \in Runs, CloseTurn(r)
  PROVE  \A o \in Sessions : Extended(store[o].log, store'[o].log)
<1>1. PICK old, s, st, t, reason :
        /\ old = run[r] /\ s = old.session /\ st = store[s] /\ t = old.turn
        /\ reason = IF old.outcome = "ok" THEN "complete" ELSE old.outcome
  OBVIOUS
<1>2. old.at = "closed" /\ IsOpen(old)
  BY <1>1 DEF CloseTurn, IsOpen
<1>3. /\ s \in Sessions /\ Sound(st) /\ RunLogged(old, st) /\ RunTyped(r, old)
  BY <1>1, <1>2, OpenRun
<1>4. reason \in Reason /\ t \in DOMAIN st.turns
  BY <1>1, <1>2, <1>3 DEF RunTyped, RunLogged, Reason
<1>5. PICK new : new = EndTurn(st, t, reason)
  OBVIOUS
<1>6. Extended(st.log, new.log)
  BY <1>3, <1>4, <1>5, EndTurnExtends
<1>7. store' = [store EXCEPT ![s] = new]
  BY <1>1, <1>5 DEF CloseTurn, Write, Own, Turn
<1>8. QED
  BY <1>1, <1>3, <1>6, <1>7, OneGrown

LEMMA LoopKept ==
  ASSUME SteeringsApart, SettledInv, SettledInv', KeptInv, NEW r \in Runs,
         Loop(r), ~Compact(r)
  PROVE  KeptInv'
<1>1. IsOpen(run[r]) /\ Goes(r)
  BY LoopGoes
<1>2. \A q \in Runs : NoBlanks(run'[q].fresh) /\ Carries(run[q], run'[q])
  BY <1>1, GoesCarries
<1>3. \A o \in Sessions : Extended(store[o].log, store'[o].log)
  <2>1. CASE UNCHANGED store
    BY <2>1, NoneGrown
  <2>2. CASE \/ Write(r, StartStep(Own(r), Turn(r)))
             \/ Write(r, EndStep(Own(r), Turn(r)))
    BY <1>1, <2>2, MarkExtends
  <2>3. ASSUME NEW more, NEW at, NEW outcome, Settle(r, more, at, outcome)
        PROVE  \A o \in Sessions : Extended(store[o].log, store'[o].log)
    BY <1>1, <1>2, <2>3, SettleExtends
  <2>4. QED
    BY <2>1, <2>2, <2>3, LoopWrites
<1>4. QED
  BY <1>2, <1>3, LongerKept

LEMMA CloseInboxKept ==
  ASSUME SettledInv, KeptInv, NEW r \in Runs, CloseInbox(r)
  PROVE  KeptInv'
<1>1. IsOpen(run[r]) /\ UNCHANGED store
      /\ \E at : run' = [run EXCEPT ![r].at = at]
  BY DEF CloseInbox, IsOpen
<1>2. Goes(r)
  BY <1>1, MovesGoes
<1>3. \A q \in Runs : NoBlanks(run'[q].fresh) /\ Carries(run[q], run'[q])
  BY <1>1, <1>2, GoesCarries
<1>4. QED
  BY <1>1, <1>3, NoneGrown, LongerKept

LEMMA CloseTurnKept ==
  ASSUME SettledInv, KeptInv, NEW r \in Runs, CloseTurn(r)
  PROVE  KeptInv'
<1>1. run' = [run EXCEPT ![r] = [IdleRun EXCEPT !.at = "gone"]]
  BY DEF CloseTurn
<1>2. \A q \in Runs : NoBlanks(run'[q].fresh) /\ Carries(run[q], run'[q])
  BY <1>1, DroppedCarries
<1>3. QED
  BY <1>2, CloseTurnExtends, LongerKept

LEMMA BeginFailsKept ==
  ASSUME SettledInv, KeptInv, NEW r \in Runs, BeginFails(r)
  PROVE  KeptInv'
<1>1. /\ run' = [run EXCEPT ![r] = [IdleRun EXCEPT !.at = "gone"]]
      /\ UNCHANGED store
  BY DEF BeginFails, Dropped
<1>2. \A q \in Runs : NoBlanks(run'[q].fresh) /\ Carries(run[q], run'[q])
  BY <1>1, DroppedCarries
<1>3. QED
  BY <1>1, <1>2, NoneGrown, LongerKept

LEMMA BeginKept ==
  ASSUME SettledInv, KeptInv, NEW r \in Runs, NEW s, Begin(r, s)
  PROVE  KeptInv'
<1>1. UNCHANGED store
  BY DEF Begin
<1>2. \A q \in Runs : NoBlanks(run'[q].fresh) /\ Carries(run[q], run'[q])
  BY BeginCarries
<1>3. QED
  BY <1>1, <1>2, NoneGrown, LongerKept

LEMMA ViewKept ==
  ASSUME SteeringsApart, SettledInv, KeptInv, NEW s \in Sessions, View(s)
  PROVE  KeptInv'
<1>1. PICK st, new : st = store[s] /\ new = Repaired(st)
  OBVIOUS
<1>2. Sound(st)
  BY <1>1 DEF SettledInv, LogsInv
<1>3. Extended(st.log, new.log)
  BY <1>1, <1>2, RepairedExtends
<1>4. store' = [store EXCEPT ![s] = new] /\ UNCHANGED run
  BY <1>1 DEF View, SettledInv, Shapes
<1>5. \A q \in Runs : NoBlanks(run'[q].fresh) /\ Carries(run[q], run'[q])
  BY <1>4, SilentCarries
<1>6. \A o \in Sessions : Extended(store[o].log, store'[o].log)
  BY <1>1, <1>3, <1>4, OneGrown
<1>7. QED
  BY <1>5, <1>6, LongerKept

LEMMA OpenFailsKept ==
  ASSUME SteeringsApart, SettledInv, KeptInv, NEW r \in Runs,
         NEW said \in BOOLEAN, OpenFails(r, said)
  PROVE  KeptInv'
<1>1. PICK s \in Sessions :
        store' = [store EXCEPT ![s] =
          LET t == Len(Repaired(store[s]).turns) + 1
              opening == StartTurn(Repaired(store[s]), t)
          IN  IF said THEN Say(opening, <<User(t, "prompt")>>) ELSE opening]
  BY DEF OpenFails
<1>2. PICK st, mid, t, open, prompted, new :
        /\ st = store[s] /\ mid = Repaired(st) /\ t = Len(mid.turns) + 1
        /\ open = StartTurn(mid, t) /\ prompted = Say(open, <<User(t, "prompt")>>)
        /\ new = IF said THEN prompted ELSE open
  OBVIOUS
<1>3. Sound(st)
  BY <1>2 DEF SettledInv, LogsInv
<1>4. Extended(st.log, mid.log) /\ Extended(mid.log, new.log)
  BY <1>2, <1>3, OpenedExtends
<1>5. Extended(st.log, new.log)
  BY <1>4, ExtendedTwice
<1>6. store' = [store EXCEPT ![s] = new]
  BY <1>1, <1>2
<1>7. \A o \in Sessions : Extended(store[o].log, store'[o].log)
  BY <1>2, <1>5, <1>6, OneGrown
<1>8. run' = [run EXCEPT ![r] = [IdleRun EXCEPT !.at = "gone"]]
  BY DEF OpenFails, Dropped
<1>9. \A q \in Runs : NoBlanks(run'[q].fresh) /\ Carries(run[q], run'[q])
  BY <1>8, DroppedCarries
<1>10. QED
  BY <1>7, <1>9, LongerKept

LEMMA CrashWhileOpeningKept ==
  ASSUME SteeringsApart, SettledInv, KeptInv, NEW r \in Runs,
         CrashWhileOpening(r)
  PROVE  KeptInv'
<1>1. PICK s \in Sessions :
        store' = [store EXCEPT ![s] =
          StartTurn(Repaired(store[s]), Len(Repaired(store[s]).turns) + 1)]
  BY DEF CrashWhileOpening
<1>2. PICK st, mid, t, open, said :
        /\ st = store[s] /\ mid = Repaired(st) /\ t = Len(mid.turns) + 1
        /\ open = StartTurn(mid, t) /\ said = Say(open, <<User(t, "prompt")>>)
  OBVIOUS
<1>3. Sound(st)
  BY <1>2 DEF SettledInv, LogsInv
<1>4. Extended(st.log, open.log)
  BY <1>2, <1>3, OpenedExtends, ExtendedTwice
<1>5. store' = [store EXCEPT ![s] = open]
  BY <1>1, <1>2
<1>6. \A o \in Sessions : Extended(store[o].log, store'[o].log)
  BY <1>2, <1>4, <1>5, OneGrown
<1>7. Forget
  BY DEF CrashWhileOpening
<1>8. QED
  BY <1>6, <1>7, ForgetCarries, LongerKept

(* Steps that write nothing and leave the runs as they are, or forget them. *)
LEMMA NothingWritten ==
  ASSUME SettledInv, KeptInv, UNCHANGED store, UNCHANGED run \/ Forget
  PROVE  KeptInv'
<1>1. \A q \in Runs : NoBlanks(run'[q].fresh) /\ Carries(run[q], run'[q])
  BY SilentCarries, ForgetCarries
<1>2. QED
  BY <1>1, NoneGrown, LongerKept

(* A fork starts with part of another session's log.                        *)
LEMMA ForkKept ==
  ASSUME SteeringsApart, SettledInv, KeptInv, NEW s \in Sessions,
         NEW new \in Sessions, NEW at \in DOMAIN store[s].log, Fork(s, at, new)
  PROVE  KeptInv'
<1>1. PICK st, mid, copy, log, part, n :
        /\ st = store[s] /\ mid = Forked(st, at) /\ copy = Repaired(mid)
        /\ log = st.log /\ n = at - 1 /\ part = SubSeq(log, 1, n)
  OBVIOUS
<1>2. Sound(st) /\ at \in DOMAIN st.log /\ LogKept(log)
  BY <1>1 DEF SettledInv, LogsInv, KeptInv
<1>3. /\ IsSeq(log) /\ Len(log) \in Nat /\ DOMAIN log = 1 .. Len(log)
      /\ n \in Nat /\ n <= Len(log) /\ n \in 0 .. Len(log)
      /\ n + 1 \in DOMAIN log
  BY <1>1, <1>2, SoundLog
<1>4. mid = Projected(part)
  BY <1>1, Zenon DEF Forked
<1>5. LogSound(part)
  BY <1>1, <1>2, <1>3, PrefixSound, Zenon DEF Sound
<1>6. mid.log = part
  BY <1>4, <1>5, ProjectedSound
<1>7. LogKept(part)
  <2>1. /\ IsSeq(part) /\ Len(part) = IF 1 <= n THEN n - 1 + 1 ELSE 0
        /\ \A i \in 1 .. n - 1 + 1 : part[i] = log[1 + i - 1]
    BY <1>1, <1>3, SubSeqSeq
  <2>2. DOMAIN part = 1 .. n /\ \A i \in 1 .. n : part[i] = log[i]
    BY <1>3, <2>1, SubSeqFromOne
  <2>3. Len(part) = n /\ \A i \in 1 .. n : i \in DOMAIN log
    BY <1>3, <2>1
  <2>4. QED
    BY <1>2, <1>3, <2>2, <2>3, KeptPrefix
<1>8. Sound(mid)
  BY <1>1, <1>2, ForkedSound
<1>9. LogKept(copy.log)
  <2>1. Extended(mid.log, copy.log)
    BY <1>1, <1>8, RepairedExtends
  <2>2. PICK all : all = copy.log
    OBVIOUS
  <2>3. LogKept(all)
    BY <1>6, <1>7, <2>1, <2>2, KeptExtended
  <2>4. QED
    BY <2>2, <2>3
<1>10. store' = [store EXCEPT ![new] = copy] /\ UNCHANGED run
       /\ new \notin sessions
  BY <1>1 DEF Fork
<1>11. /\ store'[new] = copy
       /\ \A o \in Sessions \ {new} : store'[o] = store[o]
  BY <1>10 DEF SettledInv, Shapes
<1>12. \A o \in Sessions : LogKept(store'[o].log)
  BY <1>9, <1>11 DEF KeptInv
<1>13. \A q \in Runs : NoBlanks(run'[q].fresh) /\ Carries(run[q], run'[q])
  BY <1>10, SilentCarries
<1>14. ASSUME NEW q \in Runs
       PROVE  ReplaysOn(q)
  <2>1. SUFFICES ASSUME MaySummarise(run'[q])
        PROVE  Extended(store[run[q].session].log, store'[run[q].session].log)
    BY <1>13 DEF ReplaysOn
  <2>2. IsOpen(run[q])
    BY <1>10, <2>1 DEF MaySummarise
  <2>3. PICK o, all : o = run[q].session /\ all = store[o].log
    OBVIOUS
  <2>4. o \in sessions /\ o \in Sessions /\ Sound(store[o])
    BY <2>2, <2>3, OpenRun
  <2>5. store'[o] = store[o]
    BY <1>10, <1>11, <2>4
  <2>6. IsSeq(all)
    BY <2>3, <2>4, SoundLog
  <2>7. Extended(all, all)
    BY <2>6, ExtendedByNothing
  <2>8. QED
    BY <2>3, <2>5, <2>7
<1>15. QED
  BY <1>12, <1>13, <1>14, KeptNow

(* A turn is opened with what its session's rows replay.                    *)
LEMMA OpenTurnKept ==
  ASSUME SteeringsApart, SettledInv, RowsInv, KeptInv, NEW r \in Runs,
         NEW say \in BOOLEAN, OpenTurn(r, say)
  PROVE  KeptInv'
<1>1. PICK s \in Sessions : Opened(r, s, Repaired(store[s]), say)
  BY DEF OpenTurn
<1>2. PICK st, mid, t, open, said, new, p :
        /\ st = store[s] /\ mid = Repaired(st) /\ t = Len(mid.turns) + 1
        /\ open = StartTurn(mid, t) /\ said = Say(open, <<User(t, "prompt")>>)
        /\ new = IF say THEN said ELSE open
        /\ p = IF say THEN <<Len(open.log) + 1>> ELSE <<>>
  OBVIOUS
<1>3. PICK entries, base, after :
        /\ entries = Entries(mid) /\ base = History(mid) \o p
        /\ after = run'[r]
  OBVIOUS
<1>4. /\ store' = [store EXCEPT ![s] = new]
      /\ run' = [run EXCEPT ![r] =
           [IdleRun EXCEPT
              !.at = "step", !.session = s, !.turn = t, !.step = 1,
              !.entries = entries, !.base = base]]
  <2>1. Opened(r, s, mid, say)
    BY <1>1, <1>2
  <2>2. CASE say
    BY <1>2, <1>3, <2>1, <2>2 DEF Opened
  <2>3. CASE ~say
    BY <1>2, <1>3, <2>1, <2>3 DEF Opened
  <2>4. QED
    BY <2>2, <2>3
<1>5. PICK none : none = <<>>
  OBVIOUS
<1>6. /\ after.session = s /\ after.entries = entries /\ after.base = base
      /\ after.fresh = none
  BY <1>3, <1>4, <1>5 DEF IdleRun, SettledInv, Shapes
<1>7. /\ \A q \in Runs \ {r} : run'[q] = run[q]
      /\ store'[s] = new
  BY <1>4 DEF SettledInv, Shapes
<1>8. Sound(st) /\ RowsTell(st) /\ LogKept(st.log)
  BY <1>2 DEF SettledInv, LogsInv, RowsInv, KeptInv
<1>9. Sound(mid) /\ RowsTell(mid)
  BY <1>2, <1>8, RepairedSound, RepairedTells
<1>10. Extended(st.log, mid.log) /\ Extended(mid.log, new.log)
  BY <1>2, <1>8, OpenedExtends
<1>11. Extended(st.log, new.log)
  BY <1>10, ExtendedTwice
<1>12. \A o \in Sessions : Extended(store[o].log, store'[o].log)
  BY <1>2, <1>4, <1>11, OneGrown
<1>13. NoBlanks(mid.log)
  BY <1>8, <1>10, KeptExtended DEF LogKept
<1>14. IsSeq(p) /\ Len(p) <= 1
  BY <1>2, EmptyIsSeq, SingleSeq
<1>15. RunReplays(after, new.log)
  BY <1>3, <1>6, <1>9, <1>10, <1>13, <1>14, OpenedReplays
<1>16. \A q \in Runs : NoBlanks(run'[q].fresh)
  <2>1. NoBlanks(none)
    BY <1>5, NothingSaid
  <2>2. QED
    BY <1>3, <1>6, <1>7, <2>1 DEF KeptInv
<1>17. ASSUME NEW q \in Runs
       PROVE  ReplaysOn(q)
  <2>1. CASE q = r
    <3>1. RunReplays(run'[r], store'[run'[r].session].log)
      BY <1>3, <1>6, <1>7, <1>15
    <3>2. QED
      BY <2>1, <3>1 DEF ReplaysOn
  <2>2. CASE q # r
    <3>1. run'[q] = run[q]
      BY <1>7, <2>2
    <3>2. Carries(run[q], run'[q])
      BY <3>1 DEF Carries
    <3>3. MaySummarise(run'[q]) => IsOpen(run[q])
      BY <3>1 DEF MaySummarise
    <3>4. QED
      BY <1>12, <3>2, <3>3, OpenRun DEF ReplaysOn
  <2>3. QED
    BY <2>1, <2>2
<1>18. \A o \in Sessions : LogKept(store'[o].log)
  BY <1>12, GrownKept
<1>19. QED
  BY <1>16, <1>17, <1>18, KeptNow

-----------------------------------------------------------------------------
(* A summary is made from what it takes the place of.                       *)

(* What the first k messages of the base are, summaries told apart.         *)
CoversOf(log, base, k) ==
  LET gone == SubSeq(base, 1, k)
      Inside(i) == IF log[i].kind = "summary" THEN log[i].covers ELSE {i}
  IN  UNION {Inside(gone[j]) : j \in DOMAIN gone}

LEMMA CoversAre ==
  ASSUME NEW log, NEW base, IsSeq(base), NEW k \in 1 .. Len(base) - 1,
         NEW j \in 1 .. k, NEW i, i = base[j]
  PROVE  IF log[i].kind = "summary"
         THEN log[i].covers \subseteq CoversOf(log, base, k)
         ELSE i \in CoversOf(log, base, k)
<1>1. Len(base) \in Nat
  BY SeqFacts
<1>2. PICK gone : gone = SubSeq(base, 1, k)
  OBVIOUS
<1>3. k \in 0 .. Len(base) /\ k - 1 + 1 = k /\ j + 1 - 1 = j
  BY <1>1
<1>4. /\ Len(gone) = IF 1 <= k THEN k - 1 + 1 ELSE 0
      /\ DOMAIN gone = 1 .. Len(gone)
      /\ \A x \in 1 .. k - 1 + 1 : gone[x] = base[1 + x - 1]
  BY <1>2, <1>3, SubSeqSeq
<1>5. j \in DOMAIN gone /\ gone[j] = i
  BY <1>3, <1>4
<1>6. (IF log[i].kind = "summary" THEN log[i].covers ELSE {i})
        \subseteq CoversOf(log, base, k)
  BY <1>2, <1>5 DEF CoversOf
<1>7. QED
  BY <1>6

LEMMA CompactWrites ==
  ASSUME SettledInv, KeptInv, NEW r \in Runs, Compact(r), ~UNCHANGED store,
         NEW s, s = run[r].session, NEW log, log = store[s].log,
         NEW base, base = run[r].base
  PROVE  \E k, e :
           /\ k \in 1 .. Len(base) - 1
           /\ store' = [store EXCEPT ![s] = Summarise(store[s], e)]
           /\ e = Summary(Turn(r), ShadowedThrough(run[r].entries, k),
                          CoversOf(log, base, k))
<1>1. PICK ms : ms = Base(r)
  OBVIOUS
<1>2. PICK end, k :
        /\ end \in CompactionEnds(ms) /\ k \in Summarised(ms, end)
        /\ Write(r, Summarise(Own(r), Summary(Turn(r),
                      ShadowedThrough(run[r].entries, k),
                      CoversOf(Own(r).log, run[r].base, k))))
  <2>1. PICK end \in CompactionEnds(Base(r)) :
          \E k \in Summarised(Base(r), end) :
            Write(r, Summarise(Own(r), Summary(Turn(r),
                       ShadowedThrough(run[r].entries, k),
                       CoversOf(Own(r).log, run[r].base, k))))
    BY Zenon DEF Compact, CoversOf
  <2>2. QED
    BY <1>1, <2>1
<1>3. MaySummarise(run[r])
  BY DEF Compact, MaySummarise, IsOpen
<1>4. IsSeq(base)
  BY <1>3 DEF KeptInv, RunReplays
<1>5. PICK n : n = Len(base)
  OBVIOUS
<1>6. n \in Nat /\ DOMAIN base = 1 .. n
  BY <1>4, <1>5, SeqFacts
<1>7. ms = [x \in 1 .. n |-> Own(r).log[base[x]]]
  BY <1>1, <1>6 DEF Base
<1>8. DOMAIN ms = 1 .. n /\ ms = [x \in 1 .. n |-> ms[x]]
  BY <1>7
<1>9. Len(ms) = n
  BY <1>6, <1>8, FunSeq
<1>10. end \in 1 .. n - 1 /\ k \in 1 .. end
  BY <1>2, <1>9 DEF CompactionEnds, Summarised
<1>11. k \in 1 .. Len(base) - 1
  BY <1>5, <1>6, <1>10
<1>12. PICK e : e = Summary(Turn(r), ShadowedThrough(run[r].entries, k),
                            CoversOf(log, base, k))
  OBVIOUS
<1>13. store' = [store EXCEPT ![s] = Summarise(store[s], e)]
  BY <1>2, <1>12 DEF Write, Own
<1>14. QED
  BY <1>11, <1>12, <1>13

LEMMA SummaryKept ==
  ASSUME SettledInv, KeptInv, NEW r \in Runs, Compact(r), ~UNCHANGED store,
         NEW s \in Sessions, s = run[r].session
  PROVE  /\ LogKept(store'[s].log)
         /\ \A o \in Sessions \ {s} : store'[o] = store[o]
<1>1. PICK st, log, base, old :
        /\ st = store[s] /\ log = st.log /\ old = run[r] /\ base = old.base
  OBVIOUS
<1>2. PICK k, e :
        /\ k \in 1 .. Len(base) - 1
        /\ store' = [store EXCEPT ![s] = Summarise(store[s], e)]
        /\ e = Summary(Turn(r), ShadowedThrough(run[r].entries, k),
                       CoversOf(log, base, k))
  BY <1>1, CompactWrites
<1>3. PICK t, cutoff, covers :
        /\ t = Turn(r) /\ cutoff = ShadowedThrough(old.entries, k)
        /\ covers = CoversOf(log, base, k)
  OBVIOUS
<1>4. e = Summary(t, cutoff, covers)
  BY <1>1, <1>2, <1>3
<1>5. e.kind = "summary" /\ e.cutoff = cutoff /\ e.covers = covers
  BY <1>4 DEF Summary, Event
<1>6. PICK new, all : new = Summarise(st, e) /\ all = new.log
  OBVIOUS
<1>7. Sound(st) /\ LogKept(log)
  BY <1>1 DEF SettledInv, LogsInv, KeptInv
<1>8. IsSeq(log) /\ all = log \o <<e>>
  <2>1. Grows(st, <<e>>, new)
    BY <1>6, <1>7, SummariseGrows
  <2>2. QED
    BY <1>1, <1>6, <1>7, <2>1, SoundLog DEF Grows
<1>9. MaySummarise(old) /\ RunReplays(old, log)
  BY <1>1 DEF Compact, MaySummarise, IsOpen, KeptInv
<1>10. IsSeq(base) /\ Takes(old, log, k)
  BY <1>1, <1>2, <1>9 DEF RunReplays
<1>11. ASSUME NEW i \in DOMAIN log, Shows(log, i),
              i <= e.cutoff \/ log[i].kind = "summary"
       PROVE  IF log[i].kind = "summary" THEN log[i].covers \subseteq e.covers
                                         ELSE i \in e.covers
  <2>1. PICK j \in 1 .. k : base[j] = i
    BY <1>1, <1>3, <1>5, <1>10, <1>11 DEF Takes
  <2>2. IF log[i].kind = "summary" THEN log[i].covers \subseteq covers
                                   ELSE i \in covers
    BY <1>1, <1>2, <1>3, <1>10, <2>1, CoversAre
  <2>3. QED
    BY <1>5, <2>2
<1>12. LogKept(all)
  BY <1>5, <1>7, <1>8, <1>11, KeptSummarised
<1>13. /\ store'[s] = new
       /\ \A o \in Sessions \ {s} : store'[o] = store[o]
  BY <1>1, <1>2, <1>6 DEF SettledInv, Shapes
<1>14. QED
  BY <1>6, <1>12, <1>13

LEMMA CompactKept ==
  ASSUME SettledInv, KeptInv, NEW r \in Runs, Compact(r),
         \A q \in Runs \ {r} : IsOpen(run[q]) =>
           Len(run[q].base) <= 1 \/ run[q].session # run[r].session
  PROVE  KeptInv'
<1>1. PICK s : s = run[r].session
  OBVIOUS
<1>2. s \in Sessions
  BY <1>1, OpenRun DEF Compact, IsOpen
<1>3. \A o \in Sessions \ {s} : store'[o] = store[o]
  BY <1>1, <1>2, SummaryKept
<1>4. \A o \in Sessions : LogKept(store'[o].log)
  <2>1. CASE UNCHANGED store
    BY <2>1 DEF KeptInv
  <2>2. CASE ~UNCHANGED store
    BY <1>1, <1>2, <2>2, SummaryKept DEF KeptInv
  <2>3. QED
    BY <2>1, <2>2
<1>5. /\ \A q \in Runs \ {r} : run'[q] = run[q]
      /\ ~MaySummarise(run'[r]) /\ run'[r].fresh = run[r].fresh
  BY CompactGoes
<1>6. \A q \in Runs : NoBlanks(run'[q].fresh)
  BY <1>5 DEF KeptInv
<1>7. ASSUME NEW q \in Runs
      PROVE  ReplaysOn(q)
  <2>1. CASE q = r
    <3>1. ~MaySummarise(run'[q])
      BY <1>5, <2>1
    <3>2. QED
      BY <3>1 DEF ReplaysOn, RunReplays
  <2>2. CASE q # r /\ Len(run[q].base) <= 1
    <3>1. PICK old, after, all : /\ old = run[q] /\ after = run'[q]
                                 /\ all = store'[run'[q].session].log
      OBVIOUS
    <3>2. after = old /\ RunReplays(old, store[run[q].session].log)
      BY <1>5, <2>2, <3>1 DEF KeptInv
    <3>3. MaySummarise(old) => IsSeq(old.base)
      BY <3>2 DEF RunReplays
    <3>4. IsSeq(old.base) => Len(old.base) \in Nat
      BY SeqFacts
    <3>5. RunReplays(after, all)
      BY <2>2, <3>1, <3>2, <3>3, <3>4 DEF RunReplays
    <3>6. QED
      BY <3>1, <3>5 DEF ReplaysOn
  <2>3. CASE q # r /\ ~(Len(run[q].base) <= 1)
    <3>1. run'[q] = run[q]
      BY <1>5, <2>3
    <3>2. Carries(run[q], run'[q])
      BY <3>1 DEF Carries
    <3>3. ASSUME MaySummarise(run'[q])
          PROVE  Extended(store[run[q].session].log, store'[run[q].session].log)
      <4>1. PICK o, all : o = run[q].session /\ all = store[o].log
        OBVIOUS
      <4>2. IsOpen(run[q])
        BY <3>1, <3>3 DEF MaySummarise
      <4>3. o \in Sessions \ {s} /\ Sound(store[o])
        BY <1>1, <2>3, <4>1, <4>2, OpenRun
      <4>4. store'[o] = store[o]
        BY <1>3, <4>3
      <4>5. Extended(all, all)
        BY <4>1, <4>3, SoundLog, ExtendedByNothing
      <4>6. QED
        BY <4>1, <4>4, <4>5
    <3>4. QED
      BY <3>2, <3>3 DEF ReplaysOn
  <2>4. QED
    BY <2>1, <2>2, <2>3
<1>8. QED
  BY <1>4, <1>6, <1>7, KeptNow

-----------------------------------------------------------------------------
(* Chats keep apart.                                                        *)

FitsName(call, name) ==
  IsOpen(call) => IF name = NoSession THEN Len(call.base) <= 1
                                      ELSE call.session = name

LEMMA ApartStep ==
  ASSUME ApartInv,
         \A s \in Sessions \ sessions' : s \notin sessions /\ store'[s] = store[s],
         \A r \in Runs : run'[r].at \notin {"new", "gone"} =>
           IsRegistered(r) /\ named'[r] = named[r],
         \A r \in Runs : FitsName(run'[r], named'[r])
  PROVE  ApartInv'
<1>1. \A s \in Sessions \ sessions' : store'[s] = EmptyStore
  BY DEF ApartInv
<1>2. \A r, q \in Runs :
        /\ run'[r].at \notin {"new", "gone"} /\ run'[q].at \notin {"new", "gone"}
        /\ r # q /\ named'[r] # NoSession
        => named'[r] # named'[q]
  BY DEF ApartInv
<1>3. QED
  BY <1>1, <1>2 DEF ApartInv, FitsName, IsRegistered

LEMMA OpenIsRegistered ==
  ASSUME NEW r \in Runs, IsOpen(run[r])
  PROVE  IsRegistered(r)
BY DEF IsOpen, IsRegistered

LEMMA FitsStill ==
  ASSUME ApartInv, NEW q \in Runs, run'[q] = run[q], named'[q] = named[q]
  PROVE  FitsName(run'[q], named'[q])
BY DEF ApartInv, FitsName

(* Runs that stay where they are, or leave.                                 *)
LEMMA StaysOrLeaves ==
  ASSUME ApartInv,
         \A s \in Sessions \ sessions' : s \notin sessions /\ store'[s] = store[s],
         \A q \in Runs : \/ run'[q] = run[q] /\ named'[q] = named[q]
                         \/ run'[q] = [IdleRun EXCEPT !.at = "gone"]
                         \/ run'[q] = run[q] /\ ~IsRegistered(q)
  PROVE  ApartInv'
<1>1. PICK gone, at : gone = [IdleRun EXCEPT !.at = at] /\ at = "gone"
  OBVIOUS
<1>2. gone.at = at
  BY <1>1 DEF IdleRun
<1>3. ~IsOpen(gone)
  BY <1>1, <1>2 DEF IsOpen
<1>4. \A q \in Runs : run'[q].at \notin {"new", "gone"} =>
        IsRegistered(q) /\ named'[q] = named[q]
  BY <1>1, <1>2 DEF IsRegistered
<1>5. ASSUME NEW q \in Runs
      PROVE  FitsName(run'[q], named'[q])
  <2>1. CASE run'[q] = run[q] /\ named'[q] = named[q]
    BY <2>1, FitsStill
  <2>2. CASE run'[q] = gone
    BY <1>3, <2>2 DEF FitsName
  <2>3. CASE run'[q] = run[q] /\ ~IsRegistered(q)
    BY <2>3 DEF FitsName, IsOpen, IsRegistered
  <2>4. QED
    BY <1>1, <2>1, <2>2, <2>3
<1>6. QED
  BY <1>4, <1>5, ApartStep

LEMMA GoesApart ==
  ASSUME ApartInv, NEW r \in Runs, IsOpen(run[r]), UNCHANGED <<sessions, named>>,
         \A q \in Runs \ {r} : run'[q] = run[q],
         run'[r].session = run[r].session,
         named[r] = NoSession => run'[r].base = run[r].base,
         \A s \in Sessions \ sessions : store'[s] = store[s]
  PROVE  ApartInv'
<1>1. FitsName(run'[r], named'[r])
  BY DEF ApartInv, FitsName
<1>2. \A q \in Runs : FitsName(run'[q], named'[q])
  BY <1>1, FitsStill
<1>3. \A q \in Runs : run'[q].at \notin {"new", "gone"} => IsRegistered(q)
  BY OpenIsRegistered DEF IsRegistered
<1>4. QED
  BY <1>2, <1>3, ApartStep

(* No step of the loop creates a session, or writes to one there is not.    *)
LEMMA LoopStores ==
  ASSUME SettledInv, NEW r \in Runs, Loop(r) \/ CloseInbox(r)
  PROVE  /\ UNCHANGED <<sessions, named>>
         /\ \A s \in Sessions \ sessions : store'[s] = store[s]
<1>1. UNCHANGED <<sessions, named>>
  BY DEF Loop, NoticeStop, BeginStep, Compact, Ask, StepFails,
         ReplyInterrupted, ReplyCut, ReplyCalls, ReplyAnswer, Conclude,
         RunTools, GiveUp, ToolsStopped, ToolsDone, LeaveStep, CloseInbox
<1>2. UNCHANGED store \/ \E st : IsOpen(run[r]) /\ Write(r, st)
  <2>1. CASE CloseInbox(r)
    BY <2>1 DEF CloseInbox
  <2>2. CASE Compact(r)
    BY <2>2 DEF Compact, IsOpen
  <2>3. CASE Loop(r) /\ ~Compact(r)
    BY <2>3, LoopWrites DEF Settle
  <2>4. QED
    BY <2>1, <2>2, <2>3
<1>3. CASE UNCHANGED store
  BY <1>1, <1>3
<1>4. ASSUME NEW st, IsOpen(run[r]), Write(r, st)
      PROVE  \A s \in Sessions \ sessions : store'[s] = store[s]
  <2>1. run[r].session \in sessions
    BY <1>4, OpenRun
  <2>2. QED
    BY <1>4, <2>1 DEF Write, SettledInv, Shapes
<1>5. QED
  BY <1>1, <1>2, <1>3, <1>4

(* What is summarised is of a chat that named its session: one in a new     *)
(* session has nothing to summarise.                                        *)
LEMMA CompactNamed ==
  ASSUME SettledInv, KeptInv, ApartInv, NEW r \in Runs, Compact(r)
  PROVE  /\ IsOpen(run[r]) /\ named[r] # NoSession
         /\ run'[r].session = run[r].session
<1>1. PICK ms, old, after, base, n :
        /\ ms = Base(r) /\ old = run[r] /\ after = run'[r]
        /\ base = old.base /\ n = Len(base)
  OBVIOUS
<1>2. IsOpen(old) /\ MaySummarise(old)
  BY <1>1 DEF Compact, IsOpen, MaySummarise
<1>3. RunReplays(old, store[run[r].session].log)
  BY <1>1 DEF KeptInv
<1>4. n \in Nat /\ DOMAIN base = 1 .. n
  BY <1>1, <1>2, <1>3, SeqFacts DEF RunReplays
<1>5. ms = [x \in 1 .. n |-> Own(r).log[base[x]]]
  BY <1>1, <1>4 DEF Base
<1>6. DOMAIN ms = 1 .. n /\ ms = [x \in 1 .. n |-> ms[x]]
  BY <1>5
<1>7. Len(ms) = n
  BY <1>4, <1>6, FunSeq
<1>8. PICK end : end \in CompactionEnds(ms)
  <2>1. \E end : end \in CompactionEnds(Base(r))
    BY Zenon DEF Compact
  <2>2. QED
    BY <1>1, <2>1
<1>9. end \in 1 .. n - 1
  BY <1>7, <1>8 DEF CompactionEnds
<1>10. ~(n <= 1)
  BY <1>4, <1>9
<1>11. named[r] # NoSession
  BY <1>1, <1>2, <1>10 DEF ApartInv
<1>12. DOMAIN run = Runs /\ DOMAIN old = DOMAIN IdleRun
  BY <1>1, <1>2, OpenRun DEF SettledInv, Shapes, RunTyped
<1>13. {"base", "tried", "session"} \subseteq DOMAIN old
  BY <1>12 DEF IdleRun
<1>14. \/ run' = [run EXCEPT ![r].tried = TRUE]
       \/ \E b : run' = [run EXCEPT ![r].tried = TRUE, ![r].base = b]
  BY DEF Compact
<1>15. \/ after = [old EXCEPT !.tried = TRUE]
       \/ \E b : after = [old EXCEPT !.tried = TRUE, !.base = b]
  BY <1>1, <1>12, <1>14
<1>16. after.session = old.session
  BY <1>13, <1>15
<1>17. QED
  BY <1>1, <1>2, <1>11, <1>16

LEMMA LoopApart ==
  ASSUME SteeringsApart, SettledInv, KeptInv, ApartInv, NEW r \in Runs,
         Loop(r)
  PROVE  ApartInv'
<1>1. IsOpen(run[r])
  BY LoopGoes
<1>2. /\ UNCHANGED <<sessions, named>>
      /\ \A s \in Sessions \ sessions : store'[s] = store[s]
  BY LoopStores
<1>3. /\ \A q \in Runs \ {r} : run'[q] = run[q]
      /\ run'[r].session = run[r].session
      /\ named[r] = NoSession => run'[r].base = run[r].base
  <2>1. CASE Compact(r)
    BY <2>1, CompactNamed, CompactGoes
  <2>2. CASE Goes(r)
    BY <2>2 DEF Goes, SameTurn
  <2>3. QED
    BY <2>1, <2>2, LoopGoes
<1>4. QED
  BY <1>1, <1>2, <1>3, GoesApart

LEMMA CloseInboxApart ==
  ASSUME SettledInv, ApartInv, NEW r \in Runs, CloseInbox(r)
  PROVE  ApartInv'
<1>1. IsOpen(run[r])
  BY DEF CloseInbox, IsOpen
<1>2. Goes(r)
  BY <1>1, MovesGoes DEF CloseInbox
<1>3. /\ \A q \in Runs \ {r} : run'[q] = run[q]
      /\ run'[r].session = run[r].session /\ run'[r].base = run[r].base
  BY <1>2 DEF Goes, SameTurn
<1>4. /\ UNCHANGED <<sessions, named>>
      /\ \A s \in Sessions \ sessions : store'[s] = store[s]
  BY LoopStores
<1>5. QED
  BY <1>1, <1>3, <1>4, GoesApart

(* Nothing is left of a run that ends, fails to begin, or goes down.        *)
LEMMA CloseTurnApart ==
  ASSUME SettledInv, ApartInv, NEW r \in Runs, CloseTurn(r)
  PROVE  ApartInv'
<1>1. IsOpen(run[r])
  BY DEF CloseTurn, IsOpen
<1>2. run[r].session \in sessions
  BY <1>1, OpenRun
<1>3. /\ UNCHANGED sessions
      /\ \E st : store' = [store EXCEPT ![run[r].session] = st]
  BY DEF CloseTurn, Write
<1>4. \A s \in Sessions \ sessions' : s \notin sessions /\ store'[s] = store[s]
  BY <1>2, <1>3 DEF SettledInv, Shapes
<1>5. /\ run' = [run EXCEPT ![r] = [IdleRun EXCEPT !.at = "gone"]]
      /\ named' = [named EXCEPT ![r] = NoSession]
  BY DEF CloseTurn
<1>6. \A q \in Runs : \/ run'[q] = run[q] /\ named'[q] = named[q]
                      \/ run'[q] = [IdleRun EXCEPT !.at = "gone"]
  BY <1>5 DEF SettledInv, Shapes
<1>7. QED
  BY <1>4, <1>6, StaysOrLeaves

LEMMA BeginFailsApart ==
  ASSUME SettledInv, ApartInv, NEW r \in Runs, BeginFails(r)
  PROVE  ApartInv'
<1>1. UNCHANGED <<sessions, store>>
  BY DEF BeginFails
<1>2. /\ run' = [run EXCEPT ![r] = [IdleRun EXCEPT !.at = "gone"]]
      /\ named' = [named EXCEPT ![r] = NoSession]
  BY DEF BeginFails, Dropped
<1>3. \A q \in Runs : \/ run'[q] = run[q] /\ named'[q] = named[q]
                      \/ run'[q] = [IdleRun EXCEPT !.at = "gone"]
  BY <1>2 DEF SettledInv, Shapes
<1>4. QED
  BY <1>1, <1>3, StaysOrLeaves

LEMMA OpenFailsApart ==
  ASSUME SettledInv, ApartInv, NEW r \in Runs, NEW said \in BOOLEAN,
         OpenFails(r, said)
  PROVE  ApartInv'
<1>1. \E s, st :
        /\ sessions' = sessions \cup {s} /\ store' = [store EXCEPT ![s] = st]
  BY DEF OpenFails
<1>2. \A s \in Sessions \ sessions' : s \notin sessions /\ store'[s] = store[s]
  BY <1>1 DEF SettledInv, Shapes
<1>3. /\ run' = [run EXCEPT ![r] = [IdleRun EXCEPT !.at = "gone"]]
      /\ named' = [named EXCEPT ![r] = NoSession]
  BY DEF OpenFails, Dropped
<1>4. \A q \in Runs : \/ run'[q] = run[q] /\ named'[q] = named[q]
                      \/ run'[q] = [IdleRun EXCEPT !.at = "gone"]
  BY <1>3 DEF SettledInv, Shapes
<1>5. QED
  BY <1>2, <1>4, StaysOrLeaves

LEMMA ForgetApart ==
  ASSUME ApartInv, Forget,
         \A s \in Sessions \ sessions' : s \notin sessions /\ store'[s] = store[s]
  PROVE  ApartInv'
<1>1. \A q \in Runs : \/ run'[q] = [IdleRun EXCEPT !.at = "gone"]
                      \/ run'[q] = run[q] /\ ~IsRegistered(q)
  BY DEF Forget
<1>2. QED
  BY <1>1, StaysOrLeaves

LEMMA CrashWhileOpeningApart ==
  ASSUME SettledInv, ApartInv, NEW r \in Runs, CrashWhileOpening(r)
  PROVE  ApartInv'
<1>1. \E s, st :
        /\ sessions' = sessions \cup {s} /\ store' = [store EXCEPT ![s] = st]
  BY DEF CrashWhileOpening
<1>2. \A s \in Sessions \ sessions' : s \notin sessions /\ store'[s] = store[s]
  BY <1>1 DEF SettledInv, Shapes
<1>3. QED
  BY <1>2, ForgetApart DEF CrashWhileOpening

(* The history of a session that was not there is empty.                    *)
LEMMA NewHasNoHistory ==
  ASSUME NEW st, st = EmptyStore, Sound(st), RowsTell(st)
  PROVE  Repaired(st) = st /\ IsSeq(History(st)) /\ Len(History(st)) = 0
<1>1. PICK none : none = <<>>
  OBVIOUS
<1>2. Len(none) = 0 /\ DOMAIN none = {}
  BY <1>1, EmptyIsSeq
<1>3. st.log = none /\ st.surface = {} /\ st.turns = none
  BY <1>1 DEF EmptyStore
<1>4. Repaired(st) = st
  BY <1>2, <1>3 DEF Repaired
<1>5. NoBlanks(st.log)
  BY <1>2, <1>3 DEF NoBlanks
<1>6. PICK R : R = Replayed(st)
  OBVIOUS
<1>7. PICK a : Ordered(st.log, st.surface, R, a)
  BY <1>6, ReplayedOrdered
<1>8. IsSeq(R) /\ Len(R) \in Nat /\ DOMAIN R = 1 .. Len(R) /\ DOMAIN R = {}
  BY <1>3, <1>7 DEF Ordered
<1>9. Len(R) = 0
  BY <1>8
<1>10. QED
  BY <1>4, <1>5, <1>6, <1>8, <1>9, HistoryIs

LEMMA OpenTurnApart ==
  ASSUME SettledInv, RowsInv, ApartInv, NEW r \in Runs, NEW say \in BOOLEAN,
         OpenTurn(r, say)
  PROVE  ApartInv'
<1>1. PICK s \in Sessions :
        /\ SessionFor(r, s) /\ sessions' = sessions \cup {s}
        /\ Opened(r, s, Repaired(store[s]), say)
  BY DEF OpenTurn
<1>2. PICK st, mid, p, base, after :
        /\ st = store[s] /\ mid = Repaired(st)
        /\ p = IF say THEN <<Len(StartTurn(mid, Len(mid.turns) + 1).log) + 1>>
                      ELSE <<>>
        /\ base = History(mid) \o p /\ after = run'[r]
  OBVIOUS
<1>3. Opened(r, s, mid, say)
  BY <1>1, <1>2
<1>4. \E t, entries, new :
        /\ store' = [store EXCEPT ![s] = new]
        /\ run' = [run EXCEPT ![r] =
             [IdleRun EXCEPT
                !.at = "step", !.session = s, !.turn = t, !.step = 1,
                !.entries = entries, !.base = base]]
  <2>1. CASE say
    BY <1>2, <1>3, <2>1 DEF Opened
  <2>2. CASE ~say
    BY <1>2, <1>3, <2>2 DEF Opened
  <2>3. QED
    BY <2>1, <2>2
<1>5. /\ \A q \in Runs \ {r} : run'[q] = run[q]
      /\ \A o \in Sessions \ {s} : store'[o] = store[o]
      /\ after.session = s /\ after.base = base
  BY <1>2, <1>4 DEF IdleRun, SettledInv, Shapes
<1>6. UNCHANGED named /\ IsRegistered(r)
  BY DEF OpenTurn, IsRegistered
<1>7. IsSeq(p) /\ Len(p) <= 1 /\ Len(p) \in Nat
  BY <1>2, EmptyIsSeq, SingleSeq
<1>8. named[r] = NoSession => Len(base) <= 1
  <2>1. SUFFICES ASSUME named[r] = NoSession
                 PROVE  Len(base) <= 1
    OBVIOUS
  <2>2. s \in Sessions \ sessions
    BY <1>1, <2>1 DEF SessionFor
  <2>3. st = EmptyStore /\ Sound(st) /\ RowsTell(st)
    BY <1>2, <2>2 DEF ApartInv, SettledInv, LogsInv, RowsInv
  <2>4. PICK h : h = History(st)
    OBVIOUS
  <2>5. mid = st /\ IsSeq(h) /\ Len(h) = 0
    BY <1>2, <2>3, <2>4, NewHasNoHistory
  <2>6. base = h \o p
    BY <1>2, <2>4, <2>5
  <2>7. Len(h \o p) = Len(h) + Len(p)
    BY <1>7, <2>5, ConcatSeq
  <2>8. QED
    BY <1>7, <2>5, <2>6, <2>7
<1>9. FitsName(run'[r], named'[r])
  <2>1. named[r] # NoSession => s = named[r]
    BY <1>1 DEF SessionFor
  <2>2. QED
    BY <1>2, <1>5, <1>6, <1>8, <2>1 DEF FitsName
<1>10. \A q \in Runs : FitsName(run'[q], named'[q])
  BY <1>5, <1>6, <1>9, FitsStill
<1>11. \A q \in Runs : run'[q].at \notin {"new", "gone"} =>
         IsRegistered(q) /\ named'[q] = named[q]
  BY <1>5, <1>6 DEF IsRegistered
<1>12. \A o \in Sessions \ sessions' : o \notin sessions /\ store'[o] = store[o]
  BY <1>1, <1>5
<1>13. QED
  BY <1>10, <1>11, <1>12, ApartStep

(* A name that is taken up is nobody else's.                                *)
LEMMA BeginApart ==
  ASSUME SettledInv, ApartInv, NEW r \in Runs, NEW s, Begin(r, s)
  PROVE  ApartInv'
<1>1. /\ UNCHANGED <<sessions, store>>
      /\ run' = [run EXCEPT ![r].at = "begun"]
      /\ named' = [named EXCEPT ![r] = s]
      /\ s # NoSession => \A q \in Runs : IsRegistered(q) => named[q] # s
  BY DEF Begin, MayBegin
<1>2. /\ \A q \in Runs \ {r} : run'[q] = run[q] /\ named'[q] = named[q]
      /\ named'[r] = s
  BY <1>1 DEF SettledInv, Shapes
<1>3. PICK old, after : old = run[r] /\ after = run'[r]
  OBVIOUS
<1>4. RunTyped(r, old) /\ "at" \in DOMAIN old
  BY <1>3 DEF SettledInv, RunsInv, RunTyped, IdleRun
<1>5. after = [old EXCEPT !.at = "begun"]
  BY <1>1, <1>3 DEF SettledInv, Shapes
<1>6. after.at = "begun"
  BY <1>4, <1>5
<1>7. ~IsOpen(run'[r])
  BY <1>3, <1>6 DEF IsOpen
<1>8. \A o \in Sessions \ sessions' : store'[o] = EmptyStore
  BY <1>1 DEF ApartInv
<1>9. \A q \in Runs : FitsName(run'[q], named'[q])
  <2>1. FitsName(run'[r], named'[r])
    BY <1>7 DEF FitsName
  <2>2. QED
    BY <1>2, <2>1, FitsStill
<1>10. \A x, y \in Runs :
         /\ run'[x].at \notin {"new", "gone"} /\ run'[y].at \notin {"new", "gone"}
         /\ x # y /\ named'[x] # NoSession
         => named'[x] # named'[y]
  <2>1. \A q \in Runs \ {r} : run'[q].at \notin {"new", "gone"} =>
          IsRegistered(q) /\ (s # NoSession => named[q] # s)
    BY <1>1, <1>2 DEF IsRegistered
  <2>2. QED
    BY <1>2, <2>1 DEF ApartInv
<1>11. QED
  BY <1>8, <1>9, <1>10 DEF ApartInv, FitsName, IsRegistered

(* Steps of others than the runs.                                           *)
LEMMA StillApart ==
  ASSUME ApartInv, UNCHANGED <<run, named>>,
         \A s \in Sessions \ sessions' : s \notin sessions /\ store'[s] = store[s]
  PROVE  ApartInv'
BY StaysOrLeaves

LEMMA ViewApart ==
  ASSUME SettledInv, ApartInv, NEW s \in Sessions, View(s)
  PROVE  ApartInv'
<1>1. /\ s \in sessions /\ UNCHANGED <<sessions, run, named>>
      /\ \E st : store' = [store EXCEPT ![s] = st]
  BY DEF View
<1>2. \A o \in Sessions \ sessions' : o \notin sessions /\ store'[o] = store[o]
  BY <1>1 DEF SettledInv, Shapes
<1>3. QED
  BY <1>1, <1>2, StillApart

LEMMA ForkApart ==
  ASSUME SettledInv, ApartInv, NEW s \in Sessions, NEW at,
         NEW new \in Sessions, Fork(s, at, new)
  PROVE  ApartInv'
<1>1. /\ sessions' = sessions \cup {new} /\ UNCHANGED <<run, named>>
      /\ \E st : store' = [store EXCEPT ![new] = st]
  BY DEF Fork
<1>2. \A o \in Sessions \ sessions' : o \notin sessions /\ store'[o] = store[o]
  BY <1>1 DEF SettledInv, Shapes
<1>3. QED
  BY <1>1, <1>2, StillApart

LEMMA InitKept ==
  ASSUME EarlierSound, EarlierKept, Init
  PROVE  KeptInv
<1>1. PICK log \in Earlier :
        store = [s \in Sessions |-> IF s = First THEN Projected(log)
                                                 ELSE EmptyStore]
  BY DEF Init
<1>2. PICK none : none = <<>>
  OBVIOUS
<1>3. DOMAIN none = {} /\ Len(none) = 0
  BY <1>2, EmptyIsSeq
<1>4. LogKept(none)
  BY <1>3 DEF LogKept, NoBlanks, KeptAt
<1>5. LogKept(log)
  BY DEF EarlierKept
<1>6. Projected(log).log = log
  BY ProjectedSound DEF EarlierSound
<1>7. ASSUME NEW s \in Sessions
      PROVE  LogKept(store[s].log)
  <2>1. store[s] = Projected(log) \/ store[s] = EmptyStore
    BY <1>1
  <2>2. store[s].log = log \/ store[s].log = none
    BY <1>2, <1>6, <2>1 DEF EmptyStore
  <2>3. QED
    BY <1>4, <1>5, <2>2
<1>8. ASSUME NEW r \in Runs
      PROVE  /\ NoBlanks(run[r].fresh)
             /\ RunReplays(run[r], store[run[r].session].log)
  <2>1. run[r] = IdleRun
    BY DEF Init
  <2>2. PICK call, at : call = run[r] /\ at = "new"
    OBVIOUS
  <2>3. call.at = at /\ call.fresh = none
    BY <1>2, <2>1, <2>2 DEF IdleRun
  <2>4. ~MaySummarise(call) /\ NoBlanks(call.fresh)
    BY <1>3, <2>2, <2>3 DEF MaySummarise, IsOpen, NoBlanks
  <2>5. QED
    BY <2>2, <2>4 DEF RunReplays
<1>9. QED
  BY <1>7, <1>8 DEF KeptInv

LEMMA ChatKept ==
  ASSUME SteeringsApart, SettledInv, SettledInv', RowsInv, ApartInv,
         KeptInv, NEW r \in Runs, Chat(r)
  PROVE  KeptInv'
<1>1. CASE BeginFails(r)
  BY <1>1, BeginFailsKept
<1>2. ASSUME NEW say \in BOOLEAN, OpenTurn(r, say)
      PROVE  KeptInv'
  BY <1>2, OpenTurnKept
<1>3. CASE Compact(r)
  <2>1. IsOpen(run[r]) /\ named[r] # NoSession
    BY <1>3, CompactNamed
  <2>2. ASSUME NEW q \in Runs \ {r}, IsOpen(run[q])
        PROVE  Len(run[q].base) <= 1 \/ run[q].session # run[r].session
    <3>1. IsRegistered(q) /\ IsRegistered(r)
      BY <2>1, <2>2, OpenIsRegistered
    <3>2. named[r] # named[q]
      BY <2>1, <3>1 DEF ApartInv
    <3>3. QED
      BY <2>1, <2>2, <3>2 DEF ApartInv
  <2>3. QED
    BY <1>3, <2>2, CompactKept
<1>4. CASE Loop(r) /\ ~Compact(r)
  BY <1>4, LoopKept
<1>5. CASE CloseInbox(r)
  BY <1>5, CloseInboxKept
<1>6. CASE CloseTurn(r)
  BY <1>6, CloseTurnKept
<1>7. ASSUME NEW said \in BOOLEAN, OpenFails(r, said)
      PROVE  KeptInv'
  BY <1>7, OpenFailsKept
<1>8. QED
  BY <1>1, <1>2, <1>3, <1>4, <1>5, <1>6, <1>7 DEF Chat

LEMMA NextKept ==
  ASSUME SteeringsApart, SettledInv, SettledInv', RowsInv, ApartInv,
         KeptInv, [Next]_vars
  PROVE  KeptInv'
<1>1. ASSUME NEW r \in Runs, Chat(r)
      PROVE  KeptInv'
  BY <1>1, ChatKept
<1>2. ASSUME NEW r \in Runs, CrashWhileOpening(r)
      PROVE  KeptInv'
  BY <1>2, CrashWhileOpeningKept
<1>3. ASSUME NEW s \in Sessions, View(s)
      PROVE  KeptInv'
  BY <1>3, ViewKept
<1>4. ASSUME NEW s \in Sessions, NEW new \in Sessions,
             NEW at \in DOMAIN store[s].log, Fork(s, at, new)
      PROVE  KeptInv'
  BY <1>4, ForkKept
<1>5. ASSUME NEW r \in Runs, NEW s, Begin(r, s)
      PROVE  KeptInv'
  BY <1>5, BeginKept
<1>6. CASE \/ \E r \in Runs : Stop(r)
           \/ \E m \in Steerings :
                SteerPushes(m) \/ \E r \in Runs : SteerFinds(m, r)
           \/ Crash \/ UNCHANGED vars
  BY <1>6, NothingWritten DEF Stop, SteerPushes, SteerFinds, Crash, vars
<1>7. QED
  BY <1>1, <1>2, <1>3, <1>4, <1>5, <1>6 DEF Next

LEMMA InitApart ==
  ASSUME Init
  PROVE  ApartInv
<1>1. \A s \in Sessions \ sessions : store[s] = EmptyStore
  BY DEF Init
<1>2. \A r \in Runs : run[r].at = "new"
  BY DEF Init, IdleRun
<1>3. QED
  BY <1>1, <1>2 DEF ApartInv, IsOpen, IsRegistered

LEMMA NextApart ==
  ASSUME SteeringsApart, SettledInv, RowsInv, KeptInv, ApartInv, [Next]_vars
  PROVE  ApartInv'
<1>1. ASSUME NEW r \in Runs, Chat(r)
      PROVE  ApartInv'
  <2>1. ASSUME NEW say \in BOOLEAN, OpenTurn(r, say)
        PROVE  ApartInv'
    BY <2>1, OpenTurnApart
  <2>2. ASSUME NEW said \in BOOLEAN, OpenFails(r, said)
        PROVE  ApartInv'
    BY <2>2, OpenFailsApart
  <2>3. QED
    BY <1>1, <2>1, <2>2, BeginFailsApart, LoopApart, CloseInboxApart,
       CloseTurnApart DEF Chat
<1>2. ASSUME NEW r \in Runs, CrashWhileOpening(r)
      PROVE  ApartInv'
  BY <1>2, CrashWhileOpeningApart
<1>3. ASSUME NEW s \in Sessions, View(s)
      PROVE  ApartInv'
  BY <1>3, ViewApart
<1>4. ASSUME NEW s \in Sessions, NEW new \in Sessions,
             NEW at \in DOMAIN store[s].log, Fork(s, at, new)
      PROVE  ApartInv'
  BY <1>4, ForkApart
<1>5. ASSUME NEW r \in Runs, NEW s, Begin(r, s)
      PROVE  ApartInv'
  BY <1>5, BeginApart
<1>6. CASE Crash
  BY <1>6, ForgetApart DEF Crash
<1>7. CASE \/ \E r \in Runs : Stop(r)
           \/ \E m \in Steerings :
                SteerPushes(m) \/ \E r \in Runs : SteerFinds(m, r)
           \/ UNCHANGED vars
  <2>1. UNCHANGED <<sessions, store, run, named>>
    BY <1>7 DEF Stop, SteerPushes, SteerFinds, vars
  <2>2. QED
    BY <2>1, StillApart
<1>8. QED
  BY <1>1, <1>2, <1>3, <1>4, <1>5, <1>6, <1>7 DEF Next

(* compact_history and shadowed_through_seq: a summary of the first k of a   *)
(* history's messages has a cutoff that hides no message it was not made    *)
(* from, though the history leads with the last summary, the turn goes on   *)
(* meanwhile, and repairs and forks write to the log.  For any number of    *)
(* chats and sessions; where two chats are in one session (a chat in a new  *)
(* session, named by another before it ends), the first has nothing to      *)
(* summarise.  For any logs to start with that have forgotten nothing.      *)
THEOREM NothingIsForgotten ==
  ASSUME EarlierSound, SteeringsApart, EarlierKept
  PROVE  Spec => []NothingForgotten
<1> DEFINE Inv == SettledInv /\ RowsInv /\ ApartInv /\ KeptInv
<1>1. Init => Inv
  BY InitSettled, InitTells, InitApart, InitKept
<1>2. Inv /\ [Next]_vars => Inv'
  <2>1. SUFFICES ASSUME Inv, [Next]_vars
        PROVE  Inv'
    OBVIOUS
  <2>2. SettledInv' /\ RowsInv' /\ ApartInv'
    BY <2>1, NextSettled, NextTells, NextApart
  <2>3. KeptInv'
    BY <2>1, <2>2, NextKept
  <2>4. QED
    BY <2>2, <2>3
<1>3. Inv => NothingForgotten
  <2>1. SUFFICES ASSUME Inv, NEW s \in sessions, NEW i \in DOMAIN store[s].log,
                        store[s].log[i].kind \in MessageKind \ {"summary"}
        PROVE  Replays(store[s], i)
    BY DEF NothingForgotten
  <2>2. PICK st, log, n : st = store[s] /\ log = st.log /\ n = Len(log)
    OBVIOUS
  <2>3. Sound(st) /\ RowsTell(st) /\ LogKept(log)
    BY <2>1, <2>2 DEF SettledInv, Shapes, LogsInv, RowsInv, KeptInv
  <2>4. n \in Nat /\ DOMAIN log = 1 .. n
    BY <2>2, <2>3, SoundLog
  <2>5. PICK j \in 1 .. n :
          /\ ShownAt(log, n, j)
          /\ j = i \/ (log[j].kind = "summary" /\ i \in log[j].covers)
    BY <2>1, <2>2, <2>3, <2>4 DEF LogKept, KeptAt
  <2>6. Shows(log, j)
    BY <2>2, <2>4, <2>5, ShowsIs
  <2>7. j \in st.surface
    BY <2>2, <2>3, <2>4, <2>6 DEF RowsTell
  <2>8. QED
    BY <2>2, <2>5, <2>7 DEF Replays
<1>4. QED
  BY <1>1, <1>2, <1>3, PTL DEF Spec
=============================================================================
