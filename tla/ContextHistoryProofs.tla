------------------------ MODULE ContextHistoryProofs ------------------------
(***************************************************************************)
(* Proofs about the message history: no sequence of answers, cuts and      *)
(* summaries brings it into a form that _turns refuses, and what is        *)
(* forgotten is older than what is kept; for every budget, every number of *)
(* recent turns, all sizes and every number of exchanges.                  *)
(*                                                                         *)
(* The argument: the messages of a run are paired, each call with the      *)
(* result that follows it.  The scan of a paired history succeeds, and its *)
(* old turns cover positions 3 to some m where a turn may end.  So every   *)
(* request is the history without positions 3 to m, message by message     *)
(* similar to what it was; a summary takes the place of such a stretch.    *)
(* Both leave a history that is paired, and about the newest exchanges.    *)
(*                                                                         *)
(* Scan and Without are recursive functions: Iteration says that such a    *)
(* function exists, and Induction what holds of it.                        *)
(***************************************************************************)
EXTENDS ContextHistory, SequenceTheorems, WellFoundedInduction, TLAPS

-----------------------------------------------------------------------------
(* The inductive invariant                                                 *)

Kinds == {"system", "task", "summary", "reminder", "plan", "answer", "result", "cleared",
          "feedback"}

Messages ==
  [kind : Kinds, role : {"system", "user", "assistant", "tool"},
   calls : {<<>>} \cup {<<id>> : id \in Ids}, answers : Ids \cup {"none"},
   size : Nat, about : SUBSET (1..MaxExchanges)]

\* A call is followed by its result, and a result follows its call.
PairedAt(h, i) ==
  /\ h[i].role = "system" => i = 1
  /\ h[i].role # "tool" => h[i].answers = "none"
  /\ h[i].calls # <<>> => h[i].role = "assistant"
  /\ h[i].role = "tool" => i # 1 /\ h[i - 1].calls = <<h[i].answers>>
  /\ (h[i].calls # <<>> /\ i # Len(h)) => h[i + 1].role = "tool"

Paired(h) ==
  /\ 2 <= Len(h) /\ h[1].role = "system" /\ h[2].role = "user"
  /\ \A i \in 1..Len(h) : PairedAt(h, i)

\* What the i-th message is about is followed without a gap, up to the newest
\* of n exchanges, by what itself or later answers are about.
Covered(h, n, i) ==
  \A e \in h[i].about : \A f \in e..n :
    \/ f \in h[i].about
    \/ \E j \in i..Len(h) : h[j].role = "assistant" /\ f \in h[j].about

\* A result is about what its call is about, and a summary comes first.
OrderedAt(h, n, i) ==
  /\ h[i].about \subseteq 1..n
  /\ i <= 2 => h[i].about = {}
  /\ h[i].kind = "summary" => i = 3
  /\ h[i].role = "tool" => h[i].about \subseteq h[i - 1].about
  /\ Covered(h, n, i)

Ordered(h, n) == \A i \in 1..Len(h) : OrderedAt(h, n, i)

Good(h, n) == h \in Seq(Messages) /\ Paired(h) /\ Ordered(h, n)

\* Requests with answers that are clamped.
Requests ==
  {h \in Seq(Messages) :
     \A i \in 1..Len(h) : h[i].role = "assistant" => h[i].size <= MaxMessage}

HInv ==
  /\ Good(messages, count)
  /\ request \in Requests
  /\ phase \in {"ready", "asked", "owed", "done", "failed"}
  /\ count \in 0..MaxExchanges
  /\ phase = "asked" => count < MaxExchanges
  /\ phase = "owed" <=> messages[Len(messages)].calls # <<>>
  /\ phase = "owed" => messages[Len(messages)].about = {count}

-----------------------------------------------------------------------------
(* Induction and recursion over the positions of a sequence                *)

\* A set of numbers that has 0, and with a number the next, has them all.
LEMMA Induction ==
  ASSUME NEW T, 0 \in T, \A n \in Nat : n \in T => n + 1 \in T
  PROVE  \A n \in Nat : n \in T
<1> DEFINE R == OpToRel(<, Nat)
           S == Nat \ T
<1>1. SUFFICES ASSUME S # {} PROVE FALSE
  OBVIOUS
<1>2. S \subseteq Nat /\ IsWellFoundedOn(R, Nat)
  BY NatLessThanWellFounded
<1>3. \A m, n \in Nat : m < n => <<m, n>> \in R
  BY DEF OpToRel
<1> HIDE DEF R
<1>4. PICK n \in S : \A m \in S : <<m, n>> \notin R
  BY <1>1, <1>2, WFMin
<1>5. n \in Nat /\ n # 0 /\ n - 1 \in Nat /\ n - 1 < n
  BY <1>4
<1>6. n - 1 \in S
  BY <1>4, <1>5
<1> QED BY <1>3, <1>4, <1>5, <1>6

\* The minimum of a set of numbers is its least element.
LEMMA Least ==
  ASSUME NEW T, T \subseteq Nat, T # {} PROVE Min(T) \in T /\ \A m \in T : Min(T) <= m
<1> DEFINE R == OpToRel(<, Nat)
<1>1. IsWellFoundedOn(R, Nat)
  BY NatLessThanWellFounded
<1>2. \A m, n \in Nat : m < n => <<m, n>> \in R
  BY DEF OpToRel
<1> HIDE DEF R
<1>3. PICK n \in T : \A m \in T : <<m, n>> \notin R
  BY <1>1, WFMin
<1>4. ASSUME NEW m \in T PROVE n <= m
  <2>1. m \in Nat /\ n \in Nat /\ ~(m < n)
    BY <1>2, <1>3
  <2> QED BY <2>1
<1> QED BY <1>4 DEF Min

Iterates(g, N, base, F) == g[0] = base /\ \A n \in 1..N : g[n] = F[n][g[n - 1]]

\* A step function can be iterated.
LEMMA Iteration ==
  ASSUME NEW N \in Nat, NEW S, NEW base \in S, NEW F \in [1..N -> [S -> S]]
  PROVE  \E g \in [0..N -> S] : Iterates(g, N, base, F)
<1> USE DEF Iterates
<1> DEFINE T == {m \in Nat : m <= N => \E g \in [0..m -> S] : Iterates(g, m, base, F)}
<1>1. 0 \in T
  <2> DEFINE g == [i \in 0..0 |-> base]
  <2>1. g \in [0..0 -> S] /\ g[0] = base /\ \A n \in 1..0 : g[n] = F[n][g[n - 1]]
    OBVIOUS
  <2> HIDE DEF g
  <2> QED BY <2>1
<1>2. ASSUME NEW m \in Nat, m \in T PROVE m + 1 \in T
  <2>1. CASE m + 1 <= N
    <3>1. PICK g \in [0..m -> S] : g[0] = base /\ \A n \in 1..m : g[n] = F[n][g[n - 1]]
      BY <1>2, <2>1
    <3> DEFINE h == [i \in 0..(m + 1) |-> IF i = m + 1 THEN F[m + 1][g[m]] ELSE g[i]]
    <3>2. m + 1 \in 1..N /\ g[m] \in S
      BY <2>1
    <3>3. F[m + 1][g[m]] \in S
      BY <3>2
    <3>4. h \in [0..(m + 1) -> S]
      BY <3>3
    <3>5. h[0] = base /\ h[m + 1] = F[m + 1][g[m]] /\ \A i \in 0..m : h[i] = g[i]
      BY <3>1
    <3> HIDE DEF h
    <3>6. ASSUME NEW n \in 1..(m + 1) PROVE h[n] = F[n][h[n - 1]]
      <4>1. CASE n = m + 1
        BY <3>5, <4>1
      <4>2. CASE n # m + 1
        <5>1. n \in 1..m /\ n \in 0..m /\ n - 1 \in 0..m
          BY <4>2
        <5> QED BY <3>1, <3>5, <5>1
      <4> QED BY <4>1, <4>2
    <3> QED BY <3>4, <3>5, <3>6
  <2>2. CASE ~(m + 1 <= N)
    BY <2>2
  <2> QED BY <2>1, <2>2
<1> HIDE DEF T
<1>3. N \in T
  BY <1>1, <1>2, Induction
<1> QED BY <1>3 DEF T

-----------------------------------------------------------------------------
(* The turns of a history                                                  *)

ScanStates ==
  [turns : Seq(SUBSET Nat), pending : SUBSET Nat, due : SUBSET (Ids \cup {"none"}),
   task : BOOLEAN, ok : BOOLEAN]

ScanOf(h) ==
  CHOOSE g : g = [n \in 0..Len(h) |-> IF n = 0 THEN Start ELSE Step(h, g[n - 1], n)]

\* The ids of a message's calls, of which there is at most one.
LEMMA CallsRange ==
  ASSUME NEW calls \in {<<>>} \cup {<<id>> : id \in Ids}
  PROVE  /\ calls = <<>> => Range(calls) = {}
         /\ \A id : calls = <<id>> => Range(calls) = {id}
         /\ calls # <<>> => \E id \in Ids : calls = <<id>>
         /\ Range(calls) \subseteq Ids
         /\ IsInjective(calls)
<1>1. CASE calls = <<>>
  BY <1>1 DEF Range, IsInjective
<1>2. CASE calls # <<>>
  <2>1. PICK id \in Ids : calls = <<id>>
    BY <1>2
  <2>2. DOMAIN calls = {1} /\ calls[1] = id
    BY <2>1
  <2> QED BY <2>1, <2>2, <1>2 DEF Range, IsInjective
<1> QED BY <1>1, <1>2

\* A step of the scan leads from a state of the scan to another.
LEMMA StepType ==
  ASSUME NEW h \in Seq(Messages), NEW s \in ScanStates, NEW n \in 1..Len(h)
  PROVE  Step(h, s, n) \in ScanStates
<1> DEFINE m == h[n]
<1>1. m \in Messages /\ n \in Nat
  BY ElementOfSeq
<1>2. Range(m.calls) \subseteq Ids
  BY <1>1, CallsRange DEF Messages
<1>3. m.role \in {"system", "user", "assistant", "tool"}
  BY <1>1 DEF Messages
<1> HIDE DEF m
<1>4. \A u \in ScanStates : Close(u) \in ScanStates
  BY AppendProperties DEF Close, ScanStates
<1>5. Take(s, n, m) \in ScanStates
  <2> DEFINE taken == [s EXCEPT !.due = @ \ {m.answers}, !.pending = @ \cup {n}]
  <2>1. taken \in ScanStates /\ [s EXCEPT !.ok = FALSE] \in ScanStates
    BY <1>1 DEF ScanStates
  <2> QED BY <2>1, <1>4 DEF Take
<1>6. Enter(s, n, m) \in ScanStates
  <2> DEFINE entered == [s EXCEPT !.pending = @ \cup {n}, !.due = Range(m.calls)]
  <2>1. /\ entered \in ScanStates /\ [s EXCEPT !.ok = FALSE] \in ScanStates
        /\ [s EXCEPT !.task = TRUE] \in ScanStates
    BY <1>1, <1>2 DEF ScanStates
  <2>2. Close(entered) \in ScanStates
    BY <2>1, <1>4
  <2>3. Acceptable(m) => m.role \in {"system", "user", "assistant"}
    BY <1>3 DEF Acceptable
  <2> HIDE DEF entered
  <2>4. \/ Enter(s, n, m) \in {[s EXCEPT !.ok = FALSE], s, [s EXCEPT !.task = TRUE]}
        \/ Enter(s, n, m) \in {entered, Close(entered)}
    BY <2>3 DEF Enter, entered
  <2> QED BY <2>1, <2>2, <2>4
<1> QED BY <1>5, <1>6 DEF Step, m

\* The scan of a history goes from message to message.
LEMMA ScanSteps ==
  ASSUME NEW h \in Seq(Messages)
  PROVE  /\ Scan(h) = ScanOf(h)[Len(h)]
         /\ ScanOf(h) \in [0..Len(h) -> ScanStates]
         /\ ScanOf(h)[0] = Start
         /\ \A n \in 1..Len(h) : ScanOf(h)[n] = Step(h, ScanOf(h)[n - 1], n)
<1> DEFINE N == Len(h)
           F == [n \in 1..N |-> [s \in ScanStates |-> Step(h, s, n)]]
<1>1. N \in Nat
  OBVIOUS
<1>2. F \in [1..N -> [ScanStates -> ScanStates]]
  BY StepType
<1>3. \A n \in 1..N, s \in ScanStates : F[n][s] = Step(h, s, n)
  OBVIOUS
<1>4. Start \in ScanStates
  BY EmptySeq DEF Start, ScanStates
<1> HIDE DEF F
<1>5. PICK g \in [0..N -> ScanStates] : Iterates(g, N, Start, F)
  BY ONLY <1>1, <1>2, <1>4, Iteration
<1>6. g[0] = Start /\ \A n \in 1..N : g[n] = Step(h, g[n - 1], n)
  <2>1. \A n \in 1..N : n - 1 \in 0..N
    BY <1>1
  <2> QED BY <1>3, <1>5, <2>1 DEF Iterates
<1>7. g = [n \in 0..N |-> IF n = 0 THEN Start ELSE Step(h, g[n - 1], n)]
  BY <1>1, <1>6
<1>8. ScanOf(h) = [n \in 0..N |-> IF n = 0 THEN Start ELSE Step(h, ScanOf(h)[n - 1], n)]
  BY <1>7 DEF ScanOf
<1>9. Scan(h) = ScanOf(h)[N]
  BY DEF Scan, ScanOf
<1>10. ScanOf(h)[0] = Start /\ \A n \in 1..N : ScanOf(h)[n] = Step(h, ScanOf(h)[n - 1], n)
  BY <1>1, <1>8
<1>11. ScanOf(h) \in [0..N -> ScanStates]
  <2> DEFINE T == {n \in Nat : n <= N => ScanOf(h)[n] \in ScanStates}
  <2>1. 0 \in T
    BY <1>4, <1>10
  <2>2. ASSUME NEW n \in Nat, n \in T PROVE n + 1 \in T
    <3>1. CASE n + 1 <= N
      <4>1. n + 1 \in 1..N /\ ScanOf(h)[n] \in ScanStates /\ (n + 1) - 1 = n
        BY <1>1, <2>2, <3>1
      <4> QED BY <1>10, <4>1, StepType
    <3> QED BY <3>1
  <2> HIDE DEF T
  <2>3. \A n \in Nat : n \in T
    BY <2>1, <2>2, Induction
  <2>4. \A n \in 0..N : ScanOf(h)[n] \in ScanStates
    BY <1>1, <2>3 DEF T
  <2> QED BY <1>8, <2>4
<1> QED BY <1>9, <1>10, <1>11

\* A turn may end at m: nothing is due there, and no reminder has come.
Cut(h, m) == m = 2 \/ (h[m].role # "user" /\ h[m].calls = <<>>)

\* The turns cover the positions from 3 to c, and so do the first of them up to
\* a place where a turn may end.
Tiles(h, turns, c) ==
  /\ turns \in Seq(SUBSET Nat) /\ Cut(h, c)
  /\ Positions(turns, Len(turns)) = 3..c
  /\ \A k \in 0..Len(turns) : \E m \in 2..c :
       Cut(h, m) /\ (k > 0 => m > 2) /\ Positions(turns, k) = 3..m

\* One more turn, up to n, covers what follows.
LEMMA TilesAppend ==
  ASSUME NEW h, NEW c \in Nat, 2 <= c, NEW turns, Tiles(h, turns, c),
         NEW n \in Nat, c < n, Cut(h, n)
  PROVE  Tiles(h, Append(turns, (c + 1)..n), n)
<1> DEFINE turn == (c + 1)..n
           longer == Append(turns, turn)
<1>1. turns \in Seq(SUBSET Nat) /\ turn \in SUBSET Nat /\ Len(turns) \in Nat
  BY DEF Tiles
<1>2. /\ longer \in Seq(SUBSET Nat) /\ Len(longer) = Len(turns) + 1
      /\ longer[Len(turns) + 1] = turn
      /\ \A t \in 1..Len(turns) : longer[t] = turns[t]
  BY <1>1, AppendProperties
<1>3. turn = (c + 1)..n
  OBVIOUS
<1> HIDE DEF turn, longer
<1>4. ASSUME NEW k \in 0..Len(turns) PROVE Positions(longer, k) = Positions(turns, k)
  <2>1. \A t \in 1..k : longer[t] = turns[t]
    BY <1>1, <1>2
  <2> QED BY <2>1 DEF Positions
<1>5. Positions(longer, Len(turns) + 1) = 3..n
  <2>1. \A t \in 1..(Len(turns) + 1) : t \in 1..Len(turns) \/ t = Len(turns) + 1
    BY <1>1
  <2>2. 1..Len(turns) \subseteq 1..(Len(turns) + 1) /\ Len(turns) + 1 \in 1..(Len(turns) + 1)
    BY <1>1
  <2>3. Positions(longer, Len(turns) + 1) = Positions(turns, Len(turns)) \cup turn
    BY <1>2, <2>1, <2>2 DEF Positions
  <2>4. Positions(turns, Len(turns)) = 3..c
    BY DEF Tiles
  <2>5. 3..n = (3..c) \cup ((c + 1)..n)
    OBVIOUS
  <2> QED BY <1>3, <2>3, <2>4, <2>5
<1>6. ASSUME NEW k \in 0..(Len(turns) + 1)
      PROVE  \E m \in 2..n : Cut(h, m) /\ (k > 0 => m > 2) /\ Positions(longer, k) = 3..m
  <2>1. CASE k = Len(turns) + 1
    BY <1>5, <2>1
  <2>2. CASE k # Len(turns) + 1
    <3>1. k \in 0..Len(turns)
      BY <1>1, <2>2
    <3>2. PICK m \in 2..c : Cut(h, m) /\ (k > 0 => m > 2) /\ Positions(turns, k) = 3..m
      BY <3>1 DEF Tiles
    <3>3. m \in 2..n
      OBVIOUS
    <3> QED BY <1>4, <3>1, <3>2, <3>3
  <2> QED BY <2>1, <2>2
<1>7. Tiles(h, longer, n)
  BY <1>2, <1>5, <1>6 DEF Tiles
<1> QED BY <1>3, <1>7 DEF longer

\* What the scan has found after n messages.
ScanInv(h, n) ==
  LET s == ScanOf(h)[n]
  IN  /\ s.ok = TRUE
      /\ n >= 2 => s.task = TRUE
      /\ n < 2 => s.task = FALSE
      /\ s.due = IF n = 0 THEN {} ELSE Range(h[n].calls)
      /\ n < 2 => s.turns = <<>> /\ s.pending = {}
      /\ n >= 2 => \E c \in 2..n : s.pending = (c + 1)..n /\ Tiles(h, s.turns, c)

\* What closing a turn does to the fields of the state.
LEMMA CloseFields ==
  ASSUME NEW s \in ScanStates
  PROVE  /\ Close(s).turns = Append(s.turns, s.pending) /\ Close(s).pending = {}
         /\ Close(s).due = s.due /\ Close(s).task = s.task /\ Close(s).ok = s.ok
BY DEF Close, ScanStates

\* A result that is due ends the turn of its call.
LEMMA TakeResult ==
  ASSUME NEW s \in ScanStates, NEW i \in Nat, NEW m \in Messages,
         m.role = "tool", m.calls = <<>>, s.due = {m.answers}, s.ok = TRUE,
         NEW u, u = Take(s, i, m)
  PROVE  /\ u.turns = Append(s.turns, s.pending \cup {i}) /\ u.pending = {} /\ u.due = {}
         /\ u.task = s.task /\ u.ok = TRUE
<1> DEFINE taken == [s EXCEPT !.due = @ \ {m.answers}, !.pending = @ \cup {i}]
<1>1. taken \in ScanStates
  BY DEF ScanStates
<1>2. /\ taken.due = {} /\ taken.turns = s.turns /\ taken.pending = s.pending \cup {i}
      /\ taken.task = s.task /\ taken.ok = s.ok
  BY DEF ScanStates
<1>3. Answers(m, s.due)
  BY DEF Answers
<1>4. Take(s, i, m) = Close(taken)
  BY <1>2, <1>3 DEF Take
<1>5. s.ok = TRUE
  BY DEF ScanStates
<1> HIDE DEF taken
<1> QED BY <1>1, <1>2, <1>4, <1>5, CloseFields

\* How the scan takes a message where no result is due: it is pinned, or joins
\* the turn, or ends it.
Entered(s, i, m, u) ==
  /\ m.role = "system" => u = s
  /\ (m.role = "user" /\ s.task = FALSE) =>
       /\ u.turns = s.turns /\ u.pending = s.pending /\ u.due = s.due
       /\ u.task = TRUE /\ u.ok = TRUE
  /\ (m.role = "assistant" \/ (m.role = "user" /\ s.task = TRUE)) =>
       /\ u.due = Range(m.calls) /\ u.task = s.task /\ u.ok = TRUE
       /\ IF m.role = "assistant" /\ m.calls = <<>>
          THEN u.turns = Append(s.turns, s.pending \cup {i}) /\ u.pending = {}
          ELSE u.turns = s.turns /\ u.pending = s.pending \cup {i}

\* Enter does what Entered says of the messages of a run.
LEMMA EnterMessage ==
  ASSUME NEW s \in ScanStates, NEW i \in Nat, NEW m \in Messages, s.ok = TRUE,
         m.role # "tool", m.answers = "none", m.calls # <<>> => m.role = "assistant",
         NEW u, u = Enter(s, i, m)
  PROVE  Entered(s, i, m, u)
<1> DEFINE entered == [s EXCEPT !.pending = @ \cup {i}, !.due = Range(m.calls)]
<1>1. Range(m.calls) \subseteq Ids /\ IsInjective(m.calls)
  BY CallsRange DEF Messages
<1>2. entered \in ScanStates
  BY <1>1 DEF ScanStates
<1>3. /\ entered.due = Range(m.calls) /\ entered.turns = s.turns
      /\ entered.pending = s.pending \cup {i} /\ entered.task = s.task /\ entered.ok = s.ok
  BY DEF ScanStates
<1>4. Acceptable(m)
  BY <1>1 DEF Acceptable
<1>5. s.ok = TRUE
  BY DEF ScanStates
<1>6. m.role = "system" => Enter(s, i, m) = s
  BY <1>4 DEF Enter
<1>7. (m.role = "user" /\ s.task = FALSE) => Enter(s, i, m) = [s EXCEPT !.task = TRUE]
  BY <1>4 DEF Enter
<1>8. (m.role = "user" /\ s.task = TRUE) => Enter(s, i, m) = entered
  BY <1>4 DEF Enter
<1>9. m.role = "assistant" =>
        Enter(s, i, m) = IF m.calls = <<>> THEN Close(entered) ELSE entered
  BY <1>4 DEF Enter
<1> HIDE DEF entered
<1>10. /\ Close(entered).turns = Append(s.turns, s.pending \cup {i}) /\ Close(entered).pending = {}
       /\ Close(entered).due = Range(m.calls) /\ Close(entered).task = s.task
       /\ Close(entered).ok = TRUE
  BY <1>2, <1>3, <1>5, CloseFields
<1>11. CASE m.role = "assistant"
  <2>1. CASE m.calls = <<>>
    BY <1>9, <1>10, <1>11, <2>1 DEF Entered
  <2>2. CASE m.calls # <<>>
    BY <1>3, <1>5, <1>9, <1>11, <2>2 DEF Entered
  <2> QED BY <2>1, <2>2
<1>12. CASE m.role = "user"
  <2>1. CASE s.task = TRUE
    BY <1>3, <1>5, <1>8, <1>12, <2>1 DEF Entered
  <2>2. CASE s.task = FALSE
    BY <1>5, <1>7, <1>12, <2>2 DEF ScanStates, Entered
  <2>3. s.task \in BOOLEAN
    BY DEF ScanStates
  <2> QED BY <2>1, <2>2, <2>3
<1>13. CASE m.role = "system"
  BY <1>6, <1>13 DEF Entered
<1>14. m.role \in {"system", "user", "assistant"}
  BY DEF Messages
<1> QED BY <1>11, <1>12, <1>13, <1>14 DEF Entered

\* The next message of a paired history keeps what was found.
LEMMA ScanStep ==
  ASSUME NEW h \in Seq(Messages), Paired(h), NEW n \in Nat, n + 1 <= Len(h), ScanInv(h, n)
  PROVE  ScanInv(h, n + 1)
<1> DEFINE s == ScanOf(h)[n]
           u == ScanOf(h)[n + 1]
           m == h[n + 1]
<1>1. /\ n + 1 \in 1..Len(h) /\ n \in 0..Len(h) /\ (n + 1) - 1 = n
      /\ n > 0 => n \in 1..Len(h)
  OBVIOUS
<1>2. s \in ScanStates /\ u = Step(h, s, n + 1)
  BY <1>1, ScanSteps
<1>3. m \in Messages
  BY <1>1, ElementOfSeq
<1>4. /\ s.ok = TRUE
      /\ n >= 2 => s.task = TRUE
      /\ n < 2 => s.task = FALSE
      /\ s.due = IF n = 0 THEN {} ELSE Range(h[n].calls)
      /\ n < 2 => s.turns = <<>> /\ s.pending = {}
      /\ n >= 2 => \E c \in 2..n : s.pending = (c + 1)..n /\ Tiles(h, s.turns, c)
  BY DEF ScanInv
<1>5. /\ m.role = "system" => n = 0
      /\ m.role # "tool" => m.answers = "none"
      /\ m.calls # <<>> => m.role = "assistant"
      /\ m.role = "tool" => n # 0 /\ h[n].calls = <<m.answers>>
  BY <1>1 DEF Paired, PairedAt
<1>6. /\ n > 0 => h[n] \in Messages
      /\ n > 0 /\ h[n].calls # <<>> => h[n].role = "assistant" /\ m.role = "tool"
      /\ h[1].role = "system" /\ h[2].role = "user"
  BY <1>1, ElementOfSeq DEF Paired, PairedAt
<1>7. ScanInv(h, n + 1) <=>
        /\ u.ok = TRUE /\ u.due = Range(m.calls)
        /\ n + 1 >= 2 => u.task = TRUE
        /\ n + 1 < 2 => u.task = FALSE
        /\ n + 1 < 2 => u.turns = <<>> /\ u.pending = {}
        /\ n + 1 >= 2 =>
             \E c \in 2..(n + 1) : u.pending = (c + 1)..(n + 1) /\ Tiles(h, u.turns, c)
  BY DEF ScanInv
<1> HIDE DEF s, u, m
<1>8. CASE n > 0 /\ h[n].calls # <<>>
  <2>1. /\ m.role = "tool" /\ m.calls = <<>>
        /\ h[n].calls = <<m.answers>> /\ h[n].role = "assistant"
    BY <1>5, <1>6, <1>8
  <2>2. n >= 2
    BY <1>6, <1>8, <2>1
  <2>3. s.due = {m.answers}
    <3>1. s.due = Range(h[n].calls)
      BY <1>4, <1>8
    <3>2. h[n].calls \in {<<>>} \cup {<<id>> : id \in Ids}
      BY <1>6, <1>8 DEF Messages
    <3>3. \A id : h[n].calls = <<id>> => Range(h[n].calls) = {id}
      BY <3>2, CallsRange
    <3> QED BY <2>1, <3>1, <3>3
  <2>4. u = Take(s, n + 1, m)
    BY <1>2, <1>4, <2>3 DEF Step, m
  <2>5. /\ u.turns = Append(s.turns, s.pending \cup {n + 1}) /\ u.pending = {} /\ u.due = {}
        /\ u.task = s.task /\ u.ok = TRUE
    <3>1. s.ok = TRUE /\ n + 1 \in Nat
      BY <1>4
    <3> QED BY ONLY <1>2, <1>3, <2>1, <2>3, <2>4, <3>1, TakeResult
  <2>6. PICK c \in 2..n : s.pending = (c + 1)..n /\ Tiles(h, s.turns, c)
    BY <1>4, <2>2
  <2>7. s.pending \cup {n + 1} = (c + 1)..(n + 1)
    BY <2>6
  <2>8. Cut(h, n + 1)
    BY <2>1 DEF Cut, m
  <2>9. Tiles(h, u.turns, n + 1)
    <3>1. u.turns = Append(s.turns, (c + 1)..(n + 1))
      BY <2>5, <2>7
    <3>2. c \in Nat /\ n + 1 \in Nat /\ 2 <= c /\ c < n + 1
      BY <2>2
    <3> QED BY <2>6, <2>8, <3>1, <3>2, TilesAppend
  <2>10. u.pending = ((n + 1) + 1)..(n + 1) /\ n + 1 \in 2..(n + 1)
    BY <2>2, <2>5
  <2>11. Range(m.calls) = {}
    BY <1>3, <2>1, CallsRange DEF Messages
  <2> QED BY <1>4, <1>7, <2>2, <2>5, <2>9, <2>10, <2>11
<1>9. CASE ~(n > 0 /\ h[n].calls # <<>>)
  <2>1. s.due = {}
    BY <1>4, <1>6, <1>9, CallsRange DEF Messages
  <2>2. m.role # "tool"
    <3>1. <<m.answers>> # <<>>
      OBVIOUS
    <3>2. n # 0 => n > 0
      OBVIOUS
    <3> QED BY <1>5, <1>9, <3>1, <3>2
  <2>3. u = Enter(s, n + 1, m)
    BY <1>2, <1>4, <2>1 DEF Step, m
  <2>4. Entered(s, n + 1, m, u)
    <3>1. s.ok = TRUE /\ n + 1 \in Nat
      BY <1>4
    <3>2. m.answers = "none" /\ (m.calls # <<>> => m.role = "assistant")
      BY <1>5, <2>2
    <3>3. s \in ScanStates
      BY <1>2
    <3> HIDE DEF ScanStates
    <3> QED BY ONLY <1>3, <2>2, <2>3, <3>1, <3>2, <3>3, EnterMessage
  <2>5. CASE n = 0
    <3>1. m.role = "system" /\ u = s /\ m.calls = <<>>
      BY <1>5, <1>6, <2>4, <2>5 DEF m, Entered
    <3>2. Range(m.calls) = {}
      BY <1>3, <3>1, CallsRange DEF Messages
    <3>3. u.ok = TRUE /\ u.task = FALSE /\ u.due = {} /\ u.turns = <<>> /\ u.pending = {}
      BY <1>4, <2>1, <2>5, <3>1
    <3> QED BY <1>7, <2>5, <3>2, <3>3
  <2>6. CASE n = 1
    <3>1. m.role = "user" /\ m.calls = <<>> /\ s.task = FALSE
      BY <1>4, <1>5, <1>6, <2>6 DEF m
    <3>3. u.turns = <<>> /\ u.pending = {} /\ u.due = {} /\ u.task = TRUE /\ u.ok = TRUE
      BY <1>4, <2>1, <2>4, <2>6, <3>1 DEF Entered
    <3>4. Range(m.calls) = {}
      BY <1>3, <3>1, CallsRange DEF Messages
    <3>5. Tiles(h, u.turns, 2)
      <4>1. u.turns \in Seq(SUBSET Nat) /\ Len(u.turns) = 0
        BY <3>3, EmptySeq
      <4>2. Positions(u.turns, 0) = 3..2
        BY DEF Positions
      <4>3. Cut(h, 2)
        BY DEF Cut
      <4> QED BY <4>1, <4>2, <4>3 DEF Tiles
    <3>6. u.pending = (2 + 1)..(n + 1) /\ 2 \in 2..(n + 1)
      BY <2>6, <3>3
    <3> QED BY <1>7, <2>6, <3>3, <3>4, <3>5, <3>6
  <2>7. CASE n >= 2
    <3>1. s.task = TRUE /\ m.role # "system"
      BY <1>4, <1>5, <2>7
    <3>2. m.role = "assistant" \/ (m.role = "user" /\ s.task = TRUE)
      BY <1>3, <2>2, <3>1 DEF Messages
    <3>3. PICK c \in 2..n : s.pending = (c + 1)..n /\ Tiles(h, s.turns, c)
      BY <1>4, <2>7
    <3>4. s.pending \cup {n + 1} = (c + 1)..(n + 1)
      BY <3>3
    <3>5. u.due = Range(m.calls) /\ u.task = TRUE /\ u.ok = TRUE
      BY <2>4, <3>1, <3>2 DEF Entered
    <3>6. CASE m.role = "assistant" /\ m.calls = <<>>
      <4>1. u.turns = Append(s.turns, (c + 1)..(n + 1)) /\ u.pending = {}
        BY <2>4, <3>2, <3>4, <3>6 DEF Entered
      <4>2. Cut(h, n + 1)
        BY <3>6 DEF Cut, m
      <4>3. Tiles(h, u.turns, n + 1)
        BY <3>3, <4>1, <4>2, TilesAppend
      <4>4. u.pending = ((n + 1) + 1)..(n + 1) /\ n + 1 \in 2..(n + 1)
        BY <2>7, <4>1
      <4> QED BY <1>7, <2>7, <3>5, <4>3, <4>4
    <3>7. CASE ~(m.role = "assistant" /\ m.calls = <<>>)
      <4>1. u.turns = s.turns /\ u.pending = (c + 1)..(n + 1)
        BY <2>4, <3>2, <3>4, <3>7 DEF Entered
      <4>2. c \in 2..(n + 1)
        OBVIOUS
      <4> QED BY <1>7, <2>7, <3>3, <3>5, <4>1, <4>2
    <3> QED BY <3>6, <3>7
  <2> QED BY <2>5, <2>6, <2>7
<1> QED BY <1>8, <1>9

\* So the scan of a paired history goes well, up to every place.
LEMMA ScanHolds ==
  ASSUME NEW h \in Seq(Messages), Paired(h)
  PROVE  \A n \in 0..Len(h) : ScanInv(h, n)
<1> DEFINE T == {n \in Nat : n <= Len(h) => ScanInv(h, n)}
<1>1. ScanInv(h, 0)
  BY ScanSteps DEF ScanInv, Start
<1>2. 0 \in T
  BY <1>1
<1>3. ASSUME NEW n \in Nat, n \in T PROVE n + 1 \in T
  <2>1. CASE n + 1 <= Len(h)
    <3>1. ScanInv(h, n)
      BY <1>3, <2>1
    <3>2. ScanInv(h, n + 1)
      BY <2>1, <3>1, ScanStep
    <3> QED BY <3>2
  <2> QED BY <2>1
<1> HIDE DEF T
<1>4. \A n \in Nat : n \in T
  BY <1>2, <1>3, Induction
<1> QED BY <1>4 DEF T

\* A history that ends with a reminder is well formed, and its old turns cover
\* the positions from 3 to a place where a turn may end.
LEMMA OldTurnsCut ==
  ASSUME NEW h \in Seq(Messages), Paired(h), 3 <= Len(h), h[Len(h)].role = "user"
  PROVE  /\ ~Malformed(h) /\ OldTurns(h) \in Seq(SUBSET Nat)
         /\ Len(OldTurns(h)) \in Nat
         /\ \A k \in 0..Len(OldTurns(h)) : \E m \in 2..Len(h) :
              Cut(h, m) /\ (k > 0 => m > 2) /\ Positions(OldTurns(h), k) = 3..m
<1> DEFINE N == Len(h)
           s == ScanOf(h)[N]
<1>1. N \in Nat /\ N \in 0..N /\ N \in 1..N /\ N >= 3
  OBVIOUS
<1>2. Scan(h) = s
  BY ScanSteps
<1>3. ScanInv(h, N)
  BY <1>1, ScanHolds
<1>4. h[N].calls = <<>> /\ h[N] \in Messages
  BY <1>1, ElementOfSeq DEF Paired, PairedAt
<1>5. Range(h[N].calls) = {}
  BY <1>4, CallsRange DEF Messages
<1>6. s.ok = TRUE /\ s.due = {}
  BY <1>1, <1>3, <1>5 DEF ScanInv
<1>7. PICK c \in 2..N : s.pending = (c + 1)..N /\ Tiles(h, s.turns, c)
  BY <1>1, <1>3 DEF ScanInv
<1> HIDE DEF s
<1>8. c < N
  BY <1>1, <1>7 DEF Tiles, Cut
<1>9. s.pending # {} /\ s.pending \in SUBSET Nat
  <2>1. s.pending = (c + 1)..N /\ c \in Nat
    BY <1>7
  <2>2. c + 1 \in (c + 1)..N
    BY <1>1, <1>8, <2>1
  <2>3. (c + 1)..N \subseteq Nat
    BY <2>1
  <2> QED BY <2>1, <2>2, <2>3
<1> DEFINE turns == Append(s.turns, s.pending)
           old == OldTurns(h)
           L == Len(turns) - KeepRecent
<1>10. /\ s.turns \in Seq(SUBSET Nat) /\ Len(s.turns) \in Nat
       /\ turns \in Seq(SUBSET Nat) /\ Len(turns) = Len(s.turns) + 1
       /\ \A t \in 1..Len(s.turns) : turns[t] = s.turns[t]
  BY <1>7, <1>9, AppendProperties DEF Tiles
<1>11. old = SubSeq(turns, 1, L)
  BY <1>2, <1>9 DEF OldTurns, Turns
<1> HIDE DEF turns, old
<1>12. L \in Int /\ L <= Len(s.turns)
  BY <1>10, HistoryAssumption
<1>13. Len(old) \in 0..Len(s.turns) /\ \A t \in 1..Len(old) : old[t] = s.turns[t]
  <2>1. CASE L >= 1
    <3>1. \A t \in 1..L : turns[t] \in SUBSET Nat
      BY <1>10, <1>12, ElementOfSeq
    <3>2. Len(old) = L /\ \A t \in 1..L : old[t] = turns[t]
      BY <1>11, <1>12, <2>1, <3>1, SubSeqProperties
    <3> QED BY <1>10, <1>12, <2>1, <3>2
  <2>2. CASE L < 1
    <3>1. Len(old) = 0
      BY <1>11, <1>12, <2>2, SubSeqProperties
    <3> QED BY <1>10, <3>1
  <2> QED BY <1>12, <2>1, <2>2
<1>14. ASSUME NEW k \in 0..Len(old)
       PROVE  \E m \in 2..N : Cut(h, m) /\ (k > 0 => m > 2) /\ Positions(old, k) = 3..m
  <2>1. k \in 0..Len(s.turns) /\ \A t \in 1..k : old[t] = s.turns[t]
    <3>1. Len(old) \in Nat /\ Len(s.turns) \in Nat /\ Len(old) <= Len(s.turns)
      BY <1>10, <1>13
    <3>2. \A t \in 1..k : t \in 1..Len(old)
      BY <3>1
    <3> QED BY <1>13, <3>1, <3>2
  <2>2. Positions(old, k) = Positions(s.turns, k)
    BY <2>1 DEF Positions
  <2>3. PICK m \in 2..c : Cut(h, m) /\ (k > 0 => m > 2) /\ Positions(s.turns, k) = 3..m
    BY <1>7, <2>1 DEF Tiles
  <2>4. m \in 2..N
    BY <1>1, <1>8
  <2> QED BY <2>2, <2>3, <2>4
<1>15. ~Malformed(h)
  BY <1>2, <1>6 DEF Malformed
<1>16. Len(old) \in Nat
  BY <1>10, <1>13
<1>17. old \in Seq(SUBSET Nat)
  <2>1. \A t \in 1..L : turns[t] \in SUBSET Nat
    BY <1>10, <1>12, ElementOfSeq
  <2> QED BY <1>11, <1>12, <2>1, SubSeqProperties
<1> QED BY <1>14, <1>15, <1>16, <1>17 DEF old


-----------------------------------------------------------------------------
(* What is left of a history                                               *)

KeptSteps(g, P, kept) ==
  /\ kept[0] = <<>>
  /\ \A n \in 1..Len(g) :
       kept[n] = IF n \in P THEN kept[n - 1] ELSE Append(kept[n - 1], g[n])
  /\ Without(g, P) = kept[Len(g)]

\* Without goes from message to message.
LEMMA WithoutSteps ==
  ASSUME NEW g \in Seq(Messages), NEW P
  PROVE  \E kept \in [0..Len(g) -> Seq(Messages)] : KeptSteps(g, P, kept)
<1> DEFINE N == Len(g)
           S == Seq(Messages)
           F == [n \in 1..N |-> [s \in S |-> IF n \in P THEN s ELSE Append(s, g[n])]]
           It(k) == [n \in 0..N |->
                      IF n = 0 THEN <<>>
                      ELSE IF n \in P THEN k[n - 1] ELSE Append(k[n - 1], g[n])]
           chosen == CHOOSE k : k = It(k)
<1>1. N \in Nat /\ <<>> \in S
  BY EmptySeq
<1>2. F \in [1..N -> [S -> S]]
  <2>1. ASSUME NEW n \in 1..N, NEW s \in S PROVE Append(s, g[n]) \in S
    <3>1. g[n] \in Messages
      BY ElementOfSeq
    <3> QED BY <3>1, AppendProperties
  <2> HIDE DEF S
  <2> QED BY <2>1
<1>3. \A n \in 1..N, s \in S : F[n][s] = IF n \in P THEN s ELSE Append(s, g[n])
  OBVIOUS
<1> HIDE DEF F, S
<1>4. PICK k \in [0..N -> S] : Iterates(k, N, <<>>, F)
  BY ONLY <1>1, <1>2, Iteration
<1>5. /\ k[0] = <<>>
      /\ \A n \in 1..N : k[n] = IF n \in P THEN k[n - 1] ELSE Append(k[n - 1], g[n])
  <2>1. \A n \in 1..N : n - 1 \in 0..N
    BY <1>1
  <2> QED BY <1>3, <1>4, <2>1 DEF Iterates
<1>6. k = It(k)
  BY <1>1, <1>5
<1>7. chosen = It(chosen)
  BY <1>6
<1>8. Without(g, P) = chosen[N]
  BY DEF Without
<1> HIDE DEF chosen
<1>9. /\ chosen[0] = <<>>
      /\ \A n \in 1..N :
           chosen[n] = IF n \in P THEN chosen[n - 1] ELSE Append(chosen[n - 1], g[n])
  <2>1. 0 \in 0..N /\ \A n \in 1..N : n \in 0..N /\ n # 0
    BY <1>1
  <2>2. \A n \in 0..N : chosen[n] = It(chosen)[n]
    BY <1>7
  <2>3. chosen[0] = <<>>
    BY <2>1, <2>2
  <2>4. ASSUME NEW n \in 1..N
        PROVE  chosen[n] = IF n \in P THEN chosen[n - 1] ELSE Append(chosen[n - 1], g[n])
    BY <2>1, <2>2
  <2> QED BY <2>3, <2>4
<1>10. \A n \in 0..N : chosen[n] = k[n]
  <2> DEFINE T == {n \in Nat : n <= N => chosen[n] = k[n]}
  <2>1. 0 \in T
    BY <1>5, <1>9
  <2>2. ASSUME NEW n \in Nat, n \in T PROVE n + 1 \in T
    <3>1. CASE n + 1 <= N
      <4>1. n + 1 \in 1..N /\ chosen[n] = k[n] /\ (n + 1) - 1 = n
        BY <1>1, <2>2, <3>1
      <4> QED BY <1>5, <1>9, <4>1
    <3> QED BY <3>1
  <2> HIDE DEF T
  <2>3. \A n \in Nat : n \in T
    BY <2>1, <2>2, Induction
  <2> QED BY <1>1, <2>3 DEF T
<1>11. Without(g, P) = k[N]
  BY <1>1, <1>8, <1>10
<1> QED BY <1>5, <1>11 DEF KeptSteps, S

\* Where the i-th message stands that is left when positions 3 to m go.
Origin(i, m) == IF i <= 2 THEN i ELSE i + m - 2

\* What is left, and in which order, when positions 3 to m go.
LEMMA WithoutCut ==
  ASSUME NEW g \in Seq(Messages), NEW m \in Nat, 2 <= m, m <= Len(g)
  PROVE  /\ Without(g, 3..m) \in Seq(Messages)
         /\ Len(Without(g, 3..m)) = Len(g) - m + 2
         /\ \A i \in 1..(Len(g) - m + 2) : Without(g, 3..m)[i] = g[Origin(i, m)]
<1> DEFINE N == Len(g)
           S == Seq(Messages)
           left(n) == IF n <= 2 THEN n ELSE IF n <= m THEN 2 ELSE n - m + 2
<1>1. N \in Nat
  OBVIOUS
<1>2. PICK kept \in [0..N -> S] : KeptSteps(g, 3..m, kept)
  BY WithoutSteps
<1> DEFINE Is(n) == /\ Len(kept[n]) = left(n)
                    /\ \A i \in 1..left(n) : kept[n][i] = g[Origin(i, m)]
           T == {n \in Nat : n <= N => Is(n)}
<1>3. 0 \in T
  <2>1. Len(kept[0]) = 0
    BY <1>2 DEF KeptSteps
  <2>2. left(0) = 0
    OBVIOUS
  <2> QED BY <2>1, <2>2
<1>4. ASSUME NEW n \in Nat, n \in T PROVE n + 1 \in T
  <2>1. CASE n + 1 <= N
    <3>1. n + 1 \in 1..N /\ (n + 1) - 1 = n /\ n \in 0..N
      BY <2>1
    <3>2. kept[n] \in S /\ g[n + 1] \in Messages
      BY <3>1, ElementOfSeq
    <3>3. Len(kept[n]) = left(n) /\ \A i \in 1..left(n) : kept[n][i] = g[Origin(i, m)]
      BY <1>4, <2>1
    <3>4. kept[n + 1] = IF n + 1 \in 3..m THEN kept[n] ELSE Append(kept[n], g[n + 1])
      BY <1>2, <3>1 DEF KeptSteps
    <3>5. CASE n + 1 \in 3..m
      <4>1. left(n + 1) = left(n)
        BY <3>5
      <4>2. kept[n + 1] = kept[n]
        BY <3>4, <3>5
      <4> HIDE DEF left
      <4> QED BY <3>3, <4>1, <4>2
    <3>6. CASE n + 1 \notin 3..m
      <4>1. left(n + 1) = left(n) + 1 /\ left(n) \in Nat
        BY <3>6
      <4>2. Origin(left(n) + 1, m) = n + 1
        BY <3>6 DEF Origin
      <4>3. kept[n + 1] = Append(kept[n], g[n + 1])
        BY <3>4, <3>6
      <4>4. /\ Len(kept[n + 1]) = Len(kept[n]) + 1
            /\ \A i \in 1..Len(kept[n]) : kept[n + 1][i] = kept[n][i]
            /\ kept[n + 1][Len(kept[n]) + 1] = g[n + 1]
        BY <3>2, <4>3, AppendProperties
      <4> HIDE DEF left
      <4>5. ASSUME NEW i \in 1..(left(n) + 1) PROVE kept[n + 1][i] = g[Origin(i, m)]
        <5>1. CASE i = left(n) + 1
          BY <3>3, <4>2, <4>4, <5>1
        <5>2. CASE i # left(n) + 1
          <6>1. i \in 1..left(n)
            BY <4>1, <5>2
          <6> QED BY <3>3, <4>4, <6>1
        <5> QED BY <5>1, <5>2
      <4>6. Len(kept[n + 1]) = left(n + 1)
        BY <3>3, <4>1, <4>4
      <4> QED BY <4>1, <4>5, <4>6
    <3> QED BY <3>5, <3>6
  <2>2. CASE ~(n + 1 <= N)
    BY <2>2
  <2> QED BY <2>1, <2>2
<1> HIDE DEF T
<1>5. N \in T
  BY <1>1, <1>3, <1>4, Induction
<1>6. Is(N)
  BY <1>5 DEF T
<1>7. left(N) = N - m + 2
  BY <1>1
<1>8. Without(g, 3..m) = kept[N] /\ kept[N] \in S
  BY <1>1, <1>2 DEF KeptSteps
<1> QED BY <1>6, <1>7, <1>8

\* What is left is about what its messages are about.
LEMMA AboutWithout ==
  ASSUME NEW g \in Seq(Messages), NEW P
  PROVE  About(Without(g, P)) = UNION {g[i].about : i \in (1..Len(g)) \ P}
<1> DEFINE N == Len(g)
<1>1. N \in Nat
  OBVIOUS
<1>2. PICK kept \in [0..N -> Seq(Messages)] : KeptSteps(g, P, kept)
  BY WithoutSteps
<1> DEFINE A(n) == UNION {g[i].about : i \in (1..n) \ P}
           T == {n \in Nat : n <= N => About(kept[n]) = A(n)}
<1>3. 0 \in T
  BY <1>2 DEF KeptSteps, About
<1>4. ASSUME NEW n \in Nat, n \in T PROVE n + 1 \in T
  <2>1. CASE n + 1 <= N
    <3>1. n + 1 \in 1..N /\ (n + 1) - 1 = n /\ n \in 0..N
      BY <2>1
    <3>2. kept[n] \in Seq(Messages) /\ g[n + 1] \in Messages
      BY <3>1, ElementOfSeq
    <3>3. About(kept[n]) = A(n)
      BY <1>4, <2>1
    <3>4. kept[n + 1] = IF n + 1 \in P THEN kept[n] ELSE Append(kept[n], g[n + 1])
      BY <1>2, <3>1 DEF KeptSteps
    <3>5. 1..(n + 1) = (1..n) \cup {n + 1}
      OBVIOUS
    <3>6. CASE n + 1 \in P
      <4>1. A(n + 1) = A(n)
        BY <3>5, <3>6
      <4> QED BY <3>3, <3>4, <3>6, <4>1
    <3>7. CASE n + 1 \notin P
      <4>1. A(n + 1) = A(n) \cup g[n + 1].about
        BY <3>5, <3>7
      <4>2. kept[n + 1] = Append(kept[n], g[n + 1])
        BY <3>4, <3>7
      <4>3. /\ Len(kept[n + 1]) = Len(kept[n]) + 1 /\ Len(kept[n]) \in Nat
            /\ \A i \in 1..Len(kept[n]) : kept[n + 1][i] = kept[n][i]
            /\ kept[n + 1][Len(kept[n]) + 1] = g[n + 1]
        BY <3>2, <4>2, AppendProperties
      <4>4. 1..(Len(kept[n]) + 1) = (1..Len(kept[n])) \cup {Len(kept[n]) + 1}
        BY <4>3
      <4>5. About(kept[n + 1]) = About(kept[n]) \cup g[n + 1].about
        <5>1. \A i \in 1..Len(kept[n + 1]) : i \in 1..Len(kept[n]) \/ i = Len(kept[n]) + 1
          BY <4>3, <4>4
        <5>2. /\ \A i \in 1..Len(kept[n]) : i \in 1..Len(kept[n + 1])
              /\ Len(kept[n]) + 1 \in 1..Len(kept[n + 1])
          BY <4>3, <4>4
        <5>3. \A e : e \in About(kept[n + 1]) <=> e \in About(kept[n]) \/ e \in g[n + 1].about
          BY <4>3, <5>1, <5>2 DEF About
        <5> QED BY <5>3
      <4> QED BY <3>3, <4>1, <4>5
    <3> QED BY <3>6, <3>7
  <2>2. CASE ~(n + 1 <= N)
    BY <2>2
  <2> QED BY <2>1, <2>2
<1> HIDE DEF T
<1>5. N \in T
  BY <1>1, <1>3, <1>4, Induction
<1>6. About(kept[N]) = A(N)
  BY <1>5 DEF T
<1> QED BY <1>2, <1>6 DEF KeptSteps

-----------------------------------------------------------------------------
(* Histories stay good                                                     *)

\* The fields of the messages of a history.
LEMMA ElementOf ==
  ASSUME NEW h \in Seq(Messages), NEW i \in 1..Len(h)
  PROVE  /\ h[i] \in Messages /\ h[i].size \in Nat /\ h[i].about \subseteq 1..MaxExchanges
         /\ h[i].role \in {"system", "user", "assistant", "tool"}
<1>1. h[i] \in Messages
  BY ElementOfSeq
<1> QED BY <1>1 DEF Messages

\* The messages that may follow a history of n exchanges, when p is the number
\* of exchanges then.
Follows(h, n, x, p) ==
  /\ x \in Messages /\ x.role # "system" /\ x.kind # "summary"
  /\ x.role # "tool" => x.answers = "none" /\ h[Len(h)].calls = <<>>
  /\ x.role = "tool" => x.calls = <<>> /\ h[Len(h)].calls = <<x.answers>>
  /\ x.role = "tool" => x.about \subseteq h[Len(h)].about
  /\ x.calls # <<>> => x.role = "assistant"
  /\ x.about \subseteq {p}
  /\ p = n \/ (p = n + 1 /\ x.role = "assistant" /\ x.about = {p})

\* A history stays good when a message follows that may.
LEMMA AppendGood ==
  ASSUME NEW n \in Nat, NEW p \in Nat, NEW h, Good(h, n), NEW x, Follows(h, n, x, p),
         p = 0 => x.about = {}
  PROVE  Good(Append(h, x), p)
<1> DEFINE g == Append(h, x)
           N == Len(h)
<1>1. h \in Seq(Messages) /\ x \in Messages /\ Paired(h) /\ Ordered(h, n)
  BY DEF Good, Follows
<1>2. N \in Nat /\ N >= 2 /\ N \in 1..N
  BY <1>1 DEF Paired
<1>3. /\ g \in Seq(Messages) /\ Len(g) = N + 1 /\ g[N + 1] = x
      /\ \A i \in 1..N : g[i] = h[i]
  BY <1>1, AppendProperties
<1> HIDE DEF g
<1>4. \A i \in 1..N : PairedAt(h, i) /\ OrderedAt(h, n, i)
  BY <1>1 DEF Paired, Ordered
<1>5. ASSUME NEW i \in 1..(N + 1) PROVE PairedAt(g, i)
  <2>1. CASE i = N + 1
    BY <1>2, <1>3, <2>1 DEF PairedAt, Follows
  <2>2. CASE i = N
    <3>1. g[N] = h[N]
      BY <1>2, <1>3
    <3>2. h[N].role = "tool" => h[N - 1].calls = <<h[N].answers>> /\ g[N - 1] = h[N - 1]
      <4>1. N - 1 \in 1..N
        BY <1>2
      <4> QED BY <1>2, <1>3, <1>4, <4>1 DEF PairedAt
    <3>3. h[N].calls # <<>> => x.role = "tool"
      BY DEF Follows
    <3>4. PairedAt(h, N)
      BY <1>2, <1>4
    <3>5. i # 1 /\ i # N + 1
      BY <1>2, <2>2
    <3> QED BY <1>3, <2>2, <3>1, <3>2, <3>3, <3>4, <3>5 DEF PairedAt
  <2>3. CASE i \in 1..(N - 1)
    <3>1. /\ g[i] = h[i] /\ g[i + 1] = h[i + 1] /\ i # N /\ i # N + 1
          /\ i # 1 => g[i - 1] = h[i - 1]
      <4>1. /\ i \in 1..N /\ i + 1 \in 1..N /\ i # N /\ i # N + 1
            /\ i # 1 => i - 1 \in 1..N
        BY ONLY <1>2, <2>3
      <4> QED BY <1>3, <4>1
    <3>2. PairedAt(h, i)
      BY <1>2, <1>4, <2>3
    <3> QED BY <1>3, <3>1, <3>2 DEF PairedAt
  <2> QED BY <1>2, <2>1, <2>2, <2>3
<1>6. Paired(g)
  <2>1. g[1] = h[1] /\ g[2] = h[2]
    BY <1>2, <1>3
  <2> QED BY <1>1, <1>2, <1>3, <1>5, <2>1 DEF Paired
<1>7. ASSUME NEW i \in 1..(N + 1) PROVE OrderedAt(g, p, i)
  <2>1. CASE i = N + 1
    <3>1. g[i].about \subseteq 1..p /\ g[i].about \subseteq {p}
      BY <1>3, <2>1 DEF Follows
    <3>2. Covered(g, p, i)
      <4>1. \A e \in g[i].about : \A f \in e..p : f = e
        BY <3>1
      <4> QED BY <4>1 DEF Covered
    <3>3. i > 2 /\ g[i].kind # "summary"
      BY <1>2, <1>3, <2>1 DEF Follows
    <3>4. g[i].role = "tool" => g[i].about \subseteq g[i - 1].about
      <4>1. g[i] = x /\ g[i - 1] = h[N]
        BY <1>2, <1>3, <2>1
      <4> QED BY <4>1 DEF Follows
    <3> QED BY <3>1, <3>2, <3>3, <3>4 DEF OrderedAt
  <2>2. CASE i \in 1..N
    <3>1. g[i] = h[i] /\ OrderedAt(h, n, i)
      BY <1>3, <1>4, <2>2
    <3>2. g[i].about \subseteq 1..p
      <4>1. p = n \/ p = n + 1
        BY DEF Follows
      <4>2. 1..n \subseteq 1..p
        BY <4>1
      <4> QED BY <3>1, <4>2 DEF OrderedAt
    <3>3. g[i].role = "tool" => g[i].about \subseteq g[i - 1].about
      <4>1. g[i].role = "tool" => i # 1
        BY <1>4, <2>2, <3>1 DEF PairedAt
      <4>2. g[i].role = "tool" => g[i - 1] = h[i - 1]
        BY <1>2, <1>3, <2>2, <4>1
      <4> QED BY <3>1, <4>2 DEF OrderedAt
    <3>4. Covered(g, p, i)
      <4>1. SUFFICES ASSUME NEW e \in g[i].about, NEW f \in e..p
                     PROVE  \/ f \in g[i].about
                            \/ \E j \in i..(N + 1) : g[j].role = "assistant" /\ f \in g[j].about
        BY <1>3 DEF Covered
      <4>2. e \in 1..p /\ e \in h[i].about
        BY <3>1, <3>2
      <4>3. CASE f \in e..n
        <5>1. Covered(h, n, i)
          BY <3>1 DEF OrderedAt
        <5>2. \/ f \in h[i].about
              \/ \E j \in i..N : h[j].role = "assistant" /\ f \in h[j].about
          BY <4>2, <4>3, <5>1 DEF Covered
        <5>3. \A j \in i..N : j \in i..(N + 1) /\ g[j] = h[j]
          BY <1>2, <1>3
        <5> QED BY <3>1, <5>2, <5>3
      <4>4. CASE f \notin e..n
        <5>1. f = p /\ p # n
          <6>1. p = n \/ p = n + 1
            BY DEF Follows
          <6> QED BY <4>2, <4>4, <6>1
        <5>2. x.role = "assistant" /\ x.about = {p}
          BY <5>1 DEF Follows
        <5>3. N + 1 \in i..(N + 1)
          BY <1>2
        <5> QED BY <1>3, <5>1, <5>2, <5>3
      <4> QED BY <4>3, <4>4
    <3> QED BY <3>1, <3>2, <3>3, <3>4 DEF OrderedAt
  <2> QED BY <1>2, <2>1, <2>2
<1>8. Ordered(g, p)
  BY <1>3, <1>7 DEF Ordered
<1> QED BY <1>3, <1>6, <1>8 DEF Good, g

\* A history without the reminders at its end is good as well.
LEMMA DropGood ==
  ASSUME NEW n \in Nat, NEW h, Good(h, n), NEW L \in Nat, 2 <= L, L < Len(h),
         \A i \in (L + 1)..Len(h) : h[i].role = "user"
  PROVE  LET g == SubSeq(h, 1, L)
         IN  /\ Good(g, n) /\ Len(g) = L /\ g[L].calls = <<>>
             /\ \A i \in 1..L : g[i] = h[i]
<1> DEFINE g == SubSeq(h, 1, L)
           N == Len(h)
<1>1. h \in Seq(Messages) /\ Paired(h) /\ Ordered(h, n) /\ N \in Nat
  BY DEF Good
<1>2. g \in Seq(Messages) /\ Len(g) = L /\ \A i \in 1..L : g[i] = h[i]
  <2>1. \A i \in 1..L : h[i] \in Messages
    BY <1>1, ElementOfSeq
  <2>2. 1 \in Int /\ L \in Int /\ 1 <= L /\ L - 1 + 1 = L
    OBVIOUS
  <2>3. \A i \in 1..L : g[i] = h[1 + i - 1]
    BY <2>1, <2>2, SubSeqProperties
  <2>4. g \in Seq(Messages) /\ Len(g) = L
    BY <2>1, <2>2, SubSeqProperties
  <2> QED BY <2>3, <2>4
<1> HIDE DEF g
<1>3. \A i \in 1..N : PairedAt(h, i) /\ OrderedAt(h, n, i)
  BY <1>1 DEF Paired, Ordered
<1>4. L \in 1..N /\ L + 1 \in 1..N /\ L # N /\ h[L + 1].role = "user" /\ PairedAt(h, L)
  BY <1>1, <1>3
<1>5. h[L].calls = <<>>
  BY <1>4 DEF PairedAt
<1>6. ASSUME NEW i \in 1..L PROVE PairedAt(g, i) /\ OrderedAt(g, n, i)
  <2>1. /\ g[i] = h[i] /\ (i # 1 => g[i - 1] = h[i - 1]) /\ i \in 1..N
        /\ (i # L => g[i + 1] = h[i + 1] /\ i # N)
    BY <1>1, <1>2, <1>4
  <2>2. PairedAt(h, i) /\ OrderedAt(h, n, i)
    BY <1>3, <2>1
  <2>3. PairedAt(g, i)
    BY <1>2, <1>5, <2>1, <2>2 DEF PairedAt
  <2>4. Covered(g, n, i)
    <3>1. SUFFICES ASSUME NEW e \in g[i].about, NEW f \in e..n
                   PROVE  \/ f \in g[i].about
                          \/ \E j \in i..L : g[j].role = "assistant" /\ f \in g[j].about
      BY <1>2 DEF Covered
    <3>2. \/ f \in h[i].about
          \/ \E j \in i..N : h[j].role = "assistant" /\ f \in h[j].about
      BY <2>1, <2>2 DEF OrderedAt, Covered
    <3>3. \A j \in i..N : h[j].role = "assistant" => j \in i..L /\ g[j] = h[j]
      BY <1>1, <1>2
    <3> QED BY <2>1, <3>2, <3>3
  <2>5. g[i].role = "tool" => g[i].about \subseteq g[i - 1].about
    BY <2>1, <2>2 DEF OrderedAt, PairedAt
  <2> QED BY <2>1, <2>2, <2>3, <2>4, <2>5 DEF OrderedAt
<1>7. Paired(g) /\ Ordered(g, n)
  <2>1. g[1] = h[1] /\ g[2] = h[2]
    BY <1>2
  <2> QED BY <1>1, <1>2, <1>6, <2>1 DEF Paired, Ordered
<1>8. Good(g, n) /\ g[L].calls = <<>>
  BY <1>2, <1>4, <1>5, <1>7 DEF Good
<1> QED BY <1>2, <1>8 DEF g

-----------------------------------------------------------------------------
(* Cutting a history                                                       *)

\* Message y as it is in a request: an answer is clamped, a result may be cleared.
Similar(x, y) ==
  /\ x \in Messages
  /\ x.role = y.role /\ x.calls = y.calls /\ x.answers = y.answers
  /\ x.role = "user" => x = y
  /\ x.role = "assistant" => x.size <= MaxMessage
  /\ \/ x.kind = y.kind /\ x.about = y.about
     \/ x.role = "tool" /\ x.kind = "cleared" /\ x.about = {}

\* What is left of h when the turns at 3 to m go.
CutOf(p, h, m) ==
  /\ p \in Seq(Messages) /\ m \in 2..Len(h) /\ Cut(h, m) /\ Len(p) = Len(h) - m + 2
  /\ \A i \in 1..Len(p) : Similar(p[i], h[Origin(i, m)])

\* How the places of the messages that are left relate to where they stood.
LEMMA Origins ==
  ASSUME NEW N \in Nat, NEW m \in 2..N, NEW i \in 1..(N - m + 2)
  PROVE  /\ Origin(i, m) \in 1..N
         /\ i <= 2 => Origin(i, m) = i
         /\ i > 2 => Origin(i, m) > m /\ Origin(i, m) >= i
         /\ Origin(i, m) = 1 => i = 1
         /\ Origin(i, m) = 3 => i = 3 /\ m = 2
         /\ i # 1 /\ (i # 3 \/ m = 2) => Origin(i - 1, m) = Origin(i, m) - 1
         /\ i # 2 => Origin(i + 1, m) = Origin(i, m) + 1
BY DEF Origin

\* A cut where a turn may end leaves calls with their results.
LEMMA CutPaired ==
  ASSUME NEW h \in Seq(Messages), Paired(h), NEW m, NEW p, CutOf(p, h, m)
  PROVE  Paired(p)
<1> DEFINE N == Len(h)
<1>1. N \in Nat /\ N >= 2 /\ m \in 2..N /\ Len(p) = N - m + 2 /\ Cut(h, m)
  BY DEF CutOf, Paired
<1>2. \A i \in 1..Len(p) : Similar(p[i], h[Origin(i, m)])
  BY DEF CutOf
<1>3. ASSUME NEW i \in 1..Len(p) PROVE PairedAt(p, i)
  <2> DEFINE j == Origin(i, m)
  <2>1. i \in 1..(N - m + 2)
    BY <1>1
  <2>2. /\ j \in 1..N /\ (j = 1 => i = 1) /\ (i <= 2 => j = i)
        /\ i # 1 /\ (i # 3 \/ m = 2) => Origin(i - 1, m) = j - 1
        /\ i # 2 => Origin(i + 1, m) = j + 1
        /\ i = 3 => j = m + 1
    BY <1>1, <2>1, Origins DEF Origin
  <2>3. Similar(p[i], h[j])
    BY <1>2
  <2> HIDE DEF j
  <2>4. PairedAt(h, j)
    BY <2>2 DEF Paired
  <2>5. p[i].role = h[j].role /\ p[i].calls = h[j].calls /\ p[i].answers = h[j].answers
    BY <2>3 DEF Similar
  <2>6. p[i].role = "tool" => i # 1 /\ p[i - 1].calls = <<p[i].answers>>
    <3>1. SUFFICES ASSUME p[i].role = "tool"
                   PROVE  i # 1 /\ p[i - 1].calls = <<p[i].answers>>
      OBVIOUS
    <3>2. j # 1 /\ h[j - 1].calls = <<h[j].answers>> /\ i # 1
      BY <2>2, <2>4, <2>5, <3>1 DEF PairedAt
    <3>3. i # 3 \/ m = 2
      <4>1. SUFFICES ASSUME i = 3, m # 2 PROVE FALSE
        OBVIOUS
      <4>2. h[m].calls = <<>> /\ j - 1 = m
        BY <1>1, <2>2, <4>1 DEF Cut
      <4>3. <<h[j].answers>> # <<>>
        OBVIOUS
      <4> QED BY <3>2, <4>2, <4>3
    <3>4. Origin(i - 1, m) = j - 1 /\ i - 1 \in 1..Len(p)
      BY <1>1, <2>2, <3>2, <3>3
    <3>5. Similar(p[i - 1], h[j - 1])
      BY <1>2, <3>4
    <3> QED BY <2>5, <3>2, <3>5 DEF Similar
  <2>7. (p[i].calls # <<>> /\ i # Len(p)) => p[i + 1].role = "tool"
    <3>1. SUFFICES ASSUME p[i].calls # <<>>, i # Len(p) PROVE p[i + 1].role = "tool"
      OBVIOUS
    <3>2. h[j].role = "assistant"
      BY <2>4, <2>5, <3>1 DEF PairedAt
    <3>3. i # 2
      BY <2>2, <3>2 DEF Paired
    <3>4. i + 1 \in 1..Len(p) /\ Origin(i + 1, m) = j + 1
      BY <1>1, <2>2, <3>1, <3>3
    <3>5. j + 1 \in 1..N
      BY <1>1, <3>4, Origins
    <3>6. Similar(p[i + 1], h[j + 1])
      BY <1>2, <3>4
    <3>7. h[j + 1].role = "tool"
      BY <2>2, <2>4, <2>5, <3>1, <3>5 DEF PairedAt
    <3> QED BY <3>6, <3>7 DEF Similar
  <2> QED BY <2>2, <2>4, <2>5, <2>6, <2>7 DEF PairedAt
<1>4. p[1].role = "system" /\ p[2].role = "user" /\ 2 <= Len(p)
  <2>1. 1 \in 1..Len(p) /\ 2 \in 1..Len(p) /\ Origin(1, m) = 1 /\ Origin(2, m) = 2
    BY <1>1 DEF Origin
  <2>2. Similar(p[1], h[1]) /\ Similar(p[2], h[2])
    BY <1>2, <2>1
  <2> QED BY <1>1, <2>2 DEF Similar, Paired
<1> QED BY <1>3, <1>4 DEF Paired

\* A cut keeps a history good: what goes is older than what stays.
LEMMA CutGood ==
  ASSUME NEW n \in Nat, NEW h, Good(h, n), NEW m, NEW p, CutOf(p, h, m)
  PROVE  Good(p, n)
<1> DEFINE N == Len(h)
<1>1. h \in Seq(Messages) /\ Paired(h) /\ Ordered(h, n)
  BY DEF Good
<1>2. N \in Nat /\ N >= 2 /\ m \in 2..N /\ Len(p) = N - m + 2 /\ p \in Seq(Messages)
  BY <1>1 DEF CutOf, Paired
<1>3. \A i \in 1..Len(p) : Similar(p[i], h[Origin(i, m)])
  BY DEF CutOf
<1>4. Paired(p)
  BY <1>1, CutPaired
<1>5. ASSUME NEW i \in 1..Len(p) PROVE OrderedAt(p, n, i)
  <2> DEFINE j == Origin(i, m)
  <2>1. i \in 1..(N - m + 2)
    BY <1>2
  <2>2. /\ j \in 1..N /\ (i <= 2 => j = i) /\ (j = 3 => i = 3)
        /\ i > 2 => j > m /\ j >= i
        /\ (i # 1 /\ (i # 3 \/ m = 2)) => Origin(i - 1, m) = j - 1
        /\ \A k \in j..N :
             k > m => k - m + 2 \in i..(N - m + 2) /\ Origin(k - m + 2, m) = k
    <3>1. /\ j \in 1..N /\ (i <= 2 => j = i) /\ (j = 3 => i = 3)
          /\ i > 2 => j > m /\ j >= i
          /\ (i # 1 /\ (i # 3 \/ m = 2)) => Origin(i - 1, m) = j - 1
      BY <1>2, <2>1 DEF Origin
    <3>2. ASSUME NEW k \in j..N, k > m
          PROVE  k - m + 2 \in i..(N - m + 2) /\ Origin(k - m + 2, m) = k
      BY <1>2, <2>1, <3>2 DEF Origin
    <3> QED BY <3>1, <3>2
  <2>3. Similar(p[i], h[j])
    BY <1>3
  <2> HIDE DEF j
  <2>4. OrderedAt(h, n, j)
    BY <1>1, <2>2 DEF Ordered
  <2>5. p[i].about # {} => p[i].about = h[j].about
    BY <2>3 DEF Similar
  <2>6. p[i].about \subseteq 1..n /\ (i <= 2 => p[i].about = {})
    <3>1. p[i].about = {} \/ p[i].about = h[j].about
      BY <2>5
    <3> QED BY <2>2, <2>4, <3>1 DEF OrderedAt
  <2>7. p[i].kind = "summary" => i = 3
    BY <2>2, <2>3, <2>4 DEF Similar, OrderedAt
  <2>8. p[i].role = "tool" => p[i].about \subseteq p[i - 1].about
    <3>1. SUFFICES ASSUME p[i].role = "tool", p[i].about # {}
                   PROVE  p[i].about \subseteq p[i - 1].about
      OBVIOUS
    <3>2. p[i].about = h[j].about /\ h[j].about \subseteq h[j - 1].about /\ i > 2
      BY <2>3, <2>4, <2>5, <2>6, <3>1 DEF Similar, OrderedAt
    <3>3. p[i - 1].calls # <<>> /\ i - 1 \in 1..Len(p)
      <4>1. PairedAt(p, i)
        BY <1>4 DEF Paired
      <4>2. <<p[i].answers>> # <<>>
        OBVIOUS
      <4>3. p[i - 1].calls = <<p[i].answers>>
        BY <3>1, <4>1 DEF PairedAt
      <4>4. i - 1 \in 1..Len(p)
        BY <1>2, <3>2
      <4> QED BY <4>2, <4>3, <4>4
    <3>4. p[i - 1].role = "assistant"
      BY <1>4, <3>3 DEF Paired, PairedAt
    <3>5. i # 3
      BY <1>4, <3>4 DEF Paired
    <3>6. Similar(p[i - 1], h[j - 1])
      <4>1. Origin(i - 1, m) = j - 1
        BY <2>2, <3>2, <3>5
      <4> QED BY <1>3, <3>3, <4>1
    <3>7. p[i - 1].about = h[j - 1].about
      BY <3>4, <3>6 DEF Similar
    <3> QED BY <3>2, <3>7
  <2>9. Covered(p, n, i)
    <3>1. SUFFICES ASSUME NEW e \in p[i].about, NEW f \in e..n
                   PROVE  \/ f \in p[i].about
                          \/ \E k \in i..Len(p) : p[k].role = "assistant" /\ f \in p[k].about
      BY DEF Covered
    <3>2. p[i].about = h[j].about /\ i > 2
      BY <2>5, <2>6
    <3>3. CASE f \in h[j].about
      BY <3>2, <3>3
    <3>4. CASE f \notin h[j].about
      <4>1. PICK k \in j..N : h[k].role = "assistant" /\ f \in h[k].about
        BY <2>4, <3>2, <3>4 DEF OrderedAt, Covered
      <4> DEFINE l == k - m + 2
      <4>2. l \in i..(N - m + 2) /\ Origin(l, m) = k
        BY <1>2, <2>2, <3>2, <4>1
      <4> HIDE DEF l
      <4>3. l \in i..Len(p) /\ l \in 1..Len(p)
        BY <1>2, <4>2
      <4>4. Similar(p[l], h[k])
        BY <1>3, <4>2, <4>3
      <4>5. p[l].role = "assistant" /\ f \in p[l].about
        BY <4>1, <4>4 DEF Similar
      <4> QED BY <4>3, <4>5
    <3> QED BY <3>3, <3>4
  <2> QED BY <2>6, <2>7, <2>8, <2>9 DEF OrderedAt
<1>6. Ordered(p, n)
  BY <1>5 DEF Ordered
<1> QED BY <1>2, <1>4, <1>6 DEF Good

\* h is the history x with the reminders r at its end.
With(h, x, r, n) ==
  /\ Good(h, n) /\ h \in Seq(Messages) /\ r \in Seq(Messages)
  /\ Len(r) \in Nat /\ Len(r) >= 1 /\ Len(h) = Len(x) + Len(r)
  /\ \A i \in 1..Len(x) : h[i] = x[i]
  /\ \A i \in 1..Len(r) : h[Len(x) + i] = r[i] /\ r[i].role = "user"

\* The reminders at the end of a history are at the end of what is left of it.
LEMMA RemindersStay ==
  ASSUME NEW h \in Seq(Messages), NEW r, NEW t, NEW n, With(t, h, r, n),
         NEW m \in 2..Len(h), NEW p, CutOf(p, t, m)
  PROVE  /\ Len(p) = Len(h) + Len(r) - m + 2
         /\ \A i \in 1..Len(r) : p[Len(p) - Len(r) + i] = r[i]
<1> DEFINE R == Len(r)
           P == Len(p)
<1>1. R \in Nat /\ Len(h) \in Nat /\ P \in Nat /\ p \in Seq(Messages) /\ Len(t) = Len(h) + R
  BY DEF CutOf, With
<1>2. P = Len(h) + R - m + 2
  BY <1>1 DEF CutOf
<1>3. ASSUME NEW i \in 1..R PROVE p[P - R + i] = r[i]
  <2>1. P - R + i \in 1..P /\ Origin(P - R + i, m) = Len(h) + i
    BY <1>1, <1>2 DEF Origin
  <2>2. Similar(p[P - R + i], t[Len(h) + i])
    BY <2>1 DEF CutOf
  <2>3. t[Len(h) + i] = r[i] /\ r[i].role = "user"
    BY DEF With
  <2> QED BY <2>2, <2>3 DEF Similar
<1> QED BY <1>2, <1>3

\* IsSuffix compares the reversed sequences; this compares the last messages.
LEMMA SuffixIs ==
  ASSUME NEW r \in Seq(Messages), NEW p \in Seq(Messages), Len(r) <= Len(p),
         \A i \in 1..Len(r) : p[Len(p) - Len(r) + i] = r[i]
  PROVE  IsSuffix(r, p)
<1> DEFINE R == Len(r)
           P == Len(p)
           rr == Reverse(r)
           rp == Reverse(p)
<1>1. R \in Nat /\ P \in Nat
  OBVIOUS
<1>2. \A i \in 1..R : p[P - R + i] = r[i]
  OBVIOUS
<1>3. /\ rr \in Seq(Messages) /\ Len(rr) = R /\ \A i \in 1..R : rr[i] = r[(R - i) + 1]
  <2>1. \A i \in 1..R : r[(R - i) + 1] \in Messages
    <3>1. \A i \in 1..R : (R - i) + 1 \in 1..R
      BY <1>1
    <3> QED BY <3>1, ElementOfSeq
  <2> QED BY <1>1, <2>1 DEF Reverse
<1>4. /\ rp \in Seq(Messages) /\ Len(rp) = P /\ \A i \in 1..P : rp[i] = p[(P - i) + 1]
  <2>1. \A i \in 1..P : p[(P - i) + 1] \in Messages
    <3>1. \A i \in 1..P : (P - i) + 1 \in 1..P
      BY <1>1
    <3> QED BY <1>1, <3>1, ElementOfSeq
  <2> QED BY <1>1, <2>1 DEF Reverse
<1> HIDE DEF rr, rp
<1>5. R <= P
  OBVIOUS
<1>6. \A i \in 1..R : rr[i] = rp[i]
  <2>1. TAKE i \in 1..R
  <2>2. (R - i) + 1 \in 1..R /\ P - R + ((R - i) + 1) = (P - i) + 1 /\ i \in 1..P
    BY <1>1, <1>5
  <2> QED BY <1>2, <1>3, <1>4, <2>2
<1>7. SubSeq(rr, 1, R) = SubSeq(rp, 1, R)
  <2>1. /\ \A i \in 1..R : rr[i] \in Messages
        /\ \A i \in 1..R : rp[i] \in Messages
    BY <1>3, <1>4, <1>5, ElementOfSeq
  <2>2. /\ SubSeq(rr, 1, R) \in Seq(Messages) /\ Len(SubSeq(rr, 1, R)) = R
        /\ \A i \in 1..R : SubSeq(rr, 1, R)[i] = rr[i]
    BY <1>1, <2>1, SubSeqProperties
  <2>3. /\ SubSeq(rp, 1, R) \in Seq(Messages) /\ Len(SubSeq(rp, 1, R)) = R
        /\ \A i \in 1..R : SubSeq(rp, 1, R)[i] = rp[i]
    BY <1>1, <2>1, SubSeqProperties
  <2> QED BY <1>6, <2>2, <2>3, SeqEqual
<1> QED BY <1>3, <1>4, <1>5, <1>7 DEF IsSuffix, IsPrefix, rr, rp

\* Clamping changes no more than the size of answers.
LEMMA ClampedSimilar ==
  ASSUME NEW h \in Seq(Messages)
  PROVE  /\ Clamped(h) \in Seq(Messages) /\ Len(Clamped(h)) = Len(h)
         /\ \A i \in 1..Len(h) :
              Similar(Clamped(h)[i], h[i]) /\ Clamped(h)[i].about = h[i].about
<1>1. ASSUME NEW i \in 1..Len(h)
      PROVE  /\ Clamped(h)[i] \in Messages
             /\ Similar(Clamped(h)[i], h[i]) /\ Clamped(h)[i].about = h[i].about
  <2> DEFINE x == h[i]
             least == Min({x.size, MaxMessage})
             y == IF x.role = "assistant" THEN [x EXCEPT !.size = least] ELSE x
  <2>1. x \in Messages
    BY ElementOfSeq
  <2>2. {x.size, MaxMessage} \subseteq Nat
    BY <2>1, HistoryAssumption DEF Messages
  <2>3. least \in {x.size, MaxMessage} /\ least <= MaxMessage
    BY <2>2, Least
  <2>4. least \in Nat
    BY <2>2, <2>3
  <2>5. Clamped(h)[i] = y
    BY DEF Clamped
  <2> HIDE DEF x, least
  <2>6. /\ y \in Messages /\ y.role = x.role /\ y.calls = x.calls /\ y.answers = x.answers
        /\ y.kind = x.kind /\ y.about = x.about
        /\ y.role = "assistant" => y.size = least
        /\ y.role # "assistant" => y = x
    BY <2>1, <2>4 DEF Messages
  <2> HIDE DEF y
  <2> QED BY <2>3, <2>5, <2>6 DEF Similar, x
<1>2. Len(h) \in Nat
  OBVIOUS
<1>3. Clamped(h) \in Seq(Messages) /\ Len(Clamped(h)) = Len(h)
  <2>1. DOMAIN Clamped(h) = 1..Len(h)
    BY DEF Clamped
  <2>2. Clamped(h) \in [1..Len(h) -> Messages]
    BY <1>1 DEF Clamped
  <2> QED BY <1>2, <2>1, <2>2, SeqDef
<1> QED BY <1>1, <1>3

\* Messages lose their size and what they are about only by clearing.
LEMMA ClearedSimilar ==
  ASSUME NEW h \in Seq(Messages), NEW P
  PROVE  LET p == Cleared(Clamped(h), P)
         IN  /\ p \in Seq(Messages) /\ Len(p) = Len(h)
             /\ \A i \in 1..Len(h) : Similar(p[i], h[i])
<1> DEFINE g == Clamped(h)
           p == Cleared(g, P)
<1>1. g \in Seq(Messages) /\ Len(g) = Len(h) /\ \A i \in 1..Len(h) : Similar(g[i], h[i])
  BY ClampedSimilar
<1> HIDE DEF g
<1>2. ASSUME NEW i \in 1..Len(h) PROVE p[i] \in Messages /\ Similar(p[i], h[i])
  <2> DEFINE x == g[i]
             y == [x EXCEPT !.kind = "cleared", !.size = ClearedSize, !.about = {}]
  <2>1. x \in Messages /\ Similar(x, h[i])
    BY <1>1, ElementOfSeq
  <2>2. p[i] = x \/ (x.role = "tool" /\ p[i] = y)
    BY <1>1 DEF Cleared
  <2> HIDE DEF x, p
  <2>3. /\ y \in Messages /\ y.role = x.role /\ y.calls = x.calls /\ y.answers = x.answers
        /\ y.kind = "cleared" /\ y.about = {}
    BY <2>1, HistoryAssumption DEF Messages, Kinds
  <2> HIDE DEF y
  <2> QED BY <2>1, <2>2, <2>3 DEF Similar
<1>3. p \in Seq(Messages) /\ Len(p) = Len(h)
  <2>1. Len(h) \in Nat
    OBVIOUS
  <2>2. p = [i \in 1..Len(h) |-> p[i]]
    BY <1>1 DEF Cleared
  <2> HIDE DEF p
  <2>3. p \in [1..Len(h) -> Messages]
    BY <1>2, <2>2
  <2> QED BY <2>1, <2>3, SeqDef
<1> QED BY <1>2, <1>3 DEF g

\* What is left is a cut, when a turn may end at m.
LEMMA WithoutIsCut ==
  ASSUME NEW h \in Seq(Messages), NEW g \in Seq(Messages), Len(g) = Len(h),
         \A i \in 1..Len(h) : Similar(g[i], h[i]), NEW m \in 2..Len(h), Cut(h, m)
  PROVE  CutOf(Without(g, 3..m), h, m)
<1> DEFINE p == Without(g, 3..m)
           N == Len(h)
<1>1. N \in Nat /\ m \in Nat /\ 2 <= m /\ m <= N
  OBVIOUS
<1>2. /\ p \in Seq(Messages) /\ Len(p) = N - m + 2
      /\ \A i \in 1..(N - m + 2) : p[i] = g[Origin(i, m)]
  <2>1. g \in Seq(Messages) /\ Len(g) = N
    OBVIOUS
  <2> QED BY ONLY <1>1, <2>1, WithoutCut
<1> HIDE DEF p
<1>3. \A i \in 1..Len(p) : Origin(i, m) \in 1..N
  BY <1>1, <1>2 DEF Origin
<1>4. CutOf(p, h, m)
  BY <1>2, <1>3 DEF CutOf
<1> QED BY <1>4 DEF p

\* Every attempt of prepare is the history with its turns up to some place cut.
LEMMA CandidateCut ==
  ASSUME NEW h \in Seq(Messages), Paired(h), 3 <= Len(h), h[Len(h)].role = "user",
         NEW k \in 0..(2 * Len(OldTurns(h)))
  PROVE  \E m \in 2..Len(h) : CutOf(Candidate(Clamped(h), OldTurns(h), k), h, m)
<1> DEFINE N == Len(h)
           old == OldTurns(h)
           g == Clamped(h)
<1>1. N \in Nat /\ N >= 3
  OBVIOUS
<1>2. /\ Len(old) \in Nat
      /\ \A t \in 0..Len(old) : \E m \in 2..N : Cut(h, m) /\ Positions(old, t) = 3..m
  BY OldTurnsCut
<1>3. \A P : /\ Cleared(g, P) \in Seq(Messages) /\ Len(Cleared(g, P)) = N
             /\ \A i \in 1..N : Similar(Cleared(g, P)[i], h[i])
  BY ClearedSimilar
<1> HIDE DEF old, g
<1>4. CASE k <= Len(old)
  <2> DEFINE p == Cleared(g, Positions(old, k))
  <2>1. p \in Seq(Messages) /\ Len(p) = N /\ \A i \in 1..N : Similar(p[i], h[i])
    BY <1>3
  <2>2. Candidate(g, old, k) = p
    BY <1>4 DEF Candidate
  <2> HIDE DEF p
  <2>3. Cut(h, 2) /\ 2 \in 2..N /\ \A i \in 1..N : Origin(i, 2) = i
    BY <1>1 DEF Cut, Origin
  <2>4. CutOf(p, h, 2)
    BY <1>1, <2>1, <2>3 DEF CutOf
  <2> QED BY <2>2, <2>3, <2>4 DEF old, g
<1>5. CASE k > Len(old)
  <2> DEFINE p == Cleared(g, Positions(old, Len(old)))
  <2>1. p \in Seq(Messages) /\ Len(p) = N /\ \A i \in 1..N : Similar(p[i], h[i])
    BY <1>3
  <2>2. Candidate(g, old, k) = Without(p, Positions(old, k - Len(old)))
    BY <1>2, <1>5 DEF Candidate
  <2> HIDE DEF p
  <2>3. k - Len(old) \in 0..Len(old)
    BY <1>2, <1>5 DEF old
  <2>4. PICK m \in 2..N : Cut(h, m) /\ Positions(old, k - Len(old)) = 3..m
    BY <1>2, <2>3
  <2>5. CutOf(Without(p, 3..m), h, m)
    BY <2>1, <2>4, WithoutIsCut
  <2> QED BY <2>2, <2>4, <2>5 DEF old, g
<1>6. k <= Len(old) \/ k > Len(old)
  BY <1>2
<1> QED BY <1>4, <1>5, <1>6

-----------------------------------------------------------------------------
(* Preparing a request                                                     *)

\* The budget reminder, or the plan.
IsReminder(x) ==
  /\ x \in Messages /\ x.role = "user" /\ x.kind \in {"reminder", "plan"}
  /\ x.calls = <<>> /\ x.answers = "none" /\ x.about = {}

\* There are one or two reminders.
LEMMA RemindersAre ==
  ASSUME NEW r \in Reminders
  PROVE  \/ \E a : IsReminder(a) /\ r = <<a>>
         \/ \E a, b : IsReminder(a) /\ IsReminder(b) /\ r = <<a, b>>
<1> DEFINE reminder(kind, size) == Message(kind, "user", <<>>, "none", size, {})
<1>1. ASSUME NEW kind \in {"reminder", "plan"}, NEW size \in Nat
      PROVE  IsReminder(reminder(kind, size))
  BY DEF IsReminder, Message, Messages, Kinds
<1>2. 1 \in Nat /\ ReminderSizes \subseteq Nat
  BY HistoryAssumption
<1>3. PICK size \in ReminderSizes :
        \/ r = <<reminder("reminder", size)>>
        \/ r = <<reminder("reminder", size), reminder("plan", 1)>>
  BY DEF Reminders
<1>4. IsReminder(reminder("reminder", size)) /\ IsReminder(reminder("plan", 1))
  BY <1>1, <1>2, <1>3
<1> HIDE DEF reminder
<1> QED BY <1>3, <1>4

\* Reminders may follow every history that waits for no result.
LEMMA WithReminders ==
  ASSUME NEW n \in Nat, NEW x, Good(x, n), x[Len(x)].calls = <<>>, NEW r \in Reminders,
         NEW h, h = x \o r
  PROVE  With(h, x, r, n)
<1> DEFINE N == Len(x)
<1>1. x \in Seq(Messages) /\ N \in Nat
  BY DEF Good
<1>2. ASSUME NEW y, Good(y, n), y[Len(y)].calls = <<>>, NEW a, IsReminder(a)
      PROVE  /\ Good(Append(y, a), n) /\ Len(Append(y, a)) = Len(y) + 1
             /\ Append(y, a)[Len(y) + 1] = a /\ Append(y, a)[Len(Append(y, a))].calls = <<>>
             /\ \A i \in 1..Len(y) : Append(y, a)[i] = y[i]
  <2>1. Follows(y, n, a, n) /\ a.about = {}
    BY <1>2 DEF Follows, IsReminder
  <2>2. Good(Append(y, a), n)
    BY <1>2, <2>1, AppendGood
  <2>3. y \in Seq(Messages) /\ a \in Messages /\ a.calls = <<>>
    BY <1>2 DEF Good, IsReminder
  <2>4. /\ Len(Append(y, a)) = Len(y) + 1 /\ Append(y, a)[Len(y) + 1] = a
        /\ \A i \in 1..Len(y) : Append(y, a)[i] = y[i]
    BY <2>3, AppendProperties
  <2> QED BY <2>2, <2>3, <2>4
<1>3. CASE \E a : IsReminder(a) /\ r = <<a>>
  <2>1. PICK a : IsReminder(a) /\ r = <<a>>
    BY <1>3
  <2>2. a \in Messages /\ a.role = "user"
    BY <2>1 DEF IsReminder
  <2>3. h = Append(x, a)
    BY <1>1, <2>1, <2>2
  <2>4. /\ Good(h, n) /\ Len(h) = N + 1 /\ h[N + 1] = a
        /\ \A i \in 1..N : h[i] = x[i]
    <3>1. /\ Good(Append(x, a), n) /\ Len(Append(x, a)) = N + 1
          /\ Append(x, a)[N + 1] = a
          /\ \A i \in 1..N : Append(x, a)[i] = x[i]
      BY <1>2, <2>1
    <3> QED BY <2>3, <3>1
  <2>5. r \in Seq(Messages) /\ Len(r) = 1 /\ r[1] = a
    BY <2>1, <2>2
  <2>6. h \in Seq(Messages)
    BY <2>4 DEF Good
  <2> QED BY <1>1, <2>2, <2>4, <2>5, <2>6 DEF With
<1>4. CASE \E a, b : IsReminder(a) /\ IsReminder(b) /\ r = <<a, b>>
  <2>1. PICK a, b : IsReminder(a) /\ IsReminder(b) /\ r = <<a, b>>
    BY <1>4
  <2>2. a \in Messages /\ a.role = "user" /\ b \in Messages /\ b.role = "user"
    BY <2>1 DEF IsReminder
  <2> DEFINE y == Append(x, a)
  <2>3. h = Append(y, b)
    BY <1>1, <2>1, <2>2
  <2>4. /\ Good(y, n) /\ Len(y) = N + 1 /\ y[N + 1] = a /\ y[Len(y)].calls = <<>>
        /\ \A i \in 1..N : y[i] = x[i]
    BY <1>2, <2>1
  <2> HIDE DEF y
  <2>5. /\ Good(h, n) /\ Len(h) = N + 2 /\ h[N + 2] = b
        /\ \A i \in 1..(N + 1) : h[i] = y[i]
    <3>1. /\ Good(Append(y, b), n) /\ Len(Append(y, b)) = Len(y) + 1
          /\ Append(y, b)[Len(y) + 1] = b
          /\ \A i \in 1..Len(y) : Append(y, b)[i] = y[i]
      BY <1>2, <2>1, <2>4
    <3> QED BY <1>1, <2>3, <2>4, <3>1
  <2>6. r \in Seq(Messages) /\ Len(r) = 2 /\ r[1] = a /\ r[2] = b
    BY <2>1, <2>2
  <2>7. h \in Seq(Messages)
    BY <2>5 DEF Good
  <2>8. \A i \in 1..N : h[i] = x[i]
    BY <1>1, <2>4, <2>5
  <2>9. ASSUME NEW i \in 1..2 PROVE h[N + i] = r[i] /\ r[i].role = "user"
    <3>1. h[N + 1] = a
      <4>1. N + 1 \in 1..(N + 1)
        BY <1>1
      <4> QED BY <2>4, <2>5, <4>1
    <3> QED BY <2>2, <2>5, <2>6, <3>1
  <2> QED BY <2>5, <2>6, <2>7, <2>8, <2>9 DEF With
<1> QED BY <1>3, <1>4, RemindersAre

\* A result is about what its call is about.
LEMMA Carrier ==
  ASSUME NEW n \in Nat, NEW h, Good(h, n), NEW i \in 1..Len(h), NEW e \in h[i].about
  PROVE  \E j \in 3..i : h[j].role # "tool" /\ e \in h[j].about /\ j >= i - 1
<1>1. h \in Seq(Messages) /\ Paired(h) /\ OrderedAt(h, n, i) /\ PairedAt(h, i)
  BY DEF Good, Ordered, Paired
<1>2. i >= 3
  BY <1>1 DEF OrderedAt
<1>3. CASE h[i].role # "tool"
  BY <1>2, <1>3
<1>4. CASE h[i].role = "tool"
  <2>1. e \in h[i - 1].about
    BY <1>1, <1>4 DEF OrderedAt
  <2>2. i - 1 \in 1..Len(h) /\ i - 1 >= 2
    BY <1>1, <1>2
  <2>3. h[i - 1].calls # <<>>
    <3>1. <<h[i].answers>> # <<>>
      OBVIOUS
    <3> QED BY <1>1, <1>4, <3>1 DEF PairedAt
  <2>4. h[i - 1].role = "assistant"
    BY <1>1, <2>2, <2>3 DEF Paired, PairedAt
  <2>5. OrderedAt(h, n, i - 1)
    BY <2>2 DEF Good, Ordered
  <2>6. i - 1 >= 3
    BY <2>1, <2>2, <2>5 DEF OrderedAt
  <2> QED BY <2>1, <2>4, <2>6
<1> QED BY <1>3, <1>4

\* No turn ends at a reminder.
LEMMA CutBefore ==
  ASSUME NEW n, NEW x, Good(x, n), NEW r, NEW h, With(h, x, r, n),
         NEW m \in 2..Len(h), Cut(h, m)
  PROVE  m \in 2..Len(x)
<1> DEFINE N == Len(x)
<1>1. N \in Nat /\ N >= 2
  BY DEF Good, Paired
<1>2. SUFFICES ASSUME m > N PROVE FALSE
  BY <1>1
<1>3. m - N \in 1..Len(r) /\ N + (m - N) = m
  BY <1>1, <1>2 DEF With
<1>4. h[N + (m - N)].role = "user"
  BY <1>3 DEF With
<1>5. h[m].role = "user"
  BY <1>3, <1>4
<1> QED BY <1>1, <1>2, <1>5 DEF Cut

\* What a prepared request leaves of the history x.
Prepared(x, n) ==
  \/ phase' = "failed" /\ UNCHANGED <<messages, request, count>>
  \/ /\ phase' = "asked" /\ UNCHANGED count /\ request' \in Requests
     /\ Good(messages', n) /\ messages'[Len(messages')].calls = <<>>
     /\ \E m \in 2..Len(x) :
          /\ Len(messages') = Len(x) - m + 2
          /\ \A i \in 1..Len(messages') : Similar(messages'[i], x[Origin(i, m)])

\* Preparing a request fails, or leaves a cut of the history, which is good.
LEMMA PrepareStep ==
  ASSUME NEW n \in Nat, NEW x, Good(x, n), x[Len(x)].calls = <<>>, NEW r \in Reminders,
         Prepare(x \o r, r)
  PROVE  Prepared(x, n)
<1> DEFINE h == x \o r
           N == Len(x)
           R == Len(r)
           old == OldTurns(h)
           fitting == Fitting(h)
           p == Candidate(Clamped(h), old, Min(fitting))
<1>1. With(h, x, r, n)
  BY WithReminders
<1>2. x \in Seq(Messages) /\ N \in Nat /\ N >= 2
  BY DEF Good, Paired
<1>3. Prepare(h, r)
  OBVIOUS
<1> HIDE DEF h
<1>4. /\ h \in Seq(Messages) /\ Good(h, n) /\ Paired(h) /\ r \in Seq(Messages)
      /\ R \in Nat /\ R >= 1 /\ Len(h) = N + R
      /\ \A i \in 1..N : h[i] = x[i]
      /\ \A i \in 1..R : h[N + i] = r[i] /\ r[i].role = "user"
  BY <1>1 DEF With, Good
<1>5. 3 <= Len(h) /\ h[Len(h)].role = "user"
  <2>1. R \in 1..R /\ 3 <= N + R
    BY <1>2, <1>4
  <2> QED BY <1>4, <2>1
<1>6. ~Malformed(h) /\ Len(old) \in Nat
  BY <1>4, <1>5, OldTurnsCut
<1>7. CASE fitting = {}
  BY <1>3, <1>6, <1>7 DEF Prepare, Fail, Prepared
<1>8. CASE fitting # {}
  <2>1. SetPrepared(p, r)
    BY <1>3, <1>6, <1>8 DEF Prepare
  <2>2. fitting \subseteq 0..(2 * Len(old)) /\ fitting \subseteq Nat
    BY <1>6 DEF Fitting
  <2>3. Min(fitting) \in 0..(2 * Len(old))
    BY <1>8, <2>2, Least
  <2>4. PICK m \in 2..Len(h) : CutOf(p, h, m)
    BY <1>4, <1>5, <2>3, CandidateCut
  <2> HIDE DEF p, fitting, old
  <2>5. m \in 2..N
    BY <1>1, <2>4, CutBefore DEF CutOf
  <2>6. Good(p, n) /\ p \in Seq(Messages)
    BY <1>4, <2>4, CutGood DEF CutOf
  <2>7. Len(p) = N + R - m + 2 /\ \A i \in 1..R : p[Len(p) - R + i] = r[i]
    <3>1. m \in 2..Len(x) /\ CutOf(p, h, m)
      BY ONLY <2>4, <2>5
    <3> QED BY ONLY <1>1, <1>2, <3>1, RemindersStay
  <2> DEFINE L == Len(p) - R
  <2>8. L \in Nat /\ 2 <= L /\ L < Len(p) /\ L = N - m + 2 /\ R <= Len(p)
    <3>1. Len(p) = N + R - m + 2 /\ m \in Nat /\ m >= 2 /\ m <= N
      BY <2>5, <2>7
    <3> QED BY <1>2, <1>4, <3>1
  <2>9. IsSuffix(r, p)
    BY <1>4, <2>6, <2>7, <2>8, SuffixIs
  <2>10. request' = p /\ messages' = SubSeq(p, 1, L) /\ phase' = "asked" /\ UNCHANGED count
    BY <2>1, <2>9 DEF SetPrepared
  <2>11. \A i \in (L + 1)..Len(p) : p[i].role = "user"
    <3>1. TAKE i \in (L + 1)..Len(p)
    <3>2. i - L \in 1..R /\ Len(p) - R + (i - L) = i
      BY <1>4, <2>8
    <3>3. p[i] = r[i - L]
      BY <2>7, <3>2
    <3> QED BY <1>4, <3>2, <3>3
  <2> HIDE DEF L
  <2>12. /\ Good(messages', n) /\ Len(messages') = L /\ messages'[L].calls = <<>>
         /\ \A i \in 1..L : messages'[i] = p[i]
    <3> DEFINE g == SubSeq(p, 1, L)
    <3>1. Good(g, n) /\ Len(g) = L /\ g[L].calls = <<>> /\ \A i \in 1..L : g[i] = p[i]
      BY <2>6, <2>8, <2>11, DropGood
    <3>2. messages' = g
      BY <2>10
    <3> HIDE DEF g
    <3> QED BY <3>1, <3>2
  <2>13. ASSUME NEW i \in 1..L PROVE Similar(p[i], x[Origin(i, m)])
    <3>1. i \in 1..Len(p) /\ Origin(i, m) \in 1..N
      BY <1>2, <2>5, <2>8 DEF Origin
    <3>2. Similar(p[i], h[Origin(i, m)])
      BY <2>4, <3>1 DEF CutOf
    <3> QED BY <1>4, <3>1, <3>2
  <2>14. p \in Requests
    <3>1. ASSUME NEW i \in 1..Len(p)
          PROVE  p[i].role = "assistant" => p[i].size <= MaxMessage
      BY <2>4 DEF CutOf, Similar
    <3> QED BY <2>6, <3>1 DEF Requests
  <2>15. \A i \in 1..Len(messages') : Similar(messages'[i], x[Origin(i, m)])
    BY <2>12, <2>13
  <2> QED BY <2>5, <2>8, <2>10, <2>12, <2>14, <2>15 DEF Prepared
<1> QED BY <1>7, <1>8

\* While there is a summary, nothing is forgotten.
LEMMA PreparedCarries ==
  ASSUME NEW n \in Nat, NEW x, Good(x, n), Prepared(x, n), phase' = "asked",
         \E i \in 1..Len(messages') : messages'[i].kind = "summary"
  PROVE  About(x) \subseteq About(messages')
<1> DEFINE N == Len(x)
<1>1. N \in Nat /\ N >= 2
  BY DEF Good, Paired
<1>2. PICK m \in 2..N :
        /\ Len(messages') = N - m + 2
        /\ \A i \in 1..Len(messages') : Similar(messages'[i], x[Origin(i, m)])
  BY DEF Prepared
<1>3. m = 2
  <2>1. PICK i \in 1..Len(messages') : messages'[i].kind = "summary"
    OBVIOUS
  <2>2. x[Origin(i, m)].kind = "summary"
    BY <1>2, <2>1 DEF Similar
  <2>3. Origin(i, m) \in 1..N /\ (Origin(i, m) = 3 => m = 2)
    <3>1. i \in 1..(N - m + 2)
      BY <1>2
    <3> QED BY <1>1, <3>1 DEF Origin
  <2> QED BY <2>2, <2>3 DEF Good, Ordered, OrderedAt
<1>4. Len(messages') = N /\ \A i \in 1..N : Similar(messages'[i], x[i])
  <2>1. \A i \in 1..N : Origin(i, 2) = i
    BY DEF Origin
  <2> QED BY <1>1, <1>2, <1>3, <2>1
<1>5. ASSUME NEW e \in About(x) PROVE e \in About(messages')
  <2>1. PICK i \in 1..N : e \in x[i].about
    BY <1>5 DEF About
  <2>2. PICK j \in 3..i : x[j].role # "tool" /\ e \in x[j].about
    BY <2>1, Carrier
  <2>3. j \in 1..N
    BY <1>1
  <2>4. e \in messages'[j].about
    BY <1>4, <2>2, <2>3 DEF Similar
  <2> QED BY <1>4, <2>3, <2>4 DEF About
<1> QED BY <1>5

-----------------------------------------------------------------------------
(* Summaries                                                               *)

\* The messages of a history into which a summary was inserted.
LEMMA InsertSummary ==
  ASSUME NEW c \in Seq(Messages), 2 <= Len(c), NEW x \in Messages
  PROVE  LET s == InsertAt(c, 3, x)
         IN  /\ s \in Seq(Messages) /\ Len(s) = Len(c) + 1
             /\ s[1] = c[1] /\ s[2] = c[2] /\ s[3] = x
             /\ \A i \in 3..Len(c) : s[i + 1] = c[i]
<1> DEFINE N == Len(c)
           a == SubSeq(c, 1, 2)
           b == SubSeq(c, 3, N)
           ax == a \o <<x>>
           s == ax \o b
<1>1. N \in Nat /\ N >= 2
  OBVIOUS
<1>2. \A i \in 1..N : c[i] \in Messages
  BY ElementOfSeq
<1>3. /\ a \in Seq(Messages) /\ Len(a) = 2 /\ a[1] = c[1] /\ a[2] = c[2]
  <2>1. \A i \in 1..2 : c[i] \in Messages
    BY <1>1, <1>2
  <2>2. /\ a \in Seq(Messages) /\ Len(a) = IF 1 <= 2 THEN 2 - 1 + 1 ELSE 0
        /\ \A i \in 1..(2 - 1 + 1) : a[i] = c[1 + i - 1]
    BY <2>1, SubSeqProperties
  <2> HIDE DEF a
  <2>3. a[1] = c[1 + 1 - 1] /\ a[2] = c[1 + 2 - 1]
    BY <2>2
  <2> QED BY <2>2, <2>3
<1>4. /\ b \in Seq(Messages) /\ Len(b) = N - 2
      /\ \A i \in 1..(N - 2) : b[i] = c[i + 2]
  <2>1. \A i \in 3..N : c[i] \in Messages
    BY <1>1, <1>2
  <2>2. /\ b \in Seq(Messages) /\ Len(b) = IF 3 <= N THEN N - 3 + 1 ELSE 0
        /\ \A i \in 1..(N - 3 + 1) : b[i] = c[3 + i - 1]
    BY <1>1, <2>1, SubSeqProperties
  <2> HIDE DEF b
  <2> HIDE DEF N
  <2>3. N - 3 + 1 = N - 2 /\ (N = 2 \/ 3 <= N)
    BY <1>1
  <2>6. Len(b) = N - 2
    BY <1>1, <2>2, <2>3
  <2>4. Len(b) = N - 2 /\ \A i \in 1..(N - 2) : b[i] = c[3 + i - 1]
    BY <2>2, <2>3, <2>6
  <2>5. \A i \in 1..(N - 2) : 3 + i - 1 = i + 2
    BY <1>1
  <2> QED BY <2>2, <2>4, <2>5
<1> HIDE DEF a, b
<1>5. /\ <<x>> \in Seq(Messages) /\ Len(<<x>>) = 1 /\ <<x>>[1] = x
  OBVIOUS
<1>6. /\ ax \in Seq(Messages) /\ Len(ax) = 3
      /\ ax[1] = c[1] /\ ax[2] = c[2] /\ ax[3] = x
  <2>1. /\ ax \in Seq(Messages) /\ Len(ax) = Len(a) + Len(<<x>>)
        /\ \A i \in 1..(Len(a) + Len(<<x>>)) :
             ax[i] = IF i <= Len(a) THEN a[i] ELSE <<x>>[i - Len(a)]
    BY <1>3, <1>5, ConcatProperties
  <2> QED BY <1>3, <1>5, <2>1
<1> HIDE DEF ax
<1>7. /\ s \in Seq(Messages) /\ Len(s) = Len(ax) + Len(b)
      /\ \A i \in 1..(Len(ax) + Len(b)) : s[i] = IF i <= Len(ax) THEN ax[i] ELSE b[i - Len(ax)]
  BY <1>4, <1>6, ConcatProperties
<1> HIDE DEF s
<1>8. Len(s) = N + 1 /\ s[1] = c[1] /\ s[2] = c[2] /\ s[3] = x
  BY <1>1, <1>4, <1>6, <1>7
<1>9. ASSUME NEW i \in 3..N PROVE s[i + 1] = c[i]
  <2>1. i + 1 \in 1..(Len(ax) + Len(b)) /\ ~(i + 1 <= Len(ax)) /\ i + 1 - Len(ax) = i - 2
    BY <1>1, <1>4, <1>6
  <2>2. s[i + 1] = b[i - 2]
    BY <1>7, <2>1
  <2>3. i - 2 \in 1..(N - 2) /\ (i - 2) + 2 = i
    BY <1>1
  <2> QED BY <1>4, <2>2, <2>3
<1>10. InsertAt(c, 3, x) = s
  <2>1. 3 - 1 = 2
    OBVIOUS
  <2> QED BY <2>1 DEF InsertAt, s, ax, a, b
<1> QED BY <1>7, <1>8, <1>9, <1>10

\* The history h with a summary, which is about A, in the place of positions 3 to m.
SummaryOf(s, h, m, A) ==
  /\ s \in Seq(Messages) /\ m \in 3..Len(h) /\ Cut(h, m) /\ Len(s) = Len(h) - m + 3
  /\ Similar(s[1], h[1]) /\ Similar(s[2], h[2])
  /\ s[3].role = "assistant" /\ s[3].calls = <<>> /\ s[3].answers = "none" /\ s[3].about = A
  /\ \A i \in (m + 1)..Len(h) : Similar(s[i - m + 3], h[i])
  /\ A = UNION {h[i].about : i \in 3..m}

\* The summary comes where the old turns were.
LEMMA SummarizedIs ==
  ASSUME NEW n \in Nat, NEW h, Good(h, n), 3 <= Len(h), h[Len(h)].role = "user",
         OldTurns(h) # <<>>, NEW size \in Nat
  PROVE  \E m, A : SummaryOf(Summarized(h, size), h, m, A)
<1> DEFINE N == Len(h)
           g == Clamped(h)
           old == OldTurns(h)
           c == Without(g, OldPositions(h))
           A == About(Source(h))
           x == Summary(size, A)
<1>1. h \in Seq(Messages) /\ Paired(h) /\ N \in Nat
  BY DEF Good
<1>2. /\ g \in Seq(Messages) /\ Len(g) = N
      /\ \A i \in 1..N : Similar(g[i], h[i]) /\ g[i].about = h[i].about
  BY <1>1, ClampedSimilar
<1>3. PICK m \in 3..N : Cut(h, m) /\ OldPositions(h) = 3..m
  <2>1. /\ Len(old) \in Nat
        /\ \A k \in 0..Len(old) : \E m \in 2..N :
             Cut(h, m) /\ (k > 0 => m > 2) /\ Positions(old, k) = 3..m
    BY <1>1, OldTurnsCut
  <2>2. Len(old) # 0
    <3>1. old \in Seq(SUBSET Nat)
      BY <1>1, OldTurnsCut
    <3> HIDE DEF old
    <3> QED BY <3>1, EmptySeq DEF old
  <2>3. Len(old) \in 0..Len(old) /\ Len(old) > 0
    BY <2>1, <2>2
  <2>4. PICK m \in 2..N : Cut(h, m) /\ m > 2 /\ Positions(old, Len(old)) = 3..m
    BY <2>1, <2>3
  <2>5. m \in 3..N /\ OldPositions(h) = 3..m
    BY <2>4 DEF OldPositions
  <2> QED BY <2>4, <2>5
<1> HIDE DEF g
<1>4. CutOf(c, h, m)
  <2>1. m \in 2..N
    OBVIOUS
  <2> QED BY <1>1, <1>2, <1>3, <2>1, WithoutIsCut
<1>5. A = UNION {h[i].about : i \in 3..m}
  <2>1. Source(h) = Without(g, 1..N \ 3..m)
    BY <1>3 DEF Source, g
  <2>2. About(Source(h)) = UNION {g[i].about : i \in (1..N) \ (1..N \ 3..m)}
    BY <1>2, <2>1, AboutWithout
  <2>3. (1..N) \ (1..N \ 3..m) = 3..m /\ 3..m \subseteq 1..N
    BY <1>1
  <2>4. \A i \in 3..m : g[i].about = h[i].about
    BY <1>2, <2>3
  <2> QED BY <2>2, <2>3, <2>4
<1>6. A \subseteq 1..MaxExchanges
  <2>1. \A i \in 3..m : i \in 1..N
    BY <1>1
  <2>2. \A i \in 3..m : h[i].about \subseteq 1..MaxExchanges
    BY <1>1, <2>1, ElementOf
  <2> QED BY <1>5, <2>2
<1> HIDE DEF A
<1>7. /\ x \in Messages /\ x.role = "assistant" /\ x.calls = <<>> /\ x.answers = "none"
      /\ x.about = A
  BY <1>6 DEF Summary, Message, Messages, Kinds
<1>8. Insertion(h) = 2
  <2>1. OldPositions(h) \subseteq Nat /\ 3 \in OldPositions(h)
    BY <1>3
  <2>2. Min(OldPositions(h)) \in 3..m /\ Min(OldPositions(h)) <= 3
    BY <1>3, <2>1, Least
  <2>3. Min(OldPositions(h)) = 3
    BY <2>2
  <2> QED BY <2>3 DEF Insertion
<1> DEFINE s == InsertAt(c, 3, x)
<1>9. Summarized(h, size) = s
  <2>1. 2 + 1 = 3
    OBVIOUS
  <2> QED BY <1>8, <2>1 DEF Summarized, Retained, g, A
<1> HIDE DEF x, c
<1>10. c \in Seq(Messages) /\ Len(c) = N - m + 2 /\ 2 <= Len(c)
  BY <1>1, <1>4 DEF CutOf
<1>11. /\ s \in Seq(Messages) /\ Len(s) = Len(c) + 1
       /\ s[1] = c[1] /\ s[2] = c[2] /\ s[3] = x
       /\ \A i \in 3..Len(c) : s[i + 1] = c[i]
  BY <1>7, <1>10, InsertSummary
<1> HIDE DEF s
<1>12. Similar(c[1], h[1]) /\ Similar(c[2], h[2])
  <2>1. 1 \in 1..Len(c) /\ 2 \in 1..Len(c) /\ Origin(1, m) = 1 /\ Origin(2, m) = 2
    BY <1>1, <1>10 DEF Origin
  <2> QED BY <1>4, <2>1 DEF CutOf
<1>13. ASSUME NEW i \in (m + 1)..N PROVE Similar(s[i - m + 3], h[i])
  <2> DEFINE j == i - m + 2
  <2>1. j \in 3..Len(c) /\ j \in 1..Len(c) /\ Origin(j, m) = i /\ i - m + 3 = j + 1
    BY <1>1, <1>10 DEF Origin
  <2> HIDE DEF j
  <2>2. Similar(c[j], h[i])
    BY <1>4, <2>1 DEF CutOf
  <2> QED BY <1>11, <2>1, <2>2
<1>14. Len(s) = N - m + 3
  BY <1>1, <1>10, <1>11
<1>15. SummaryOf(s, h, m, A)
  BY <1>3, <1>5, <1>7, <1>11, <1>12, <1>13, <1>14 DEF SummaryOf
<1> QED BY <1>9, <1>15

\* A summary in the place of turns parts no call from its results.
LEMMA SummaryPaired ==
  ASSUME NEW h \in Seq(Messages), Paired(h), NEW s, NEW m, NEW A, SummaryOf(s, h, m, A)
  PROVE  Paired(s)
<1> DEFINE N == Len(h)
<1>1. /\ N \in Nat /\ m \in 3..N /\ Len(s) = N - m + 3 /\ Cut(h, m)
      /\ Similar(s[1], h[1]) /\ Similar(s[2], h[2])
      /\ s[3].role = "assistant" /\ s[3].calls = <<>> /\ s[3].answers = "none"
      /\ \A i \in (m + 1)..N : Similar(s[i - m + 3], h[i])
  BY DEF SummaryOf
<1>2. N \in Nat /\ m \in 3..N /\ Len(s) = N - m + 3
  BY <1>1
<1>3. h[1].role = "system" /\ h[2].role = "user" /\ \A i \in 1..N : PairedAt(h, i)
  BY DEF Paired
<1>4. /\ s[1].role = "system" /\ s[1].calls = <<>> /\ s[1].answers = "none"
      /\ s[2].role = "user" /\ s[2].calls = <<>> /\ s[2].answers = "none"
  <2>1. PairedAt(h, 1) /\ PairedAt(h, 2)
    BY <1>1, <1>3
  <2> QED BY <1>1, <1>3, <2>1 DEF Similar, PairedAt
<1>5. ASSUME NEW i \in 1..Len(s) PROVE PairedAt(s, i)
  <2>1. CASE i <= 3
    <3>1. i = 1 \/ i = 2 \/ i = 3
      BY <2>1
    <3> QED BY <1>1, <1>4, <3>1 DEF PairedAt
  <2>2. CASE i > 3
    <3> DEFINE j == i + m - 3
    <3>1. j \in (m + 1)..N /\ j \in 1..N /\ j - m + 3 = i /\ j # 1 /\ j - 1 \in m..N
      <4>1. i \in Int /\ m \in Int /\ N \in Int /\ 3 <= m
        BY ONLY <1>2, <1>5
      <4>2. 3 < i /\ i <= N - m + 3
        BY ONLY <1>2, <1>5, <2>2
      <4> QED BY ONLY <4>1, <4>2
    <3> HIDE DEF j
    <3>2. Similar(s[i], h[j]) /\ PairedAt(h, j)
      BY <1>1, <1>3, <3>1
    <3>3. s[i].role = h[j].role /\ s[i].calls = h[j].calls /\ s[i].answers = h[j].answers
      BY <3>2 DEF Similar
    <3>4. s[i].role = "tool" => s[i - 1].calls = <<s[i].answers>>
      <4>1. SUFFICES ASSUME s[i].role = "tool" PROVE s[i - 1].calls = <<s[i].answers>>
        OBVIOUS
      <4>2. h[j - 1].calls = <<h[j].answers>>
        BY <3>2, <3>3, <4>1 DEF PairedAt
      <4>3. j - 1 # m
        <5>1. <<h[j].answers>> # <<>>
          OBVIOUS
        <5>2. h[m].calls = <<>>
          BY <1>1 DEF Cut
        <5> QED BY <4>2, <5>1, <5>2
      <4>4. j - 1 \in (m + 1)..N /\ (j - 1) - m + 3 = i - 1
        BY <1>1, <3>1, <4>3
      <4>5. Similar(s[i - 1], h[j - 1])
        BY <1>1, <4>4
      <4> QED BY <3>3, <4>2, <4>5 DEF Similar
    <3>5. (s[i].calls # <<>> /\ i # Len(s)) => s[i + 1].role = "tool"
      <4>1. SUFFICES ASSUME s[i].calls # <<>>, i # Len(s) PROVE s[i + 1].role = "tool"
        OBVIOUS
      <4>2. j # N /\ j + 1 \in (m + 1)..N /\ (j + 1) - m + 3 = i + 1
        <5>1. i # N - m + 3 /\ i \in Int
          BY <1>2, <4>1
        <5> QED BY <1>2, <3>1, <5>1
      <4>3. h[j + 1].role = "tool"
        BY <3>2, <3>3, <4>1, <4>2 DEF PairedAt
      <4>4. Similar(s[i + 1], h[j + 1])
        BY <1>1, <4>2
      <4> QED BY <4>3, <4>4 DEF Similar
    <3>6. i # 1
      BY <2>2
    <3> QED BY <3>1, <3>2, <3>3, <3>4, <3>5, <3>6 DEF PairedAt
  <2> QED BY <1>1, <2>1, <2>2
<1>6. 2 <= Len(s)
  BY <1>1
<1> QED BY <1>4, <1>5, <1>6 DEF Paired

\* What is found at j, but not in a result, is found in the history with the summary.
LEMMA SummaryAbout ==
  ASSUME NEW h \in Seq(Messages), NEW s, NEW m, NEW A, SummaryOf(s, h, m, A),
         NEW j \in 3..Len(h), h[j].role # "tool", NEW e \in h[j].about
  PROVE  /\ j <= m => e \in s[3].about
         /\ j > m => e \in s[j - m + 3].about
<1> DEFINE N == Len(h)
<1>1. /\ N \in Nat /\ m \in 3..N /\ Len(s) = N - m + 3 /\ s[3].about = A
      /\ A = UNION {h[i].about : i \in 3..m}
      /\ \A i \in (m + 1)..N : Similar(s[i - m + 3], h[i])
  BY DEF SummaryOf
<1>2. CASE j <= m
  <2>1. j \in 3..m /\ ~(j > m)
    BY <1>1, <1>2
  <2>2. e \in A
    BY <1>1, <2>1
  <2> QED BY <1>1, <2>1, <2>2
<1>3. CASE j > m
  <2>1. j \in (m + 1)..N /\ ~(j <= m)
    BY <1>1, <1>3
  <2>2. Similar(s[j - m + 3], h[j])
    BY <1>1, <2>1
  <2>3. e \in s[j - m + 3].about
    BY <2>2 DEF Similar
  <2> QED BY <2>1, <2>3
<1> QED BY <1>1, <1>2, <1>3

\* A summary in the place of turns keeps a history good.
LEMMA SummaryGood ==
  ASSUME NEW n \in Nat, NEW h, Good(h, n), NEW s, NEW m, NEW A, SummaryOf(s, h, m, A)
  PROVE  Good(s, n)
<1> DEFINE N == Len(h)
<1>1. h \in Seq(Messages) /\ Paired(h) /\ \A i \in 1..N : OrderedAt(h, n, i)
  BY DEF Good, Ordered
<1>2. Paired(s)
  BY <1>1, SummaryPaired
<1>3. /\ N \in Nat /\ m \in 3..N /\ Len(s) = N - m + 3 /\ Cut(h, m) /\ s \in Seq(Messages)
      /\ Similar(s[1], h[1]) /\ Similar(s[2], h[2])
      /\ s[3].role = "assistant" /\ s[3].about = A
      /\ A = UNION {h[i].about : i \in 3..m}
      /\ \A i \in (m + 1)..N : Similar(s[i - m + 3], h[i])
  BY <1>1 DEF SummaryOf
<1>4. ASSUME NEW k \in 3..m, NEW e \in h[k].about, NEW f \in e..n
      PROVE  \E j \in 3..Len(s) : s[j].role = "assistant" /\ f \in s[j].about
  <2>1. k \in 1..N /\ OrderedAt(h, n, k)
    BY <1>1, <1>3
  <2>2. \/ f \in h[k].about
        \/ \E j \in k..N : h[j].role = "assistant" /\ f \in h[j].about
    BY <2>1 DEF OrderedAt, Covered
  <2>3. CASE \E j \in 3..m : f \in h[j].about
    <3>1. f \in A
      BY <1>3, <2>3
    <3>2. 3 \in 3..Len(s)
      BY <1>3
    <3> QED BY <1>3, <3>1, <3>2
  <2>4. CASE ~\E j \in 3..m : f \in h[j].about
    <3>1. PICK j \in k..N : h[j].role = "assistant" /\ f \in h[j].about
      BY <2>2, <2>4
    <3>2. j \in (m + 1)..N
      BY <1>3, <2>4, <3>1
    <3>3. Similar(s[j - m + 3], h[j]) /\ j - m + 3 \in 3..Len(s)
      BY <1>3, <3>2
    <3> QED BY <3>1, <3>3 DEF Similar
  <2> QED BY <2>3, <2>4
<1>5. ASSUME NEW i \in 1..Len(s) PROVE OrderedAt(s, n, i)
  <2>1. CASE i \in {1, 2}
    <3>1. i \in 1..N /\ Similar(s[i], h[i]) /\ OrderedAt(h, n, i) /\ i <= 2
      BY <1>1, <1>3, <2>1
    <3>2. s[i].about = {} /\ s[i].kind # "summary"
      BY <2>1, <3>1 DEF Similar, OrderedAt
    <3> QED BY <3>2 DEF OrderedAt, Covered
  <2>2. CASE i = 3
    <3>1. A \subseteq 1..n
      <4>1. \A k \in 3..m : k \in 1..N /\ h[k].about \subseteq 1..n
        BY <1>1, <1>3 DEF OrderedAt
      <4> QED BY <1>3, <4>1
    <3>2. Covered(s, n, 3)
      <4>1. SUFFICES ASSUME NEW e \in A, NEW f \in e..n
                     PROVE  \E j \in 3..Len(s) : s[j].role = "assistant" /\ f \in s[j].about
        BY <1>3 DEF Covered
      <4>2. PICK k \in 3..m : e \in h[k].about
        BY <1>3
      <4> QED BY <1>4, <4>2
    <3> QED BY <1>3, <2>2, <3>1, <3>2 DEF OrderedAt
  <2>3. CASE i > 3
    <3> DEFINE k == i + m - 3
    <3>1. k \in (m + 1)..N /\ k \in 1..N /\ k - m + 3 = i /\ k > 3 /\ k - 1 \in m..N
      BY <1>3, <2>3
    <3> HIDE DEF k
    <3>2. Similar(s[i], h[k]) /\ OrderedAt(h, n, k)
      BY <1>1, <1>3, <3>1
    <3>3. s[i].about = {} \/ s[i].about = h[k].about
      BY <3>2 DEF Similar
    <3>4. s[i].about \subseteq 1..n
      BY <3>2, <3>3 DEF OrderedAt
    <3>5. s[i].kind # "summary"
      BY <3>1, <3>2 DEF Similar, OrderedAt
    <3>6. s[i].role = "tool" => s[i].about \subseteq s[i - 1].about
      <4>1. SUFFICES ASSUME s[i].role = "tool", s[i].about # {}
                     PROVE  s[i].about \subseteq s[i - 1].about
        OBVIOUS
      <4>2. s[i].about = h[k].about /\ h[k].about \subseteq h[k - 1].about
        BY <3>2, <3>3, <4>1 DEF Similar, OrderedAt
      <4>3. s[i - 1].calls = <<s[i].answers>> /\ i - 1 \in 1..Len(s)
        <5>1. PairedAt(s, i)
          BY <1>2 DEF Paired
        <5>2. i - 1 \in 1..Len(s)
          BY <1>3, <2>3
        <5> QED BY <4>1, <5>1, <5>2 DEF PairedAt
      <4>4. s[i - 1].calls # <<>>
        <5>1. <<s[i].answers>> # <<>>
          OBVIOUS
        <5> QED BY <4>3, <5>1
      <4>5. s[i - 1].role = "assistant"
        BY <1>2, <4>3, <4>4 DEF Paired, PairedAt
      <4>6. k - 1 # m
        <5>1. k - 1 = m => i - 1 = 3
          BY <1>3, <3>1
        <5>2. s[3].calls = <<>>
          BY DEF SummaryOf
        <5> QED BY <4>4, <5>1, <5>2
      <4>7. k - 1 \in (m + 1)..N /\ (k - 1) - m + 3 = i - 1
        BY <1>3, <3>1, <4>6
      <4>8. Similar(s[i - 1], h[k - 1])
        BY <1>3, <4>7
      <4>9. s[i - 1].about = h[k - 1].about
        BY <4>5, <4>8 DEF Similar
      <4> QED BY <4>2, <4>9
    <3>7. Covered(s, n, i)
      <4>1. SUFFICES ASSUME NEW e \in s[i].about, NEW f \in e..n, f \notin s[i].about
                     PROVE  \E j \in i..Len(s) : s[j].role = "assistant" /\ f \in s[j].about
        BY DEF Covered
      <4>2. s[i].about = h[k].about
        BY <3>3, <4>1
      <4>3. PICK j \in k..N : h[j].role = "assistant" /\ f \in h[j].about
        BY <3>2, <4>1, <4>2 DEF OrderedAt, Covered
      <4>4. j \in (m + 1)..N /\ j - m + 3 \in i..Len(s)
        BY <1>3, <3>1
      <4>5. Similar(s[j - m + 3], h[j])
        BY <1>3, <4>4
      <4> QED BY <4>3, <4>4, <4>5 DEF Similar
    <3> QED BY <2>3, <3>4, <3>5, <3>6, <3>7 DEF OrderedAt
  <2>4. i = 1 \/ i = 2 \/ i = 3 \/ i > 3
    BY <1>3
  <2> QED BY <2>1, <2>2, <2>3, <2>4
<1> QED BY <1>2, <1>3, <1>5 DEF Good, Ordered

\* What kept is of the history x, when its old turns become the summary in s.
KeptOf(kept, s, h, x, r, size) ==
  h = x \o r /\ s = Summarized(h, size) /\ kept = SubSeq(s, 1, Len(s) - Len(r))

\* It is as good as the history, and about all that the history was about.
LEMMA SummaryKept ==
  ASSUME NEW n \in Nat, NEW x, Good(x, n), x[Len(x)].calls = <<>>, NEW r \in Reminders,
         NEW size \in Nat, NEW kept, NEW s, NEW h, KeptOf(kept, s, h, x, r, size),
         OldTurns(h) # <<>>
  PROVE  /\ ~Malformed(s) /\ IsSuffix(r, s)
         /\ Good(kept, n) /\ kept[Len(kept)].calls = <<>>
         /\ About(x) \subseteq About(kept)
<1> DEFINE N == Len(x)
           R == Len(r)
<1>1. With(h, x, r, n)
  BY WithReminders DEF KeptOf
<1>2. N \in Nat /\ N >= 2 /\ R \in Nat /\ R >= 1 /\ Len(h) = N + R
  BY <1>1 DEF With, Good, Paired
<1>3. /\ h \in Seq(Messages) /\ Good(h, n) /\ r \in Seq(Messages)
      /\ \A i \in 1..N : h[i] = x[i]
      /\ \A i \in 1..R : h[N + i] = r[i] /\ r[i].role = "user"
  BY <1>1 DEF With
<1>4. 3 <= Len(h) /\ h[Len(h)].role = "user"
  <2>1. R \in 1..R /\ 3 <= N + R
    BY <1>2
  <2> QED BY <1>2, <1>3, <2>1
<1>5. PICK m, A : SummaryOf(s, h, m, A)
  BY <1>3, <1>4, SummarizedIs DEF KeptOf
<1>6. Good(s, n) /\ Paired(s) /\ s \in Seq(Messages)
  <2>1. Good(s, n)
    BY <1>3, <1>5, SummaryGood
  <2> QED BY <2>1 DEF Good
<1>7. m \in 3..N /\ Len(s) = N + R - m + 3
  <2>1. Cut(h, m) /\ m \in 3..Len(h) /\ Len(s) = Len(h) - m + 3
    BY <1>5 DEF SummaryOf
  <2>2. m \in 2..Len(h)
    BY <1>2, <2>1
  <2>3. m \in 2..N
    BY <1>1, <2>1, <2>2, CutBefore
  <2> QED BY <1>2, <2>1, <2>3
<1> DEFINE L == Len(s) - R
<1>8. L \in Nat /\ 3 <= L /\ L < Len(s) /\ L = N - m + 3 /\ R <= Len(s) /\ L + R = Len(s)
  BY <1>2, <1>7
<1>9. ASSUME NEW i \in 1..R PROVE s[L + i] = r[i] /\ s[L + i].role = "user"
  <2>1. N + i \in (m + 1)..Len(h) /\ (N + i) - m + 3 = L + i
    BY <1>2, <1>7, <1>8
  <2>2. Similar(s[L + i], h[N + i])
    BY <1>5, <2>1 DEF SummaryOf
  <2> QED BY <1>3, <2>2 DEF Similar
<1>10. IsSuffix(r, s)
  BY <1>3, <1>6, <1>8, <1>9, SuffixIs
<1>11. \A i \in (L + 1)..Len(s) : s[i].role = "user"
  <2>1. TAKE i \in (L + 1)..Len(s)
  <2>2. i - L \in 1..R /\ L + (i - L) = i
    BY <1>2, <1>8
  <2> QED BY <1>9, <2>2
<1>12. ~Malformed(s)
  <2>1. Len(s) \in (L + 1)..Len(s) /\ 3 <= Len(s)
    BY <1>2, <1>8
  <2>2. s[Len(s)].role = "user"
    BY <1>11, <2>1
  <2> QED BY <1>6, <2>1, <2>2, OldTurnsCut
<1>13. kept = SubSeq(s, 1, L)
  BY DEF KeptOf
<1> HIDE DEF L
<1>14. /\ Good(kept, n) /\ Len(kept) = L /\ kept[L].calls = <<>>
       /\ \A i \in 1..L : kept[i] = s[i]
  <2> DEFINE g == SubSeq(s, 1, L)
  <2>1. 2 <= L
    BY <1>8
  <2>2. Good(g, n) /\ Len(g) = L /\ g[L].calls = <<>> /\ \A i \in 1..L : g[i] = s[i]
    <3>1. n \in Nat /\ Good(s, n) /\ L \in Nat /\ L < Len(s)
      BY <1>6, <1>8
    <3> QED BY ONLY <1>11, <2>1, <3>1, DropGood
  <2>3. kept = g
    BY <1>13
  <2> HIDE DEF g
  <2> QED BY <2>2, <2>3
<1>15. ASSUME NEW e \in About(x) PROVE e \in About(kept)
  <2>1. PICK i \in 1..N : e \in x[i].about
    BY <1>15 DEF About
  <2>2. PICK j \in 3..i : x[j].role # "tool" /\ e \in x[j].about
    BY <2>1, Carrier
  <2>3. j \in 1..N /\ j \in 3..Len(h) /\ h[j] = x[j]
    BY <1>2, <1>3
  <2>4. /\ j <= m => e \in s[3].about
        /\ j > m => e \in s[j - m + 3].about
    <3>1. h[j].role # "tool" /\ e \in h[j].about /\ j \in 3..Len(h) /\ h \in Seq(Messages)
      BY <1>3, <2>2, <2>3
    <3> QED BY ONLY <1>5, <3>1, SummaryAbout
  <2>5. 3 \in 1..L /\ (j > m => j - m + 3 \in 1..L) /\ (j <= m \/ j > m)
    <3>1. /\ N \in Nat /\ m \in 3..N /\ L = N - m + 3 /\ L >= 3
          /\ j \in Nat /\ j <= N
      BY <1>2, <1>7, <1>8, <2>3
    <3> HIDE DEF N
    <3>2. j > m => j - m + 3 \in 1..L
      BY <3>1
    <3>3. 3 \in 1..L /\ (j <= m \/ j > m)
      BY <3>1
    <3> QED BY <3>2, <3>3
  <2>6. \E k \in 1..L : e \in s[k].about
    BY <2>4, <2>5
  <2> QED BY <1>14, <2>6 DEF About
<1> QED BY <1>10, <1>12, <1>14, <1>15

\* A summary is followed by a request from what it leaves, or ends the run.
LEMMA SummarizeStep ==
  ASSUME NEW n \in Nat, Good(messages, n), messages[Len(messages)].calls = <<>>, Summarize,
         ~Fail("failed")
  PROVE  \E x : /\ Good(x, n) /\ x[Len(x)].calls = <<>> /\ About(messages) \subseteq About(x)
                /\ \E r \in Reminders : Prepare(x \o r, r)
<1>1. PICK r \in Reminders :
        LET h == messages \o r
        IN  /\ OldTurns(h) # <<>>
            /\ \E size \in SummarySizes, renewed \in Reminders :
                 LET s == Summarized(h, size)
                     kept == SubSeq(s, 1, Len(s) - Len(r))
                 IN  IF Malformed(s) \/ ~IsSuffix(r, s)
                     THEN Fail("broken")
                     ELSE Prepare(kept \o renewed, renewed)
  BY DEF Summarize, SummaryDue
<1> DEFINE h == messages \o r
<1>2. OldTurns(h) # <<>>
  BY <1>1
<1>3. PICK size \in SummarySizes, renewed \in Reminders :
        LET s == Summarized(h, size)
            kept == SubSeq(s, 1, Len(s) - Len(r))
        IN  IF Malformed(s) \/ ~IsSuffix(r, s)
            THEN Fail("broken")
            ELSE Prepare(kept \o renewed, renewed)
  BY <1>1
<1> DEFINE s == Summarized(h, size)
           kept == SubSeq(s, 1, Len(s) - Len(r))
<1>4. size \in Nat
  BY HistoryAssumption
<1>5. IF Malformed(s) \/ ~IsSuffix(r, s) THEN Fail("broken")
      ELSE Prepare(kept \o renewed, renewed)
  BY <1>3
<1>6. /\ ~Malformed(s) /\ IsSuffix(r, s)
      /\ Good(kept, n) /\ kept[Len(kept)].calls = <<>>
      /\ About(messages) \subseteq About(kept)
  <2>1. KeptOf(kept, s, h, messages, r, size)
    BY DEF KeptOf
  <2>2. /\ n \in Nat /\ r \in Reminders
        /\ Good(messages, n) /\ messages[Len(messages)].calls = <<>>
    OBVIOUS
  <2> HIDE DEF h, s, kept
  <2> QED BY ONLY <1>2, <1>4, <2>1, <2>2, SummaryKept
<1> HIDE DEF s, kept
<1>7. Prepare(kept \o renewed, renewed)
  BY <1>5, <1>6
<1> QED BY <1>6, <1>7

-----------------------------------------------------------------------------
(* The run                                                                 *)

\* A run starts with a good history.
LEMMA HistoryInit == Init => HInv
<1> SUFFICES ASSUME Init PROVE HInv
  OBVIOUS
<1>1. messages = <<System, Task>> /\ request = <<>> /\ phase = "ready" /\ count = 0
  BY DEF Init
<1>2. /\ System \in Messages /\ System.role = "system" /\ System.calls = <<>>
      /\ System.answers = "none" /\ System.about = {} /\ System.kind = "system"
  BY DEF System, Message, Messages, Kinds
<1>3. /\ Task \in Messages /\ Task.role = "user" /\ Task.calls = <<>>
      /\ Task.answers = "none" /\ Task.about = {} /\ Task.kind = "task"
  BY DEF Task, Message, Messages, Kinds
<1>4. /\ messages \in Seq(Messages) /\ Len(messages) = 2
      /\ messages[1] = System /\ messages[2] = Task
  BY <1>1, <1>2, <1>3
<1>5. ASSUME NEW i \in 1..2 PROVE PairedAt(messages, i) /\ OrderedAt(messages, 0, i)
  <2>1. i = 1 \/ i = 2
    OBVIOUS
  <2>2. PairedAt(messages, i)
    BY <1>2, <1>3, <1>4, <2>1 DEF PairedAt
  <2>3. OrderedAt(messages, 0, i)
    BY <1>2, <1>3, <1>4, <2>1 DEF OrderedAt, Covered
  <2> QED BY <2>2, <2>3
<1>6. Good(messages, 0)
  BY <1>2, <1>3, <1>4, <1>5 DEF Good, Paired, Ordered
<1>7. request \in Requests
  <2>1. <<>> \in Seq(Messages) /\ Len(<<>>) = 0
    BY EmptySeq
  <2> QED BY <1>1, <2>1 DEF Requests
<1>8. 0 \in 0..MaxExchanges
  BY HistoryAssumption
<1>9. messages[Len(messages)].calls = <<>>
  BY <1>3, <1>4
<1> QED BY <1>1, <1>6, <1>7, <1>8, <1>9 DEF HInv

\* A request that was prepared, or for which nothing fits.
LEMMA PreparedInv ==
  ASSUME HInv, phase = "ready", count < MaxExchanges, NEW x, Prepared(x, count)
  PROVE  HInv'
<1>1. CASE phase' = "failed" /\ UNCHANGED <<messages, request, count>>
  BY <1>1 DEF HInv
<1>2. CASE ~(phase' = "failed" /\ UNCHANGED <<messages, request, count>>)
  <2>1. /\ phase' = "asked" /\ count' = count /\ request' \in Requests
        /\ Good(messages', count) /\ messages'[Len(messages')].calls = <<>>
    BY <1>2 DEF Prepared
  <2> QED BY <2>1 DEF HInv
<1> QED BY <1>1, <1>2

\* The fields of an answer of the model.
LEMMA AnswerOf ==
  ASSUME NEW calls \in {<<>>} \cup {<<id>> : id \in Ids}, NEW size \in Sizes,
         NEW n \in 1..MaxExchanges
  PROVE  LET x == Message("answer", "assistant", calls, "none", size, {n})
         IN  /\ x \in Messages /\ x.kind = "answer" /\ x.role = "assistant" /\ x.calls = calls
             /\ x.answers = "none" /\ x.about = {n}
BY HistoryAssumption DEF Message, Messages, Kinds

\* Every step keeps the history good.
LEMMA HistoryNext == HInv /\ [Next]_vars => HInv'
<1> SUFFICES ASSUME HInv, [Next]_vars PROVE HInv'
  OBVIOUS
<1> DEFINE N == Len(messages)
<1>1. /\ Good(messages, count) /\ messages \in Seq(Messages) /\ request \in Requests
      /\ count \in Nat /\ count <= MaxExchanges /\ MaxExchanges \in Nat
      /\ phase = "asked" => count < MaxExchanges
      /\ phase = "owed" <=> messages[N].calls # <<>>
      /\ phase = "owed" => messages[N].about = {count}
  BY HistoryAssumption DEF HInv, Good
<1>2. N \in Nat /\ N >= 2 /\ N \in 1..N
  BY <1>1 DEF Good, Paired
<1>3. CASE PrepareRequest
  <2>1. phase = "ready" /\ count < MaxExchanges
    BY <1>3 DEF PrepareRequest
  <2>2. PICK r \in Reminders : Prepare(messages \o r, r)
    BY <1>3 DEF PrepareRequest
  <2>3. Prepared(messages, count)
    BY <1>1, <2>1, <2>2, PrepareStep
  <2> QED BY <2>1, <2>3, PreparedInv
<1>4. CASE Summarize
  <2>1. phase = "ready" /\ count < MaxExchanges
    BY <1>4 DEF Summarize
  <2>2. CASE Fail("failed")
    BY <2>1, <2>2 DEF Fail, HInv
  <2>3. CASE ~Fail("failed")
    <3>1. PICK x : Good(x, count) /\ x[Len(x)].calls = <<>>
                   /\ \E r \in Reminders : Prepare(x \o r, r)
      BY <1>1, <1>4, <2>1, <2>3, SummarizeStep
    <3>2. PICK r \in Reminders : Prepare(x \o r, r)
      BY <3>1
    <3>3. Prepared(x, count)
      BY <1>1, <3>1, <3>2, PrepareStep
    <3> QED BY <2>1, <3>3, PreparedInv
  <2> QED BY <2>2, <2>3
<1>5. CASE RespondWithCall
  <2>1. phase = "asked" /\ count' = count + 1 /\ phase' = "owed" /\ request' = request
    BY <1>5 DEF RespondWithCall
  <2>2. PICK id \in Ids, size \in Sizes :
          messages' = Append(messages,
            Message("answer", "assistant", <<id>>, "none", size, {count + 1}))
    BY <1>5 DEF RespondWithCall
  <2> DEFINE x == Message("answer", "assistant", <<id>>, "none", size, {count + 1})
  <2>3. count + 1 \in 1..MaxExchanges /\ count + 1 \in Nat /\ count + 1 # 0
    BY <1>1, <2>1
  <2>4. <<id>> \in {<<>>} \cup {<<d>> : d \in Ids} /\ <<id>> # <<>>
    OBVIOUS
  <2>5. /\ x \in Messages /\ x.kind = "answer" /\ x.role = "assistant" /\ x.calls = <<id>>
        /\ x.answers = "none" /\ x.about = {count + 1}
    BY <2>3, <2>4, AnswerOf
  <2>6. messages' = Append(messages, x)
    BY <2>2
  <2> HIDE DEF x
  <2>7. Follows(messages, count, x, count + 1)
    BY <1>1, <2>1, <2>5 DEF Follows
  <2>8. Good(Append(messages, x), count + 1)
    BY <1>1, <2>3, <2>7, AppendGood
  <2>9. messages'[Len(messages')] = x
    BY <1>1, <2>5, <2>6, AppendProperties
  <2>10. /\ Good(messages', count') /\ messages'[Len(messages')].calls # <<>>
         /\ messages'[Len(messages')].about = {count'}
    BY <2>1, <2>4, <2>5, <2>6, <2>8, <2>9
  <2>11. count' \in 0..MaxExchanges /\ request' \in Requests
    BY <1>1, <2>1, <2>3
  <2> QED BY <2>1, <2>10, <2>11 DEF HInv
<1>6. CASE AppendResult
  <2>1. phase = "owed" /\ count' = count /\ phase' = "ready" /\ request' = request
    BY <1>6 DEF AppendResult
  <2>2. PICK size \in Sizes :
          messages' = Append(messages,
            Message("result", "tool", <<>>, messages[N].calls[1], size, {count}))
    BY <1>6 DEF AppendResult, Last
  <2> DEFINE x == Message("result", "tool", <<>>, messages[N].calls[1], size, {count})
  <2>3. PICK id \in Ids : messages[N].calls = <<id>>
    <3>1. messages[N] \in Messages /\ messages[N].calls # <<>>
      BY <1>1, <1>2, <2>1, ElementOfSeq
    <3> QED BY <3>1 DEF Messages
  <2>4. messages[N].calls[1] = id
    BY <2>3
  <2>5. count \in 1..MaxExchanges
    <3>1. OrderedAt(messages, count, N)
      BY <1>1, <1>2 DEF Good, Ordered
    <3>2. {count} \subseteq 1..count
      BY <1>1, <2>1, <3>1 DEF OrderedAt
    <3> QED BY <1>1, <3>2
  <2>6. /\ x \in Messages /\ x.kind = "result" /\ x.role = "tool" /\ x.calls = <<>>
        /\ x.answers = id /\ x.about = {count}
    BY <2>4, <2>5, HistoryAssumption DEF Message, Messages, Kinds
  <2>7. messages' = Append(messages, x)
    BY <2>2
  <2> HIDE DEF x
  <2>8. Follows(messages, count, x, count) /\ count # 0
    BY <1>1, <2>1, <2>3, <2>5, <2>6 DEF Follows
  <2>9. Good(Append(messages, x), count)
    BY <1>1, <2>8, AppendGood
  <2>10. messages'[Len(messages')] = x
    BY <1>1, <2>6, <2>7, AppendProperties
  <2> QED BY <1>1, <2>1, <2>5, <2>6, <2>7, <2>9, <2>10 DEF HInv
<1>7. CASE RespondFinally
  <2>1. phase = "asked" /\ count' = count + 1 /\ request' = request
    BY <1>7 DEF RespondFinally
  <2>2. count + 1 \in 1..MaxExchanges /\ count + 1 \in Nat /\ count + 1 # 0
    BY <1>1, <2>1
  <2> DEFINE answer(size) == Message("answer", "assistant", <<>>, "none", size, {count + 1})
             y == Message("feedback", "user", <<>>, "none", 2, {count + 1})
  <2>3. PICK size \in Sizes :
          \/ messages' = Append(messages, answer(size)) /\ phase' = "done"
          \/ messages' = messages \o <<answer(size), y>> /\ phase' = "ready"
    BY <1>7 DEF RespondFinally
  <2> DEFINE x == answer(size)
  <2>4. /\ x \in Messages /\ x.kind = "answer" /\ x.role = "assistant" /\ x.calls = <<>>
        /\ x.answers = "none" /\ x.about = {count + 1}
    <3>1. <<>> \in {<<>>} \cup {<<d>> : d \in Ids}
      OBVIOUS
    <3> QED BY <2>2, <3>1, AnswerOf
  <2>5. /\ y \in Messages /\ y.kind = "feedback" /\ y.role = "user" /\ y.calls = <<>>
        /\ y.answers = "none" /\ y.about = {count + 1}
    BY <2>2 DEF Message, Messages, Kinds
  <2>6. \/ messages' = Append(messages, x) /\ phase' = "done"
        \/ messages' = messages \o <<x, y>> /\ phase' = "ready"
    BY <2>3
  <2> HIDE DEF x, y
  <2>7. Follows(messages, count, x, count + 1)
    BY <1>1, <2>1, <2>4 DEF Follows
  <2> DEFINE g == Append(messages, x)
  <2>8. Good(g, count + 1)
    BY <1>1, <2>2, <2>7, AppendGood
  <2>9. g \in Seq(Messages) /\ g[Len(g)] = x
    BY <1>1, <2>4, AppendProperties
  <2>10. messages \o <<x, y>> = Append(g, y)
    BY <1>1, <2>4, <2>5
  <2> HIDE DEF g
  <2>11. Follows(g, count + 1, y, count + 1)
    BY <2>4, <2>5, <2>9 DEF Follows
  <2>12. Good(Append(g, y), count + 1)
    BY <2>2, <2>8, <2>11, AppendGood
  <2>13. Append(g, y)[Len(Append(g, y))] = y
    BY <2>5, <2>9, AppendProperties
  <2>14. /\ Good(messages', count') /\ messages'[Len(messages')].calls = <<>>
         /\ phase' \in {"done", "ready"}
    <3>1. CASE messages' = Append(messages, x) /\ phase' = "done"
      BY <2>1, <2>4, <2>8, <2>9, <3>1 DEF g
    <3>2. CASE messages' = messages \o <<x, y>> /\ phase' = "ready"
      BY <2>1, <2>5, <2>10, <2>12, <2>13, <3>2
    <3> QED BY <2>6, <3>1, <3>2
  <2> QED BY <1>1, <2>1, <2>2, <2>14 DEF HInv
<1>8. CASE UNCHANGED vars
  BY <1>8 DEF vars, HInv
<1> QED BY <1>3, <1>4, <1>5, <1>6, <1>7, <1>8 DEF Next

-----------------------------------------------------------------------------
(* The theorems                                                            *)

\* The history of a run stays good, whatever is answered, cut and summarized.
THEOREM HistoryInvariant == Spec => []HInv
<1>1. Init => HInv
  BY HistoryInit
<1>2. HInv /\ [Next]_vars => HInv'
  BY HistoryNext
<1> QED BY <1>1, <1>2, PTL DEF Spec

\* The invariant implies the types.
LEMMA HInvTypeOK == HInv => TypeOK
<1> SUFFICES ASSUME HInv PROVE TypeOK
  OBVIOUS
<1>1. messages \in Seq(Messages) /\ request \in Seq(Messages) /\ request \in Requests
  BY DEF HInv, Good, Requests
<1>2. ASSUME NEW h \in Seq(Messages), NEW i \in 1..Len(h)
      PROVE  h[i].kind \in Kinds /\ h[i].size \in Nat /\ h[i].about \subseteq 1..MaxExchanges
  <2>1. h[i] \in Messages
    BY ElementOfSeq
  <2> QED BY <2>1 DEF Messages
<1>3. \A i \in 1..Len(request) : request[i].role = "assistant" => request[i].size <= MaxMessage
  BY <1>1 DEF Requests
<1>4. /\ phase \in {"ready", "asked", "owed", "done", "failed", "broken"}
      /\ count \in 0..MaxExchanges
  BY DEF HInv
<1> QED BY <1>1, <1>2, <1>3, <1>4 DEF TypeOK, Kinds

\* Messages, sizes and phases are what they are meant to be, and no request
\* holds an answer of the model above its limit (clamp_history).
THEOREM TypeCorrect == Spec => []TypeOK
<1>1. HInv => TypeOK
  BY HInvTypeOK
<1> QED BY <1>1, HistoryInvariant, PTL

\* _turns never refuses the history of a run, and the reminders survive every
\* cut: prepare and apply_summary raise no ContextHistoryError.
THEOREM HistoryAccepted == Spec => []NeverBroken
<1>1. HInv => NeverBroken
  BY DEF HInv, NeverBroken
<1> QED BY <1>1, HistoryInvariant, PTL

\* What is forgotten is older than all that is kept.
THEOREM NewestSurvive == Spec => []NewestKept
<1>1. HInv => NewestKept
  <2> SUFFICES ASSUME HInv, NEW e \in About(messages), NEW f \in e..count
               PROVE  f \in About(messages)
    BY DEF NewestKept
  <2>1. PICK i \in 1..Len(messages) : e \in messages[i].about
    BY DEF About
  <2>2. Covered(messages, count, i)
    BY DEF HInv, Good, Ordered, OrderedAt
  <2>3. \/ f \in messages[i].about
        \/ \E j \in i..Len(messages) : f \in messages[j].about
    BY <2>1, <2>2 DEF Covered
  <2>4. \A j \in i..Len(messages) : j \in 1..Len(messages)
    OBVIOUS
  <2> QED BY <2>3, <2>4 DEF About
<1> QED BY <1>1, HistoryInvariant, PTL

\* A step that prepares a request whose history has a summary.
HasSummary ==
  /\ phase = "ready" /\ phase' = "asked"
  /\ \E i \in 1..Len(messages') : messages'[i].kind = "summary"

\* A step that leaves a summary forgets nothing.
LEMMA NextCarries ==
  HInv /\ [Next]_vars /\ HasSummary => About(messages) \subseteq About(messages')
<1> SUFFICES ASSUME HInv, [Next]_vars, HasSummary
             PROVE  About(messages) \subseteq About(messages')
  OBVIOUS
<1>1. /\ phase = "ready" /\ phase' = "asked" /\ Good(messages, count) /\ count \in Nat
      /\ messages[Len(messages)].calls = <<>>
      /\ \E i \in 1..Len(messages') : messages'[i].kind = "summary"
  BY HistoryAssumption DEF HInv, HasSummary
<1>2. CASE PrepareRequest
  <2>1. PICK r \in Reminders : Prepare(messages \o r, r)
    BY <1>2 DEF PrepareRequest
  <2>2. Prepared(messages, count)
    BY <1>1, <2>1, PrepareStep
  <2> QED BY <1>1, <2>2, PreparedCarries
<1>3. CASE Summarize
  <2>1. ~Fail("failed")
    BY <1>1 DEF Fail
  <2>2. PICK x : /\ Good(x, count) /\ x[Len(x)].calls = <<>> /\ About(messages) \subseteq About(x)
                 /\ \E r \in Reminders : Prepare(x \o r, r)
    BY <1>1, <1>3, <2>1, SummarizeStep
  <2>3. PICK r \in Reminders : Prepare(x \o r, r)
    BY <2>2
  <2>4. Prepared(x, count)
    BY <1>1, <2>2, <2>3, PrepareStep
  <2>5. About(x) \subseteq About(messages')
    BY <1>1, <2>2, <2>4, PreparedCarries
  <2> QED BY <2>2, <2>5
<1>4. ~RespondWithCall /\ ~AppendResult /\ ~RespondFinally /\ ~UNCHANGED vars
  BY <1>1 DEF RespondWithCall, AppendResult, RespondFinally, vars
<1> QED BY <1>2, <1>3, <1>4 DEF Next

\* Nothing is forgotten while there is a summary, and a later summary is about
\* all that an earlier one was about: a summary is the first thing to be cut.
THEOREM SummaryComplete == Spec => SummaryCarries
<1>1. HInv /\ [Next]_vars =>
        [phase = "ready" /\ phase' = "asked"
           /\ (\E i \in 1..Len(messages') : messages'[i].kind = "summary")
           => About(messages) \subseteq About(messages')]_vars
  BY NextCarries DEF HasSummary
<1> QED BY <1>1, HistoryInvariant, PTL DEF Spec, SummaryCarries

=============================================================================
