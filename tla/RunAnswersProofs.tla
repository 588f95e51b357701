--------------------------- MODULE RunAnswersProofs ---------------------------
(***************************************************************************)
(* Theorems about the answer of a Run: its text (AnswerStream), for every  *)
(* set of pieces of text and every bound on texts and attempts; and its    *)
(* tool calls (ToolStream), for any calls, values of their arguments,      *)
(* frames and responses.                                                   *)
(*                                                                         *)
(* The text.  A filter forgets what it has let pass, so nothing can be said*)
(* of it from one chunk to the next.  The invariant says what it is as a   *)
(* function of the whole text it heard (FilterOf), and what it has let pass*)
(* as another (Pass): PushIs is the induction step, that a push takes both *)
(* from a text to the text with the chunk at its end, wherever the marker  *)
(* is cut.  The same holds at the other end of the queue, of the text the  *)
(* consumer took.  Between the two, the texts of the waiting events lead   *)
(* from the text that was taken to the text that was let into the queue    *)
(* (Chain): the texts are cuts of the one text, so taking an event or      *)
(* adding one moves one cut.                                               *)
(*                                                                         *)
(* The calls.  The text of a call is kept three times: by its slot, by the *)
(* accumulator of the response and by the client.  The invariant ToolInv   *)
(* says that the three agree for every call of the response (CallOK), and  *)
(* that what a slot emitted before the response began was all there was    *)
(* (SlotOK).  That a surfaced slot hears nothing more needs its history:   *)
(* some call said it to the end (SlotsAreFinished), so that a call that    *)
(* still speaks is another one, whose exec was taken for it.  A frame works*)
(* on one slot: it finds the stream in order but for that slot (Ready),    *)
(* says something there (HearsFrame, CompleteKeeps), and a flush puts it   *)
(* in order again (FlushKeeps).                                            *)
(***************************************************************************)
EXTENDS AnswerStream, ToolStream, SequenceTheorems, FiniteSetTheorems,
        WellFoundedInduction, TLAPS

-----------------------------------------------------------------------------
(* The text: of any length                                                 *)

\* Every text, whatever its length.
Texts == Seq(AllPieces)

-----------------------------------------------------------------------------
(* Sequences                                                               *)

Less == {p \in Nat \X Nat : p[1] < p[2]}

\* A set of numbers that is not empty has a least one.
LEMMA LeastOf ==
    ASSUME NEW T, T \subseteq Nat, T # {}
    PROVE  \E m \in T : \A k \in T : m <= k
<1>1. IsWellFoundedOn(Less, Nat)
  BY NatLessThanWellFounded DEF OpToRel, Less
<1>2. PICK x \in T : \A y \in T : <<y, x>> \notin Less
  BY <1>1, WFMin
<1>3. \A y \in T : ~(y < x)
  BY <1>2 DEF Less
<1>4. \A y \in T : x <= y
  BY <1>3
<1>5. QED
  BY <1>4

LEMMA TextElements ==
    ASSUME NEW t \in Texts
    PROVE  Len(t) \in Nat /\ \A i \in 1..Len(t) : t[i] \in AllPieces
BY LenProperties, ElementOfSeq DEF Texts

LEMMA PartIs ==
    ASSUME NEW t \in Texts, NEW m \in 1..(Len(t) + 1), NEW n \in 0..Len(t)
    PROVE  /\ SubSeq(t, m, n) \in Texts
           /\ Len(SubSeq(t, m, n)) = IF m <= n THEN n - m + 1 ELSE 0
           /\ \A i \in 1..(n - m + 1) : SubSeq(t, m, n)[i] = t[m + i - 1]
<1>1. Len(t) \in Nat /\ \A i \in m..n : t[i] \in AllPieces
  BY TextElements
<1>2. m \in Int /\ n \in Int
  BY <1>1
<1>3. QED
  BY <1>1, <1>2, SubSeqProperties DEF Texts

LEMMA JoinIs ==
    ASSUME NEW t \in Texts, NEW u \in Texts
    PROVE  /\ t \o u \in Texts /\ Len(t \o u) = Len(t) + Len(u)
           /\ \A i \in 1..Len(t) : (t \o u)[i] = t[i]
           /\ \A i \in 1..Len(u) : (t \o u)[Len(t) + i] = u[i]
<1>1. Len(t) \in Nat /\ Len(u) \in Nat
  BY TextElements
<1>2. /\ t \o u \in Texts /\ Len(t \o u) = Len(t) + Len(u)
      /\ \A i \in 1..(Len(t) + Len(u)) :
           (t \o u)[i] = IF i <= Len(t) THEN t[i] ELSE u[i - Len(t)]
  BY ConcatProperties DEF Texts
<1>3. \A i \in 1..Len(t) : (t \o u)[i] = t[i]
  BY <1>1, <1>2
<1>4. ASSUME NEW i \in 1..Len(u) PROVE (t \o u)[Len(t) + i] = u[i]
  <2>1. Len(t) + i \in 1..(Len(t) + Len(u)) /\ ~(Len(t) + i <= Len(t))
        /\ Len(t) + i - Len(t) = i
    BY <1>1
  <2>2. QED
    BY <1>2, <2>1
<1>5. QED
  BY <1>2, <1>3, <1>4

LEMMA SameText ==
    ASSUME NEW t \in Texts, NEW u \in Texts, Len(t) = Len(u),
           \A i \in 1..Len(t) : t[i] = u[i]
    PROVE  t = u
BY SeqEqual DEF Texts

LEMMA EmptyText ==
    /\ <<>> \in Texts /\ Len(<<>>) = 0
    /\ \A t \in Texts : t # <<>> <=> Len(t) > 0
<1>1. <<>> \in Texts /\ Len(<<>>) = 0 /\ \A t \in Texts : t # <<>> => Len(t) \in Nat \ {0}
  BY EmptySeq DEF Texts
<1>2. QED
  BY <1>1, TextElements

\* A text is the start of another when they agree on what the shorter one has.
LEMMA StartIs ==
    ASSUME NEW t \in Texts, NEW n \in 0..Len(t)
    PROVE  /\ IsPrefix(SubSeq(t, 1, n), t)
           /\ \A m \in n..Len(t) : IsPrefix(SubSeq(t, 1, n), SubSeq(t, 1, m))
<1>1. Len(t) \in Nat
  BY TextElements
<1>2. ASSUME NEW m \in n..Len(t) PROVE IsPrefix(SubSeq(t, 1, n), SubSeq(t, 1, m))
  <2> DEFINE s == SubSeq(t, 1, n)
             u == SubSeq(t, 1, m)
  <2>1. /\ s \in Texts /\ Len(s) = n /\ \A i \in 1..n : s[i] = t[i]
        /\ u \in Texts /\ Len(u) = m /\ \A i \in 1..m : u[i] = t[i]
    BY <1>1, PartIs
  <2> HIDE DEF s, u
  <2>2. /\ SubSeq(s, 1, n) \in Texts /\ Len(SubSeq(s, 1, n)) = n
        /\ \A i \in 1..n : SubSeq(s, 1, n)[i] = s[i]
    BY <1>1, <2>1, PartIs
  <2>3. /\ SubSeq(u, 1, n) \in Texts /\ Len(SubSeq(u, 1, n)) = n
        /\ \A i \in 1..n : SubSeq(u, 1, n)[i] = u[i]
    BY <1>1, <2>1, PartIs
  <2>4. SubSeq(s, 1, n) = SubSeq(u, 1, n)
    BY <1>1, <2>1, <2>2, <2>3, SameText
  <2>5. IsPrefix(s, u)
    BY <1>1, <2>1, <2>4 DEF IsPrefix
  <2>6. QED
    BY <2>5 DEF s, u
<1>3. SubSeq(t, 1, Len(t)) = t
  BY SubSeqFull DEF Texts
<1>4. Len(t) \in n..Len(t)
  BY <1>1
<1>5. IsPrefix(SubSeq(t, 1, n), t)
  BY <1>2, <1>3, <1>4
<1>6. QED
  BY <1>2, <1>5

\* What is left of a part, and two parts joined.
LEMMA PartsJoin ==
    ASSUME NEW t \in Texts, NEW k \in 0..Len(t), NEW n \in k..Len(t)
    PROVE  SubSeq(t, 1, k) \o SubSeq(t, k + 1, n) = SubSeq(t, 1, n)
<1>1. Len(t) \in Nat
  BY TextElements
<1>2. 1 \in 1..(Len(t) + 1) /\ k \in (1 - 1)..Len(t)
  BY <1>1
<1>3. QED
  BY <1>2, ConcatAdjacentSubSeq DEF Texts

\* The start of a text is what it was when the text goes on.
LEMMA StartStays ==
    ASSUME NEW t \in Texts, NEW u \in Texts, NEW m \in 1..(Len(t) + 1), NEW n \in 0..Len(t)
    PROVE  SubSeq(t \o u, m, n) = SubSeq(t, m, n)
<1>1. Len(t) \in Nat /\ Len(u) \in Nat
  BY TextElements
<1>2. t \o u \in Texts /\ Len(t \o u) = Len(t) + Len(u) /\ \A i \in 1..Len(t) : (t \o u)[i] = t[i]
  BY JoinIs
<1> DEFINE v == t \o u
<1> HIDE DEF v
<1>3. /\ SubSeq(v, m, n) \in Texts /\ Len(SubSeq(v, m, n)) = (IF m <= n THEN n - m + 1 ELSE 0)
      /\ \A i \in 1..(n - m + 1) : SubSeq(v, m, n)[i] = v[m + i - 1]
  <2>1. v \in Texts /\ m \in 1..(Len(v) + 1) /\ n \in 0..Len(v)
    BY <1>1, <1>2 DEF v
  <2>2. QED
    BY <2>1, PartIs
<1>4. /\ SubSeq(t, m, n) \in Texts /\ Len(SubSeq(t, m, n)) = (IF m <= n THEN n - m + 1 ELSE 0)
      /\ \A i \in 1..(n - m + 1) : SubSeq(t, m, n)[i] = t[m + i - 1]
  BY PartIs
<1>5. ASSUME NEW i \in 1..Len(SubSeq(v, m, n)) PROVE SubSeq(v, m, n)[i] = SubSeq(t, m, n)[i]
  <2>1. i \in 1..(n - m + 1) /\ m + i - 1 \in 1..Len(t)
    BY <1>1, <1>3
  <2>2. QED
    BY <1>2, <1>3, <1>4, <2>1 DEF v
<1>6. SubSeq(v, m, n) = SubSeq(t, m, n)
  BY <1>3, <1>4, <1>5, SameText
<1>7. QED
  BY <1>6 DEF v

LEMMA FirstIs ==
    ASSUME NEW t \in Texts, NEW u \in Texts, IsPrefix(t, u)
    PROVE  Len(t) <= Len(u) /\ t = SubSeq(u, 1, Len(t))
BY SubSeqFull DEF IsPrefix, Texts

LEMMA StartOfStart ==
    ASSUME NEW t \in Texts, NEW u \in Texts, NEW v \in Texts, IsPrefix(t, u), IsPrefix(u, v)
    PROVE  IsPrefix(t, v)
<1>1. /\ Len(t) \in Nat /\ Len(u) \in Nat /\ Len(v) \in Nat
      /\ Len(t) <= Len(u) /\ Len(u) <= Len(v)
      /\ t = SubSeq(u, 1, Len(t)) /\ u = SubSeq(v, 1, Len(u))
  BY TextElements, FirstIs
<1>2. \A i \in 1..Len(t) : t[i] = u[i]
  BY <1>1, PartIs
<1>3. \A i \in 1..Len(u) : u[i] = v[i]
  BY <1>1, PartIs
<1>4. /\ SubSeq(v, 1, Len(t)) \in Texts /\ Len(SubSeq(v, 1, Len(t))) = Len(t)
      /\ \A i \in 1..Len(t) : SubSeq(v, 1, Len(t))[i] = v[i]
  BY <1>1, PartIs
<1>5. t = SubSeq(v, 1, Len(t))
  BY <1>1, <1>2, <1>3, <1>4, SameText
<1>6. Len(t) \in 0..Len(v)
  BY <1>1
<1>7. IsPrefix(SubSeq(v, 1, Len(t)), v)
  BY <1>6, StartIs
<1>8. QED
  BY <1>5, <1>7

\* What a text starts with, it starts with when it goes on.
LEMMA GoesOn ==
    ASSUME NEW t \in Texts, NEW u \in Texts
    PROVE  IsPrefix(t, t \o u)
<1>1. /\ t \o u \in Texts /\ Len(t) \in 0..Len(t \o u)
      /\ SubSeq(t \o u, 1, Len(t)) = SubSeq(t, 1, Len(t))
  BY TextElements, JoinIs, StartStays
<1>2. SubSeq(t, 1, Len(t)) = t
  BY SubSeqFull DEF Texts
<1>3. QED
  BY <1>1, <1>2, StartIs

LEMMA RestIs ==
    ASSUME NEW t \in Texts, NEW n \in 0..Len(t)
    PROVE  /\ SubSeq(t, n + 1, Len(t)) \in Texts
           /\ Len(SubSeq(t, n + 1, Len(t))) = Len(t) - n
           /\ \A i \in 1..(Len(t) - n) : SubSeq(t, n + 1, Len(t))[i] = t[n + i]
<1>1. Len(t) \in Nat /\ n + 1 \in 1..(Len(t) + 1) /\ Len(t) \in 0..Len(t)
  BY TextElements
<1>2. \A i \in 1..(Len(t) - n) : i \in 1..(Len(t) - (n + 1) + 1) /\ n + 1 + i - 1 = n + i
  BY <1>1
<1>3. /\ SubSeq(t, n + 1, Len(t)) \in Texts
      /\ Len(SubSeq(t, n + 1, Len(t))) = IF n + 1 <= Len(t) THEN Len(t) - (n + 1) + 1 ELSE 0
      /\ \A i \in 1..(Len(t) - (n + 1) + 1) :
            SubSeq(t, n + 1, Len(t))[i] = t[n + 1 + i - 1]
  BY <1>1, PartIs
<1>4. QED
  BY <1>1, <1>2, <1>3

LEMMA TailIs ==
    ASSUME NEW t \in Texts, t # <<>>
    PROVE  /\ Tail(t) \in Texts /\ Len(Tail(t)) = Len(t) - 1 /\ Len(t) \in Nat \ {0}
           /\ \A i \in 1..(Len(t) - 1) : Tail(t)[i] = t[i + 1]
           /\ t[1] \in AllPieces
BY HeadTailProperties, EmptyText, TextElements DEF Texts

LEMMA TailGoesOn ==
    ASSUME NEW t \in Texts, NEW u \in Texts, t # <<>>
    PROVE  Tail(t \o u) = Tail(t) \o u /\ (t \o u)[1] = t[1] /\ t \o u # <<>>
<1> DEFINE v == t \o u
           w == Tail(t) \o u
<1>1. /\ Len(t) \in Nat \ {0} /\ Len(u) \in Nat
      /\ v \in Texts /\ Len(v) = Len(t) + Len(u)
      /\ \A i \in 1..Len(t) : v[i] = t[i]
      /\ \A i \in 1..Len(u) : v[Len(t) + i] = u[i]
  BY JoinIs, TailIs, TextElements
<1>2. /\ Tail(t) \in Texts /\ Len(Tail(t)) = Len(t) - 1
      /\ \A i \in 1..(Len(t) - 1) : Tail(t)[i] = t[i + 1]
  BY TailIs
<1>3. /\ w \in Texts /\ Len(w) = Len(t) - 1 + Len(u)
      /\ \A i \in 1..(Len(t) - 1) : w[i] = Tail(t)[i]
      /\ \A i \in 1..Len(u) : w[Len(t) - 1 + i] = u[i]
  BY <1>1, <1>2, JoinIs
<1> HIDE DEF v, w
<1>4. v # <<>> /\ v[1] = t[1]
  BY <1>1, EmptyText
<1>5. /\ Tail(v) \in Texts /\ Len(Tail(v)) = Len(t) + Len(u) - 1
      /\ \A i \in 1..(Len(t) + Len(u) - 1) : Tail(v)[i] = v[i + 1]
  BY <1>1, <1>4, TailIs
<1>6. ASSUME NEW i \in 1..Len(w) PROVE Tail(v)[i] = w[i]
  <2>1. Tail(v)[i] = v[i + 1]
    BY <1>1, <1>3, <1>5
  <2>2. CASE i <= Len(t) - 1
    BY <1>1, <1>2, <1>3, <2>1, <2>2
  <2>3. CASE ~(i <= Len(t) - 1)
    <3> DEFINE j == i - (Len(t) - 1)
    <3>1. j \in 1..Len(u) /\ i + 1 = Len(t) + j /\ i = Len(t) - 1 + j
      BY <1>1, <1>3, <2>3
    <3>2. v[Len(t) + j] = u[j] /\ w[Len(t) - 1 + j] = u[j]
      BY <1>1, <1>3, <3>1
    <3> HIDE DEF j
    <3>3. QED
      BY <2>1, <3>1, <3>2
  <2>4. QED
    BY <2>2, <2>3
<1>7. Tail(v) = w
  <2>1. Len(Tail(v)) = Len(w) /\ \A i \in 1..Len(Tail(v)) : Tail(v)[i] = w[i]
    BY <1>1, <1>3, <1>5, <1>6
  <2>2. QED
    BY <1>3, <1>5, <2>1, SameText
<1>8. QED
  BY <1>4, <1>7 DEF v, w

-----------------------------------------------------------------------------
(* Spaces, verdicts and markers                                            *)

\* The first piece of t that is not a space.
Solid(t, s) ==
    /\ s \in 1..Len(t) /\ t[s] # " "
    /\ \A i \in 1..Len(t) : i < s => t[i] = " "

Blank(t) == \A i \in 1..Len(t) : t[i] = " "

LEMMA TrimIs ==
    ASSUME NEW t \in Texts
    PROVE  /\ TrimStart(t) \in Texts
           /\ TrimStart(t) = <<>> <=> Blank(t)
           /\ \A s : Solid(t, s) => TrimStart(t) = SubSeq(t, s, Len(t))
           /\ TrimStart(t) # <<>> => \E s : Solid(t, s)
<1> DEFINE solid == {i \in DOMAIN t : t[i] # " "}
<1>1. DOMAIN t = 1..Len(t) /\ Len(t) \in Nat
  BY LenProperties DEF Texts
<1> HIDE DEF solid
<1>2. solid \subseteq Nat /\ \A i : i \in solid <=> i \in 1..Len(t) /\ t[i] # " "
  <2>1. solid = {i \in 1..Len(t) : t[i] # " "}
    BY <1>1 DEF solid
  <2>2. \A i : i \in solid <=> i \in 1..Len(t) /\ t[i] # " "
    BY <2>1
  <2>3. ASSUME NEW i \in solid PROVE i \in Nat
    <3>1. i \in 1..Len(t)
      BY <2>2
    <3>2. QED
      BY <1>1, <3>1
  <2>4. QED
    BY <2>2, <2>3
<1>3. CASE solid = {}
  <2>1. TrimStart(t) = <<>> /\ Blank(t) /\ \A s : ~Solid(t, s)
    <3>1. Blank(t) /\ \A s : ~Solid(t, s)
      BY <1>2, <1>3 DEF Blank, Solid
    <3>2. TrimStart(t) = <<>>
      BY <1>3 DEF TrimStart, solid
    <3>3. QED
      BY <3>1, <3>2
  <2>2. QED
    BY <2>1, EmptyText
<1>4. CASE solid # {}
  <2>1. PICK s \in solid : \A j \in solid : s <= j
    BY <1>4, <1>2, LeastOf
  <2>2. Solid(t, s)
    <3>1. ASSUME NEW i \in 1..Len(t), i < s, i \in solid PROVE FALSE
      <4>1. s <= i
        BY <2>1, <3>1
      <4>2. s \in Nat /\ i \in Nat
        BY <1>2, <2>1, <3>1
      <4>3. QED
        BY <3>1, <4>1, <4>2
    <3>2. QED
      BY <1>2, <2>1, <3>1 DEF Solid
  <2>3. ASSUME NEW r, Solid(t, r) PROVE r = s
    <3>1. r \in 1..Len(t) /\ s \in 1..Len(t) /\ ~(r < s) /\ ~(s < r)
      BY <2>2, <2>3 DEF Solid
    <3>2. QED
      BY <1>1, <3>1
  <2>4. (CHOOSE i \in solid : \A j \in solid : i <= j) = s
    <3>1. ASSUME NEW i \in solid, \A j \in solid : i <= j PROVE i = s
      <4>1. i <= s /\ s <= i /\ s \in Nat /\ i \in Nat
        BY <1>2, <2>1, <3>1
      <4>2. QED
        BY <4>1
    <3>2. QED
      BY <2>1, <3>1
  <2>5. TrimStart(t) = SubSeq(t, s, Len(t))
    BY <1>4, <2>4 DEF TrimStart, solid
  <2>6. /\ SubSeq(t, s, Len(t)) \in Texts
        /\ Len(SubSeq(t, s, Len(t))) > 0
    <3>1. s \in 1..Len(t)
      BY <2>2 DEF Solid
    <3>2. s \in 1..(Len(t) + 1) /\ Len(t) \in 0..Len(t) /\ s <= Len(t)
      BY <1>1, <3>1
    <3>3. Len(SubSeq(t, s, Len(t))) = Len(t) - s + 1 /\ SubSeq(t, s, Len(t)) \in Texts
      BY <1>1, <3>2, PartIs
    <3>4. QED
      BY <1>1, <3>1, <3>3
  <2>7. TrimStart(t) # <<>> /\ ~Blank(t)
    BY <2>2, <2>5, <2>6, EmptyText DEF Blank, Solid
  <2>8. QED
    BY <2>2, <2>3, <2>5, <2>6, <2>7
<1>5. QED
  BY <1>3, <1>4

LEMMA TrimElements ==
    ASSUME NEW t \in Texts, NEW s, Solid(t, s)
    PROVE  /\ Len(TrimStart(t)) = Len(t) - s + 1
           /\ \A i \in 1..Len(t) :
                 ~(i < s) => /\ i - s + 1 \in 1..Len(TrimStart(t))
                             /\ TrimStart(t)[i - s + 1] = t[i]
           /\ \A i \in 1..Len(t) : i < s => t[i] = " "
<1>1. s \in 1..Len(t) /\ Len(t) \in Nat
  BY TextElements DEF Solid
<1>2. s \in 1..Len(t) /\ Len(t) \in Nat /\ s \in Nat
  BY <1>1
<1>3. TrimStart(t) = SubSeq(t, s, Len(t))
  BY TrimIs
<1>4. s \in 1..(Len(t) + 1) /\ Len(t) \in 0..Len(t) /\ s <= Len(t)
  BY <1>2
<1>5. /\ Len(TrimStart(t)) = Len(t) - s + 1
      /\ \A j \in 1..(Len(t) - s + 1) : TrimStart(t)[j] = t[s + j - 1]
  BY <1>2, <1>3, <1>4, PartIs
<1>6. ASSUME NEW i \in 1..Len(t), ~(i < s)
      PROVE  i - s + 1 \in 1..Len(TrimStart(t)) /\ TrimStart(t)[i - s + 1] = t[i]
  <2>1. i - s + 1 \in 1..(Len(t) - s + 1) /\ s + (i - s + 1) - 1 = i
    BY <1>2, <1>6
  <2>2. QED
    BY <1>5, <2>1
<1>7. QED
  BY <1>5, <1>6 DEF Solid

\* More text does not change where a text begins.
LEMMA TrimGoesOn ==
    ASSUME NEW t \in Texts, NEW u \in Texts, TrimStart(t) # <<>>
    PROVE  TrimStart(t \o u) = TrimStart(t) \o u
<1> DEFINE v == t \o u
<1>1. PICK s : Solid(t, s)
  BY TrimIs
<1>2. /\ Len(t) \in Nat /\ Len(u) \in Nat /\ s \in 1..Len(t)
      /\ v \in Texts /\ Len(v) = Len(t) + Len(u)
      /\ \A i \in 1..Len(t) : v[i] = t[i]
      /\ \A i \in 1..Len(u) : v[Len(t) + i] = u[i]
  BY <1>1, JoinIs, TextElements DEF Solid
<1>3. TrimStart(t) = SubSeq(t, s, Len(t))
  BY <1>1, TrimIs
<1> DEFINE w == SubSeq(t, s, Len(t)) \o u
<1>4. /\ SubSeq(t, s, Len(t)) \in Texts /\ Len(SubSeq(t, s, Len(t))) = Len(t) - s + 1
      /\ \A i \in 1..(Len(t) - s + 1) : SubSeq(t, s, Len(t))[i] = t[s + i - 1]
  <2>1. s \in 1..(Len(t) + 1) /\ Len(t) \in 0..Len(t) /\ s <= Len(t)
    BY <1>2
  <2>2. QED
    BY <2>1, PartIs
<1>5. /\ w \in Texts /\ Len(w) = Len(t) - s + 1 + Len(u)
      /\ \A i \in 1..(Len(t) - s + 1) : w[i] = t[s + i - 1]
      /\ \A i \in 1..Len(u) : w[Len(t) - s + 1 + i] = u[i]
  BY <1>2, <1>4, JoinIs
<1> HIDE DEF v, w
<1>6. Solid(v, s)
  <2>1. s \in 1..Len(v) /\ v[s] # " "
    <3>1. t[s] # " " /\ s \in 1..Len(t)
      BY <1>1 DEF Solid
    <3>2. s \in 1..Len(v)
      BY <1>2
    <3>3. QED
      BY <1>2, <3>1, <3>2
  <2>2. ASSUME NEW i \in 1..Len(v), i < s PROVE v[i] = " "
    <3>1. i \in 1..Len(t)
      BY <1>2, <2>2
    <3>2. QED
      BY <1>1, <1>2, <2>2, <3>1 DEF Solid
  <2>3. QED
    BY <2>1, <2>2 DEF Solid
<1>7. TrimStart(v) = SubSeq(v, s, Len(v))
  BY <1>2, <1>6, TrimIs
<1> DEFINE z == SubSeq(v, s, Len(v))
<1>8. /\ z \in Texts /\ Len(z) = Len(v) - s + 1
      /\ \A i \in 1..(Len(v) - s + 1) : z[i] = v[s + i - 1]
  <2>1. s \in 1..(Len(v) + 1) /\ Len(v) \in 0..Len(v) /\ s <= Len(v)
    BY <1>2
  <2>2. QED
    BY <1>2, <2>1, PartIs
<1> HIDE DEF z
<1>9. Len(z) = Len(w)
  BY <1>2, <1>5, <1>8
<1>10. ASSUME NEW i \in 1..Len(z) PROVE z[i] = w[i]
  <2>1. z[i] = v[s + i - 1]
    BY <1>8
  <2>2. CASE i <= Len(t) - s + 1
    <3>1. i \in 1..(Len(t) - s + 1) /\ s + i - 1 \in 1..Len(t)
      BY <1>2, <1>8, <2>2
    <3>2. QED
      BY <1>2, <1>5, <2>1, <3>1
  <2>3. CASE ~(i <= Len(t) - s + 1)
    <3> DEFINE j == i - (Len(t) - s + 1)
    <3>1. j \in 1..Len(u) /\ s + i - 1 = Len(t) + j /\ i = Len(t) - s + 1 + j
      BY <1>2, <1>8, <2>3
    <3> HIDE DEF j
    <3>2. QED
      BY <1>2, <1>5, <2>1, <3>1
  <2>4. QED
    BY <2>2, <2>3
<1>11. z = w
  BY <1>5, <1>8, <1>9, <1>10, SameText
<1>12. QED
  BY <1>3, <1>7, <1>11 DEF v, w, z

LEMMA MarkerIs ==
    Marker \in Texts /\ Len(Marker) = 2 /\ Marker[1] = "[TOOL_" /\ Marker[2] = "CALLS:"
<1>1. "[TOOL_" \in AllPieces /\ "CALLS:" \in AllPieces
  BY DEF AllPieces
<1>2. QED
  BY <1>1 DEF Marker, Texts

\* The start of a marker, and a marker in front.
LEMMA MarkerStarts ==
    ASSUME NEW t \in Texts
    PROVE  /\ t = SubSeq(Marker, 1, 1) <=> Len(t) = 1 /\ t[1] = "[TOOL_"
           /\ IsPrefix(Marker, t) <=> Len(t) >= 2 /\ t[1] = "[TOOL_" /\ t[2] = "CALLS:"
<1>1. /\ Marker \in Texts /\ Len(Marker) = 2 /\ Marker[1] = "[TOOL_" /\ Marker[2] = "CALLS:"
      /\ Len(t) \in Nat
  BY TextElements, MarkerIs
<1>2. 1 \in 1..(Len(Marker) + 1) /\ 1 \in 0..Len(Marker) /\ 2 \in 0..Len(Marker)
  BY <1>1
<1>3. /\ SubSeq(Marker, 1, 1) \in Texts /\ Len(SubSeq(Marker, 1, 1)) = 1
      /\ SubSeq(Marker, 1, 1)[1] = "[TOOL_"
  <2>1. /\ SubSeq(Marker, 1, 1) \in Texts
        /\ Len(SubSeq(Marker, 1, 1)) = IF 1 <= 1 THEN 1 - 1 + 1 ELSE 0
        /\ \A i \in 1..(1 - 1 + 1) : SubSeq(Marker, 1, 1)[i] = Marker[1 + i - 1]
    BY <1>2, <1>1, PartIs
  <2>2. 1 \in 1..(1 - 1 + 1) /\ 1 + 1 - 1 = 1 /\ 1 <= 1
    OBVIOUS
  <2>3. QED
    BY <1>1, <2>1, <2>2
<1>4. /\ SubSeq(Marker, 1, 2) \in Texts /\ Len(SubSeq(Marker, 1, 2)) = 2
      /\ SubSeq(Marker, 1, 2)[1] = "[TOOL_" /\ SubSeq(Marker, 1, 2)[2] = "CALLS:"
  <2>1. /\ SubSeq(Marker, 1, 2) \in Texts
        /\ Len(SubSeq(Marker, 1, 2)) = IF 1 <= 2 THEN 2 - 1 + 1 ELSE 0
        /\ \A i \in 1..(2 - 1 + 1) : SubSeq(Marker, 1, 2)[i] = Marker[1 + i - 1]
    BY <1>2, <1>1, PartIs
  <2>2. 1 \in 1..(2 - 1 + 1) /\ 2 \in 1..(2 - 1 + 1) /\ 1 + 1 - 1 = 1 /\ 1 + 2 - 1 = 2
    OBVIOUS
  <2>3. QED
    BY <1>1, <2>1, <2>2
<1>5. ASSUME Len(t) = 1, t[1] = "[TOOL_" PROVE t = SubSeq(Marker, 1, 1)
  <2>1. \A i \in 1..Len(t) : t[i] = SubSeq(Marker, 1, 1)[i]
    BY <1>3, <1>5
  <2>2. QED
    BY <1>3, <1>5, <2>1, SameText
<1>6. ASSUME Len(t) >= 2
      PROVE  /\ SubSeq(t, 1, 2) \in Texts /\ Len(SubSeq(t, 1, 2)) = 2
             /\ SubSeq(t, 1, 2)[1] = t[1] /\ SubSeq(t, 1, 2)[2] = t[2]
  <2>1. 1 \in 1..(Len(t) + 1) /\ 2 \in 0..Len(t)
    BY <1>1, <1>6
  <2>2. QED
    BY <1>1, <2>1, PartIs
<1>7. ASSUME Len(t) >= 2, t[1] = "[TOOL_", t[2] = "CALLS:" PROVE IsPrefix(Marker, t)
  <2>1. SubSeq(t, 1, 2) = SubSeq(Marker, 1, 2)
    <3>1. \A i \in 1..2 : SubSeq(t, 1, 2)[i] = SubSeq(Marker, 1, 2)[i]
      BY <1>4, <1>6, <1>7
    <3>2. QED
      BY <1>4, <1>6, <1>7, <3>1, SameText
  <2>2. QED
    BY <1>1, <1>7, <2>1 DEF IsPrefix
<1>8. ASSUME IsPrefix(Marker, t) PROVE Len(t) >= 2 /\ t[1] = "[TOOL_" /\ t[2] = "CALLS:"
  <2>1. Len(t) >= 2 /\ SubSeq(t, 1, 2) = SubSeq(Marker, 1, 2)
    BY <1>1, <1>8 DEF IsPrefix
  <2>2. QED
    BY <1>4, <1>6, <2>1
<1>9. QED
  BY <1>3, <1>5, <1>7, <1>8

LEMMA MarkerGoesOn ==
    ASSUME NEW t \in Texts, NEW u \in Texts, t # <<>>, t # SubSeq(Marker, 1, 1)
    PROVE  /\ t \o u # SubSeq(Marker, 1, 1)
           /\ IsPrefix(Marker, t \o u) <=> IsPrefix(Marker, t)
<1>1. /\ Len(t) \in Nat \ {0} /\ Len(u) \in Nat
      /\ t \o u \in Texts /\ Len(t \o u) = Len(t) + Len(u)
      /\ \A i \in 1..Len(t) : (t \o u)[i] = t[i]
  BY TailIs, TextElements, JoinIs
<1>2. 1 \in 1..Len(t) /\ (t \o u)[1] = t[1]
  BY <1>1
<1>3. Len(t) >= 2 \/ (Len(t) = 1 /\ t[1] # "[TOOL_")
  <2>1. ~(Len(t) = 1 /\ t[1] = "[TOOL_")
    BY MarkerStarts
  <2>2. Len(t) = 1 \/ Len(t) >= 2
    <3>1. Len(t) \in Nat \ {0}
      BY TailIs
    <3>2. QED
      BY <3>1
  <2>3. QED
    BY <2>1, <2>2
<1>4. Len(t) >= 2 => (t \o u)[2] = t[2]
  BY <1>1
<1>5. ~(Len(t \o u) = 1 /\ (t \o u)[1] = "[TOOL_")
  BY <1>1, <1>2, <1>3
<1>6. (Len(t \o u) >= 2 /\ (t \o u)[1] = "[TOOL_" /\ (t \o u)[2] = "CALLS:")
         <=> (Len(t) >= 2 /\ t[1] = "[TOOL_" /\ t[2] = "CALLS:")
  BY <1>1, <1>2, <1>3, <1>4
<1>7. t \o u # SubSeq(Marker, 1, 1)
  BY <1>1, <1>5, MarkerStarts
<1>8. QED
  BY <1>1, <1>6, <1>7, MarkerStarts

LEMMA ObjectGoesOn ==
    ASSUME NEW t \in Texts, NEW u \in Texts, t # <<>>, ClassifyObject(t) # "wait"
    PROVE  ClassifyObject(t \o u) = ClassifyObject(t)
<1>1. /\ Tail(t \o u) = Tail(t) \o u /\ (t \o u)[1] = t[1] /\ Tail(t) \in Texts
  BY TailGoesOn, TailIs
<1>2. CASE t[1] # "{"
  BY <1>1, <1>2 DEF ClassifyObject
<1>3. CASE t[1] = "{"
  <2> DEFINE x == TrimStart(Tail(t))
  <2>1. x # <<>> /\ x \in Texts
    BY <1>1, <1>3, TrimIs DEF ClassifyObject
  <2>2. TrimStart(Tail(t \o u)) = x \o u
    BY <1>1, <2>1, TrimGoesOn
  <2> HIDE DEF x
  <2>3. x \o u # <<>> /\ (x \o u)[1] = x[1]
    BY <2>1, TailGoesOn
  <2>4. QED
    BY <1>1, <1>3, <2>1, <2>2, <2>3 DEF ClassifyObject, x
<1>4. QED
  BY <1>2, <1>3

\* A verdict stays when the text goes on.
LEMMA ClassifyGoesOn ==
    ASSUME NEW t \in Texts, NEW u \in Texts, NEW b \in BOOLEAN, t # <<>>,
           Classify(t, b) # "wait"
    PROVE  Classify(t \o u, b) = Classify(t, b)
<1>1. t # SubSeq(Marker, 1, 1)
  BY DEF Classify
<1>2. /\ t \o u # SubSeq(Marker, 1, 1)
      /\ IsPrefix(Marker, t \o u) <=> IsPrefix(Marker, t)
  BY <1>1, MarkerGoesOn
<1>3. Tail(t \o u) = Tail(t) \o u /\ (t \o u)[1] = t[1] /\ Tail(t) \in Texts
  BY TailGoesOn, TailIs
<1>4. CASE IsPrefix(Marker, t) \/ ~b
  BY <1>1, <1>2, <1>4 DEF Classify
<1>5. CASE ~IsPrefix(Marker, t) /\ b /\ t[1] # "fence"
  <2>1. Classify(t, b) = ClassifyObject(t) /\ Classify(t \o u, b) = ClassifyObject(t \o u)
    BY <1>1, <1>2, <1>3, <1>5 DEF Classify
  <2>2. QED
    BY <2>1, ObjectGoesOn
<1>6. CASE ~IsPrefix(Marker, t) /\ b /\ t[1] = "fence"
  <2> DEFINE x == TrimStart(Tail(t))
  <2>1. x # <<>> /\ x \in Texts /\ Classify(t, b) = ClassifyObject(x)
    BY <1>1, <1>3, <1>6, TrimIs DEF Classify
  <2>2. TrimStart(Tail(t \o u)) = x \o u
    BY <1>3, <2>1, TrimGoesOn
  <2> HIDE DEF x
  <2>3. x \o u # <<>>
    BY <2>1, TailGoesOn
  <2>4. Classify(t \o u, b) = ClassifyObject(x \o u)
    BY <1>2, <1>3, <1>6, <2>2, <2>3 DEF Classify
  <2>5. QED
    BY <2>1, <2>4, ObjectGoesOn
<1>7. QED
  BY <1>4, <1>5, <1>6

\* What is said of a text as a whole.
Verdict(t, b) == IF TrimStart(t) = <<>> THEN "wait" ELSE Classify(TrimStart(t), b)

LEMMA VerdictIs ==
    ASSUME NEW t, NEW b
    PROVE  Verdict(t, b) \in {"wait", "suppress", "stream"}
<1>1. \A x : ClassifyObject(x) \in {"wait", "suppress", "stream"}
  BY DEF ClassifyObject
<1>2. \A x : Classify(x, b) \in {"wait", "suppress", "stream"}
  BY <1>1 DEF Classify
<1>3. QED
  BY <1>2 DEF Verdict

LEMMA VerdictStays ==
    ASSUME NEW t \in Texts, NEW u \in Texts, NEW b \in BOOLEAN, Verdict(t, b) # "wait"
    PROVE  Verdict(t \o u, b) = Verdict(t, b)
<1>1. /\ TrimStart(t) # <<>> /\ TrimStart(t) \in Texts
      /\ Verdict(t, b) = Classify(TrimStart(t), b)
  BY TrimIs DEF Verdict
<1>2. TrimStart(t \o u) = TrimStart(t) \o u /\ TrimStart(t) \o u # <<>>
  BY <1>1, TrimGoesOn, TailGoesOn
<1>3. QED
  BY <1>1, <1>2, ClassifyGoesOn DEF Verdict

\* No marker is in a text that waits: nothing but spaces and one or two pieces.
LEMMA BlankHasNone ==
    ASSUME NEW t \in Texts, Blank(t)
    PROVE  \A i \in 1..Len(t) : t[i] # "[TOOL_"
BY DEF Blank

LEMMA ObjectWaits ==
    ASSUME NEW t \in Texts, t # <<>>, ClassifyObject(t) = "wait"
    PROVE  \A i \in 1..Len(t) : t[i] # "[TOOL_"
<1>1. /\ t[1] = "{" /\ TrimStart(Tail(t)) = <<>>
  BY DEF ClassifyObject
<1>2. /\ Tail(t) \in Texts /\ Len(t) \in Nat \ {0} /\ Len(Tail(t)) = Len(t) - 1
      /\ \A i \in 1..(Len(t) - 1) : Tail(t)[i] = t[i + 1]
  BY TailIs
<1>3. Blank(Tail(t))
  BY <1>1, <1>2, TrimIs
<1>4. ASSUME NEW i \in 1..Len(t), i # 1 PROVE t[i] = " "
  <2>1. i - 1 \in 1..(Len(t) - 1) /\ i - 1 + 1 = i
    BY <1>2, <1>4
  <2>2. Tail(t)[i - 1] = t[i]
    BY <1>2, <2>1
  <2>3. QED
    BY <1>2, <1>3, <2>1, <2>2 DEF Blank
<1>5. QED
  BY <1>1, <1>4

LEMMA CandidateWaits ==
    ASSUME NEW t \in Texts, NEW b \in BOOLEAN, t # <<>>, Classify(t, b) = "wait"
    PROVE  Len(t) = 1 \/ \A i \in 1..Len(t) : t[i] # "[TOOL_"
<1>1. CASE t = SubSeq(Marker, 1, 1)
  BY <1>1, MarkerStarts
<1>2. CASE t # SubSeq(Marker, 1, 1) /\ t[1] # "fence"
  <2>1. ClassifyObject(t) = "wait"
    BY <1>2 DEF Classify
  <2>2. QED
    BY <2>1, ObjectWaits
<1>3. CASE t # SubSeq(Marker, 1, 1) /\ t[1] = "fence"
  <2> DEFINE x == Tail(t)
  <2>1. /\ x \in Texts /\ Len(t) \in Nat \ {0} /\ Len(x) = Len(t) - 1
        /\ \A i \in 1..(Len(t) - 1) : x[i] = t[i + 1]
    BY TailIs
  <2>2. TrimStart(x) # <<>> => ClassifyObject(TrimStart(x)) = "wait"
    BY <1>3 DEF Classify
  <2> HIDE DEF x
  <2>3. \A i \in 1..Len(x) : x[i] # "[TOOL_"
    <3>1. CASE TrimStart(x) = <<>>
      BY <2>1, <3>1, TrimIs, BlankHasNone
    <3>2. CASE TrimStart(x) # <<>>
      <4>1. PICK s : Solid(x, s)
        BY <2>1, <3>2, TrimIs
      <4>2. TrimStart(x) \in Texts
        BY <2>1, TrimIs
      <4>3. \A i \in 1..Len(TrimStart(x)) : TrimStart(x)[i] # "[TOOL_"
        BY <2>2, <3>2, <4>2, ObjectWaits
      <4>4. ASSUME NEW i \in 1..Len(x) PROVE x[i] # "[TOOL_"
        <5>1. CASE i < s
          BY <2>1, <4>1, <5>1, TrimElements
        <5>2. CASE ~(i < s)
          <6>1. /\ i - s + 1 \in 1..Len(TrimStart(x))
                /\ TrimStart(x)[i - s + 1] = x[i]
            <7>1. \A j \in 1..Len(x) :
                     ~(j < s) => /\ j - s + 1 \in 1..Len(TrimStart(x))
                                 /\ TrimStart(x)[j - s + 1] = x[j]
              BY <2>1, <4>1, TrimElements
            <7>2. QED
              BY <5>2, <7>1
          <6>2. QED
            BY <4>3, <6>1
        <5>3. QED
          BY <5>1, <5>2
      <4>5. QED
        BY <4>4
    <3>3. QED
      BY <3>1, <3>2
  <2>4. ASSUME NEW i \in 1..Len(t), i # 1 PROVE t[i] # "[TOOL_"
    <3>1. i - 1 \in 1..Len(x) /\ i - 1 + 1 = i /\ i - 1 \in 1..(Len(t) - 1)
      BY <2>1, <2>4
    <3>2. x[i - 1] = t[i]
      BY <2>1, <3>1
    <3>3. QED
      BY <2>3, <3>1, <3>2
  <2>5. QED
    BY <1>3, <2>4
<1>4. QED
  BY <1>1, <1>2, <1>3

LEMMA WaitingHasNone ==
    ASSUME NEW t \in Texts, NEW b \in BOOLEAN, Verdict(t, b) = "wait"
    PROVE  ~HasMarker(t)
<1>1. Len(t) \in Nat
  BY TextElements
<1>2. SUFFICES ASSUME NEW i \in 1..(Len(t) - 1), t[i] = "[TOOL_", t[i + 1] = "CALLS:" PROVE FALSE
  BY MarkerIs DEF HasMarker, MarkerAt
<1>3. i \in 1..Len(t) /\ i + 1 \in 1..Len(t)
  BY <1>1
<1>4. CASE TrimStart(t) = <<>>
  BY <1>2, <1>3, <1>4, TrimIs, BlankHasNone
<1>5. CASE TrimStart(t) # <<>>
  <2>1. PICK s : Solid(t, s)
    BY <1>5, TrimIs
  <2> DEFINE x == TrimStart(t)
  <2>2. x \in Texts /\ x # <<>> /\ Classify(x, b) = "wait"
    BY <1>5, TrimIs DEF Verdict
  <2>3. ~(i < s)
    BY <1>2, <1>3, <2>1, TrimElements
  <2>4. /\ i - s + 1 \in 1..Len(x) /\ x[i - s + 1] = "[TOOL_" /\ Len(x) = Len(t) - s + 1
    BY <1>2, <1>3, <2>1, <2>3, TrimElements
  <2>5. Len(x) # 1
    <3>1. s \in 1..Len(t)
      BY <2>1 DEF Solid
    <3>2. QED
      BY <1>1, <1>3, <2>3, <2>4, <3>1
  <2> HIDE DEF x
  <2>6. QED
    BY <2>2, <2>4, <2>5, CandidateWaits
<1>6. QED
  BY <1>4, <1>5

\* The first marker of a text, and what is in front of it.
LEMMA FirstMarker ==
    ASSUME NEW t \in Texts, HasMarker(t)
    PROVE  \E m \in MarkerAt(t) :
              /\ m \in 1..Len(t) /\ \A i \in MarkerAt(t) : m <= i
              /\ BeforeMarker(t) = SubSeq(t, 1, m - 1)
              /\ BeforeMarker(t) \in Texts
              /\ Len(BeforeMarker(t)) = m - 1
              /\ IsPrefix(BeforeMarker(t), t)
<1>1. Len(t) \in Nat
  BY TextElements
<1>2. MarkerAt(t) \subseteq 1..(Len(t) - 1) /\ MarkerAt(t) \subseteq Nat /\ MarkerAt(t) # {}
  BY <1>1 DEF MarkerAt, HasMarker
<1>3. PICK m \in MarkerAt(t) : \A i \in MarkerAt(t) : m <= i
  BY <1>2, LeastOf
<1>4. \A j \in MarkerAt(t) : (\A i \in MarkerAt(t) : j <= i) => j = m
  <2>1. ASSUME NEW j \in MarkerAt(t), \A i \in MarkerAt(t) : j <= i PROVE j = m
    <3>1. j <= m /\ m <= j /\ j \in Nat /\ m \in Nat
      BY <1>2, <1>3, <2>1
    <3>2. QED
      BY <3>1
  <2>2. QED
    BY <2>1
<1>5. (CHOOSE j \in MarkerAt(t) : \A i \in MarkerAt(t) : j <= i) = m
  BY <1>3, <1>4
<1>6. BeforeMarker(t) = SubSeq(t, 1, m - 1)
  BY <1>5 DEF BeforeMarker
<1>7. m \in 1..Len(t) /\ m - 1 \in 0..Len(t) /\ 1 \in 1..(Len(t) + 1)
  BY <1>1, <1>2
<1>8. SubSeq(t, 1, m - 1) \in Texts /\ Len(SubSeq(t, 1, m - 1)) = m - 1
  <2>1. /\ SubSeq(t, 1, m - 1) \in Texts
        /\ Len(SubSeq(t, 1, m - 1)) = IF 1 <= m - 1 THEN m - 1 - 1 + 1 ELSE 0
    BY <1>7, PartIs
  <2>2. QED
    BY <1>7, <2>1
<1>9. IsPrefix(SubSeq(t, 1, m - 1), t)
  BY <1>7, StartIs
<1>10. QED
  BY <1>3, <1>6, <1>7, <1>8, <1>9

LEMMA MarkerAtIs ==
    ASSUME NEW t \in Texts
    PROVE  /\ HasMarker(t) <=> \E i \in MarkerAt(t) : TRUE
           /\ \A i : i \in MarkerAt(t) <=>
                 i \in 1..(Len(t) - 1) /\ t[i] = "[TOOL_" /\ t[i + 1] = "CALLS:"
BY MarkerIs DEF MarkerAt, HasMarker

\* More text does not move the first marker.
LEMMA MarkerStays ==
    ASSUME NEW t \in Texts, NEW u \in Texts, HasMarker(t)
    PROVE  HasMarker(t \o u) /\ BeforeMarker(t \o u) = BeforeMarker(t)
<1> DEFINE k == t \o u
<1>1. /\ Len(t) \in Nat /\ Len(u) \in Nat /\ k \in Texts /\ Len(k) = Len(t) + Len(u)
      /\ \A i \in 1..Len(t) : k[i] = t[i]
  BY JoinIs, TextElements
<1> HIDE DEF k
<1>2. PICK m \in MarkerAt(t) : /\ m \in 1..Len(t) /\ \A i \in MarkerAt(t) : m <= i
                               /\ BeforeMarker(t) = SubSeq(t, 1, m - 1)
  BY FirstMarker
<1>3. m \in 1..(Len(t) - 1) /\ t[m] = "[TOOL_" /\ t[m + 1] = "CALLS:"
  BY MarkerAtIs
<1>4. m \in 1..(Len(k) - 1) /\ m \in 1..Len(t) /\ m + 1 \in 1..Len(t)
  BY <1>1, <1>3
<1>5. m \in MarkerAt(k) /\ HasMarker(k)
  BY <1>1, <1>3, <1>4, MarkerAtIs
<1>6. PICK n \in MarkerAt(k) : /\ n \in 1..Len(k) /\ \A i \in MarkerAt(k) : n <= i
                               /\ BeforeMarker(k) = SubSeq(k, 1, n - 1)
  BY <1>1, <1>5, FirstMarker
<1>7. n \in 1..(Len(k) - 1) /\ k[n] = "[TOOL_" /\ k[n + 1] = "CALLS:"
  BY <1>1, MarkerAtIs
<1>8. n <= m /\ n \in Nat /\ m \in Nat
  BY <1>1, <1>4, <1>5, <1>6
<1>9. n \in 1..(Len(t) - 1) /\ n \in 1..Len(t) /\ n + 1 \in 1..Len(t)
  BY <1>1, <1>3, <1>7, <1>8
<1>10. n \in MarkerAt(t)
  BY <1>1, <1>7, <1>9, MarkerAtIs
<1>11. n = m
  BY <1>2, <1>8, <1>10
<1>12. SubSeq(k, 1, m - 1) = SubSeq(t, 1, m - 1)
  <2>1. 1 \in 1..(Len(t) + 1) /\ m - 1 \in 0..Len(t)
    BY <1>1, <1>4
  <2>2. QED
    BY <2>1, StartStays DEF k
<1>13. QED
  BY <1>2, <1>5, <1>6, <1>11, <1>12 DEF k

\* What is safe to pass on of a text from its start.
Kept(t) == t # <<>> /\ Last(t) = Marker[1]

LEMMA ScanIs ==
    ASSUME NEW t \in Texts, ~HasMarker(t)
    PROVE  /\ Kept(t) => /\ Scan(t).safe = SubSeq(t, 1, Len(t) - 1)
                         /\ Scan(t).filter = [mode |-> "streaming",
                                              pending |-> <<"[TOOL_">>]
                         /\ SubSeq(t, Len(t), Len(t)) = <<"[TOOL_">>
                         /\ Len(t) \in Nat \ {0} /\ t[Len(t)] = "[TOOL_"
           /\ ~Kept(t) => Scan(t).safe = t /\ Scan(t).filter = [mode |-> "streaming", pending |-> <<>>]
           /\ Scan(t).safe \in Texts /\ Scan(t).filter.pending \in Texts
           /\ Scan(t).safe \o Scan(t).filter.pending = t
           /\ IsPrefix(Scan(t).safe, t)
<1>1. CASE Kept(t)
  <2>1. /\ Len(t) \in Nat \ {0} /\ t[Len(t)] = "[TOOL_" /\ t # <<>>
    BY <1>1, TailIs, MarkerIs DEF Kept, Last
  <2>2. Scan(t) = PassedOn(<<"[TOOL_">>, SubSeq(t, 1, Len(t) - 1))
    BY <1>1, <2>1, MarkerIs DEF Scan, Kept, Last, Front
  <2>3. /\ Scan(t).safe = SubSeq(t, 1, Len(t) - 1)
        /\ Scan(t).filter = [mode |-> "streaming", pending |-> <<"[TOOL_">>]
    BY <2>2 DEF PassedOn
  <2>4. Len(t) \in 1..Len(t) /\ Len(t) - 1 \in 0..Len(t) /\ 1 \in 1..(Len(t) + 1)
    BY <2>1
  <2>5. SubSeq(t, 1, Len(t) - 1) \in Texts /\ IsPrefix(SubSeq(t, 1, Len(t) - 1), t)
    BY <2>4, PartIs, StartIs
  <2>6. SubSeq(t, Len(t), Len(t)) = <<"[TOOL_">>
    <3>1. SubSeq(t, Len(t), Len(t)) = <<t[Len(t)]>> \o SubSeq(t, Len(t) + 1, Len(t))
      BY <2>1, <2>4, SubSeqRecursiveFirst DEF Texts
    <3>2. SubSeq(t, Len(t) + 1, Len(t)) = <<>>
      BY <2>1, SubSeqEmpty
    <3>3. <<t[Len(t)]>> \o <<>> = <<t[Len(t)]>>
      OBVIOUS
    <3>4. QED
      BY <2>1, <3>1, <3>2, <3>3
  <2>7. SubSeq(t, 1, Len(t) - 1) \o SubSeq(t, Len(t), Len(t)) = t
    <3>1. Len(t) - 1 \in 0..Len(t) /\ Len(t) \in (Len(t) - 1)..Len(t) /\ Len(t) - 1 + 1 = Len(t)
      BY <2>1
    <3>2. SubSeq(t, 1, Len(t) - 1) \o SubSeq(t, Len(t) - 1 + 1, Len(t)) = SubSeq(t, 1, Len(t))
      BY <3>1, PartsJoin
    <3>3. QED
      BY <3>1, <3>2, SubSeqFull DEF Texts
  <2>8. <<"[TOOL_">> \in Texts
    <3>1. "[TOOL_" \in AllPieces
      BY DEF AllPieces
    <3>2. QED
      BY <3>1 DEF Texts
  <2>9. Scan(t).filter.pending = <<"[TOOL_">>
    BY <2>3
  <2>10. Scan(t).safe \o Scan(t).filter.pending = t
    BY <2>3, <2>6, <2>7, <2>9
  <2>11. Scan(t).safe \in Texts /\ Scan(t).filter.pending \in Texts /\ IsPrefix(Scan(t).safe, t)
    BY <2>3, <2>5, <2>8, <2>9
  <2>12. QED
    BY <1>1, <2>1, <2>3, <2>6, <2>10, <2>11
<1>2. CASE ~Kept(t)
  <2>1. Scan(t) = PassedOn(<<>>, t)
    BY <1>2 DEF Scan, Kept
  <2>2. Scan(t).safe = t /\ Scan(t).filter = [mode |-> "streaming", pending |-> <<>>]
    BY <2>1 DEF PassedOn
  <2>3. t \o <<>> = t /\ <<>> \in Texts
    BY ConcatEmptySeq, EmptyText DEF Texts
  <2>4. IsPrefix(t, t)
    BY <2>3, GoesOn
  <2>5. QED
    BY <1>2, <2>2, <2>3, <2>4
<1>3. QED
  BY <1>1, <1>2

LEMMA ScanFinds ==
    ASSUME NEW t \in Texts, HasMarker(t)
    PROVE  Scan(t).safe = BeforeMarker(t) /\ Scan(t).filter = [mode |-> "suppressed", pending |-> <<>>]
BY DEF Scan, Suppressed

LEMMA StartLength ==
    ASSUME NEW t \in Texts, NEW n \in 0..Len(t)
    PROVE  Len(SubSeq(t, 1, n)) = n
<1>1. Len(t) \in Nat
  BY TextElements
<1>2. 1 \in 1..(Len(t) + 1)
  BY <1>1
<1>3. Len(SubSeq(t, 1, n)) = IF 1 <= n THEN n - 1 + 1 ELSE 0
  BY <1>2, PartIs
<1>4. (IF 1 <= n THEN n - 1 + 1 ELSE 0) = n
  BY <1>1
<1>5. QED
  BY <1>3, <1>4

LEMMA FrontIs ==
    ASSUME NEW t \in Texts, t # <<>>
    PROVE  Len(SubSeq(t, 1, Len(t) - 1)) = Len(t) - 1
<1>1. Len(t) \in Nat \ {0}
  BY TailIs
<1>2. 1 \in 1..(Len(t) + 1) /\ Len(t) - 1 \in 0..Len(t)
  BY <1>1
<1>3. Len(SubSeq(t, 1, Len(t) - 1)) = IF 1 <= Len(t) - 1 THEN Len(t) - 1 - 1 + 1 ELSE 0
  BY <1>2, PartIs
<1> DEFINE n == Len(SubSeq(t, 1, Len(t) - 1))
<1> HIDE DEF n
<1>4. n = Len(t) - 1
  <2>1. n = IF 1 <= Len(t) - 1 THEN Len(t) - 1 - 1 + 1 ELSE 0
    BY <1>3 DEF n
  <2>2. \A m \in Nat \ {0} : (IF 1 <= m - 1 THEN m - 1 - 1 + 1 ELSE 0) = m - 1
    OBVIOUS
  <2>3. (IF 1 <= Len(t) - 1 THEN Len(t) - 1 - 1 + 1 ELSE 0) = Len(t) - 1
    BY <1>1, <2>2
  <2>4. QED
    BY <2>1, <2>3
<1>5. QED
  BY <1>4 DEF n

LEMMA PartOfRest ==
    ASSUME NEW s \in Texts, NEW t \in Texts, NEW n \in 0..Len(t)
    PROVE  SubSeq(s \o t, 1, Len(s) + n) = s \o SubSeq(t, 1, n)
<1> DEFINE k == s \o t
           x == SubSeq(k, 1, Len(s) + n)
           r == SubSeq(t, 1, n)
           y == s \o r
<1>1. Len(s) \in Nat /\ Len(t) \in Nat
  BY TextElements
<1>2. /\ k \in Texts /\ Len(k) = Len(s) + Len(t)
      /\ \A i \in 1..Len(s) : k[i] = s[i]
      /\ \A i \in 1..Len(t) : k[Len(s) + i] = t[i]
  BY JoinIs
<1> HIDE DEF k
<1>3. /\ x \in Texts /\ Len(x) = Len(s) + n /\ \A i \in 1..(Len(s) + n) : x[i] = k[i]
  <2>1. 1 \in 1..(Len(k) + 1) /\ Len(s) + n \in 0..Len(k)
    BY <1>1, <1>2
  <2>2. /\ x \in Texts /\ Len(x) = IF 1 <= Len(s) + n THEN Len(s) + n - 1 + 1 ELSE 0
        /\ \A i \in 1..(Len(s) + n - 1 + 1) : x[i] = k[1 + i - 1]
    BY <1>2, <2>1, PartIs
  <2> HIDE DEF x
  <2>3. QED
    BY <1>1, <2>2
<1>4. /\ r \in Texts /\ Len(r) = n /\ \A i \in 1..n : r[i] = t[i]
  <2>1. 1 \in 1..(Len(t) + 1) /\ n \in 0..Len(t)
    BY <1>1
  <2>2. /\ r \in Texts /\ Len(r) = IF 1 <= n THEN n - 1 + 1 ELSE 0
        /\ \A i \in 1..(n - 1 + 1) : r[i] = t[1 + i - 1]
    BY <2>1, PartIs
  <2> HIDE DEF r
  <2>3. QED
    BY <1>1, <2>2
<1> HIDE DEF x, r
<1>5. /\ y \in Texts /\ Len(y) = Len(s) + n
      /\ \A i \in 1..Len(s) : y[i] = s[i]
      /\ \A i \in 1..n : y[Len(s) + i] = r[i]
  BY <1>4, JoinIs
<1> HIDE DEF y
<1>6. ASSUME NEW i \in 1..Len(x) PROVE x[i] = y[i]
  <2>1. x[i] = k[i] /\ i \in 1..(Len(s) + n)
    BY <1>3
  <2>2. CASE i <= Len(s)
    <3>1. i \in 1..Len(s)
      BY <1>1, <2>1, <2>2
    <3>2. QED
      BY <1>2, <1>5, <2>1, <3>1
  <2>3. CASE ~(i <= Len(s))
    <3> DEFINE j == i - Len(s)
    <3>1. j \in 1..n /\ j \in 1..Len(t) /\ i = Len(s) + j
      BY <1>1, <2>1, <2>3
    <3> HIDE DEF j
    <3>2. QED
      BY <1>2, <1>4, <1>5, <2>1, <3>1
  <2>4. QED
    BY <2>2, <2>3
<1>7. x = y
  <2>1. Len(x) = Len(y)
    BY <1>3, <1>5
  <2>2. QED
    BY <1>3, <1>5, <1>6, <2>1, SameText
<1>8. QED
  BY <1>7 DEF k, x, y, r

\* Scanning what was held back with what comes next is scanning the whole.
LEMMA ScanGoesOn ==
    ASSUME NEW h \in Texts, NEW u \in Texts, u # <<>>, ~HasMarker(h)
    PROVE  /\ Scan(Scan(h).filter.pending \o u).filter = Scan(h \o u).filter
           /\ Scan(h).safe \o Scan(Scan(h).filter.pending \o u).safe = Scan(h \o u).safe
           /\ Scan(Scan(h).filter.pending \o u).safe \in Texts
<1> DEFINE k == h \o u
           s == Scan(h).safe
           p == Scan(h).filter.pending
           t == p \o u
<1>1. s \in Texts /\ p \in Texts /\ s \o p = h
  BY ScanIs
<1>2. Kept(h) => s = SubSeq(h, 1, Len(h) - 1) /\ Len(h) \in Nat \ {0}
  BY ScanIs
<1>3. ~Kept(h) => s = h
  BY ScanIs
<1> HIDE DEF s, p
<1>4. t \in Texts /\ k \in Texts /\ s \o t = k /\ t # <<>> /\ k # <<>>
  <2>1. (s \o p) \o u = s \o (p \o u)
    <3>1. \A x, y, z \in Texts : (x \o y) \o z = x \o (y \o z)
      BY ConcatAssociative DEF Texts
    <3>2. QED
      BY <1>1, <3>1
  <2>2. t \in Texts /\ k \in Texts
    BY <1>1, JoinIs
  <2>3. t # <<>> /\ k # <<>>
    BY <1>1, ConcatEqualIffEmpty DEF Texts
  <2>4. QED
    BY <1>1, <2>1, <2>2, <2>3
<1>5. /\ Len(s) \in Nat /\ Len(t) \in Nat \ {0} /\ Len(h) \in Nat /\ Len(k) = Len(s) + Len(t)
      /\ \A i \in 1..Len(t) : k[Len(s) + i] = t[i]
  <2> HIDE DEF k, t
  <2>1. Len(k) = Len(s) + Len(t) /\ \A i \in 1..Len(t) : k[Len(s) + i] = t[i]
    <3>1. /\ Len(s \o t) = Len(s) + Len(t)
          /\ \A i \in 1..Len(t) : (s \o t)[Len(s) + i] = t[i]
      BY <1>1, <1>4, JoinIs
    <3>2. QED
      BY <1>4, <3>1
  <2>2. QED
    BY <1>1, <1>4, <2>1, TextElements, EmptyText
<1>6. \A i \in 1..Len(h) : k[i] = h[i]
  BY JoinIs
<1>7. Kept(h) => Len(s) = Len(h) - 1
  BY <1>2, FrontIs DEF Kept
<1>8. ~Kept(h) => Len(s) = Len(h)
  BY <1>3
<1> HIDE DEF k, t
<1>9. \A i \in MarkerAt(k) : i > Len(s)
  <2>1. SUFFICES ASSUME NEW i \in MarkerAt(k), i <= Len(s) PROVE FALSE
    <3>1. \A i \in MarkerAt(k) : i \in 1..(Len(k) - 1)
      BY <1>4, MarkerAtIs
    <3>2. Len(k) \in Nat
      BY <1>5
    <3>3. QED
      BY <1>5, <3>1, <3>2
  <2>2. i \in 1..(Len(k) - 1) /\ k[i] = "[TOOL_" /\ k[i + 1] = "CALLS:"
    BY <1>4, MarkerAtIs
  <2>3. i \in Nat /\ i >= 1
    BY <1>5, <2>2
  <2>4. CASE i + 1 <= Len(h)
    <3>1. i \in 1..(Len(h) - 1) /\ i \in 1..Len(h) /\ i + 1 \in 1..Len(h)
      BY <1>5, <2>3, <2>4
    <3>2. h[i] = "[TOOL_" /\ h[i + 1] = "CALLS:"
      BY <1>6, <2>2, <3>1
    <3>3. i \in MarkerAt(h)
      BY <3>1, <3>2, MarkerAtIs
    <3>4. QED
      BY <3>3, MarkerAtIs
  <2>5. CASE ~(i + 1 <= Len(h))
    <3>1. Len(s) <= Len(h)
      BY <1>5, <1>7, <1>8
    <3>2. i = Len(h) /\ Len(s) = Len(h) /\ i \in 1..Len(h)
      BY <1>5, <2>1, <2>3, <2>5, <3>1
    <3>3. h[Len(h)] = "[TOOL_" /\ h # <<>>
      BY <1>6, <2>2, <3>2, EmptyText
    <3>4. Kept(h)
      BY <3>3, MarkerIs DEF Kept, Last
    <3>5. QED
      BY <1>5, <1>7, <3>2, <3>4
  <2>6. QED
    BY <2>4, <2>5
<1>10. \A i \in 1..Len(t) : i \in MarkerAt(t) <=> Len(s) + i \in MarkerAt(k)
  <2>1. SUFFICES ASSUME NEW i \in 1..Len(t) PROVE i \in MarkerAt(t) <=> Len(s) + i \in MarkerAt(k)
    OBVIOUS
  <2>2. Len(t) = i \/ i + 1 \in 1..Len(t)
    BY <1>5
  <2>3. k[Len(s) + i] = t[i] /\ (i + 1 \in 1..Len(t) => k[Len(s) + (i + 1)] = t[i + 1])
    BY <1>5
  <2>4. Len(s) + (i + 1) = Len(s) + i + 1
    BY <1>5
  <2>5. i \in 1..(Len(t) - 1) <=> Len(s) + i \in 1..(Len(k) - 1)
    BY <1>5
  <2>6. i \in 1..(Len(t) - 1) => i + 1 \in 1..Len(t)
    BY <1>5
  <2>7. i \in MarkerAt(t) <=>
            i \in 1..(Len(t) - 1) /\ t[i] = "[TOOL_" /\ t[i + 1] = "CALLS:"
    BY <1>4, MarkerAtIs
  <2>8. Len(s) + i \in MarkerAt(k) <=>
            /\ Len(s) + i \in 1..(Len(k) - 1)
            /\ k[Len(s) + i] = "[TOOL_" /\ k[Len(s) + i + 1] = "CALLS:"
    BY <1>4, MarkerAtIs
  <2>9. QED
    BY <2>3, <2>4, <2>5, <2>6, <2>7, <2>8
<1>11. \A i \in MarkerAt(k) : i - Len(s) \in MarkerAt(t)
  <2>1. SUFFICES ASSUME NEW i \in MarkerAt(k) PROVE i - Len(s) \in MarkerAt(t)
    OBVIOUS
  <2>2. i \in 1..(Len(k) - 1) /\ i > Len(s)
    BY <1>4, <1>9, MarkerAtIs
  <2>3. i - Len(s) \in 1..Len(t) /\ Len(s) + (i - Len(s)) = i
    BY <1>5, <2>2
  <2>4. QED
    BY <1>10, <2>3
<1>12. CASE HasMarker(t)
  <2>1. PICK m \in MarkerAt(t) : /\ m \in 1..Len(t) /\ \A i \in MarkerAt(t) : m <= i
                                 /\ BeforeMarker(t) = SubSeq(t, 1, m - 1)
                                 /\ BeforeMarker(t) \in Texts
    BY <1>4, <1>12, FirstMarker
  <2>2. Len(s) + m \in MarkerAt(k)
    BY <1>10, <2>1
  <2>3. HasMarker(k)
    BY <1>4, <2>2, MarkerAtIs
  <2>4. PICK n \in MarkerAt(k) : /\ n \in 1..Len(k) /\ \A i \in MarkerAt(k) : n <= i
                                 /\ BeforeMarker(k) = SubSeq(k, 1, n - 1)
    BY <1>4, <2>3, FirstMarker
  <2>5. n = Len(s) + m
    <3>1. n <= Len(s) + m
      BY <2>2, <2>4
    <3>2. m <= n - Len(s)
      BY <1>11, <2>1, <2>4
    <3>3. m \in Nat /\ n \in Nat
      BY <1>5, <2>1, <2>4
    <3>4. QED
      BY <1>5, <3>1, <3>2, <3>3
  <2>6. m - 1 \in 0..Len(t) /\ n - 1 = Len(s) + (m - 1)
    BY <1>5, <2>1, <2>5
  <2>7. SubSeq(k, 1, n - 1) = s \o SubSeq(t, 1, m - 1)
    <3>1. SubSeq(s \o t, 1, Len(s) + (m - 1)) = s \o SubSeq(t, 1, m - 1)
      BY <1>1, <1>4, <2>6, PartOfRest
    <3>2. QED
      BY <1>4, <2>6, <3>1
  <2>8. QED
    BY <1>4, <1>12, <2>1, <2>3, <2>4, <2>7, ScanFinds DEF s, p, t, k
<1>13. CASE ~HasMarker(t)
  <2>1. ~HasMarker(k)
    BY <1>4, <1>11, <1>13, MarkerAtIs
  <2>2. Last(k) = Last(t)
    <3>1. Len(t) \in 1..Len(t)
      BY <1>5
    <3>2. QED
      BY <1>5, <3>1 DEF Last
  <2>3. Kept(k) <=> Kept(t)
    BY <1>4, <2>2 DEF Kept
  <2>4. Scan(t).filter = Scan(k).filter /\ Scan(t).safe \in Texts
    BY <1>4, <1>13, <2>1, <2>3, ScanIs
  <2>5. s \o Scan(t).safe = Scan(k).safe
    <3>1. CASE Kept(k)
      <4>1. Scan(t).safe = SubSeq(t, 1, Len(t) - 1) /\ Scan(k).safe = SubSeq(k, 1, Len(k) - 1)
        BY <1>4, <1>13, <2>1, <2>3, <3>1, ScanIs
      <4>2. Len(t) - 1 \in 0..Len(t) /\ Len(k) - 1 = Len(s) + (Len(t) - 1)
        BY <1>5
      <4>3. SubSeq(s \o t, 1, Len(s) + (Len(t) - 1)) = s \o SubSeq(t, 1, Len(t) - 1)
        BY <1>1, <1>4, <4>2, PartOfRest
      <4>4. QED
        BY <1>4, <4>1, <4>2, <4>3
    <3>2. CASE ~Kept(k)
      BY <1>4, <1>13, <2>1, <2>3, <3>2, ScanIs
    <3>3. QED
      BY <3>1, <3>2
  <2>6. QED
    BY <2>4, <2>5 DEF s, p, t, k
<1>14. QED
  BY <1>12, <1>13

-----------------------------------------------------------------------------
(* The filter                                                              *)

\* What the filter is, and what it has let pass, when it has heard h.
FilterOf(h, b) ==
    IF Verdict(h, b) = "wait" THEN [mode |-> "undecided", pending |-> h]
    ELSE IF Verdict(h, b) = "suppress" THEN [mode |-> "suppressed", pending |-> <<>>]
    ELSE Scan(h).filter

Pass(h, b) == IF Verdict(h, b) = "stream" THEN Scan(h).safe ELSE <<>>

LEMMA TrimOfNone == TrimStart(<<>>) = <<>>
<1>1. Blank(<<>>)
  <2>1. 1..Len(<<>>) = {}
    BY EmptyText
  <2>2. QED
    BY <2>1 DEF Blank
<1>2. QED
  BY <1>1, EmptyText, TrimIs

LEMMA FreshIs ==
    ASSUME NEW b
    PROVE  FilterOf(<<>>, b) = FreshFilter /\ Pass(<<>>, b) = <<>>
<1>1. TrimStart(<<>>) = <<>>
  BY TrimOfNone
<1>2. Verdict(<<>>, b) = "wait"
  BY <1>1 DEF Verdict
<1>3. QED
  BY <1>2 DEF FilterOf, Pass, FreshFilter

LEMMA ScanTypes ==
    ASSUME NEW t \in Texts
    PROVE  Scan(t).safe \in Texts /\ Scan(t).filter \in Filter
<1>1. CASE HasMarker(t)
  <2>1. Scan(t).safe \in Texts
    BY <1>1, ScanFinds, FirstMarker
  <2>2. Scan(t).filter = [mode |-> "suppressed", pending |-> <<>>] /\ <<>> \in Seq(AllPieces)
    BY <1>1, ScanFinds, EmptyText DEF Texts
  <2>3. QED
    BY <2>1, <2>2 DEF Filter
<1>2. CASE ~HasMarker(t)
  <2>1. Scan(t).safe \in Texts /\ Scan(t).filter.pending \in Texts
    BY <1>2, ScanIs
  <2>2. \E p : Scan(t).filter = [mode |-> "streaming", pending |-> p]
    BY <1>2, ScanIs
  <2>3. PICK p : Scan(t).filter = [mode |-> "streaming", pending |-> p]
    BY <2>2
  <2>4. p \in Seq(AllPieces)
    BY <2>1, <2>3 DEF Texts
  <2>5. Scan(t).filter \in Filter
    BY <2>3, <2>4 DEF Filter
  <2>6. QED
    BY <2>1, <2>5
<1>3. QED
  BY <1>1, <1>2

LEMMA FilterTypes ==
    ASSUME NEW h \in Texts, NEW b
    PROVE  FilterOf(h, b) \in Filter /\ Pass(h, b) \in Texts
<1>1. [mode |-> "undecided", pending |-> h] \in Filter
  BY DEF Filter, Texts
<1>2. [mode |-> "suppressed", pending |-> <<>>] \in Filter
  BY EmptyText DEF Filter, Texts
<1>3. QED
  BY <1>1, <1>2, ScanTypes, EmptyText DEF FilterOf, Pass

(* However a text is cut into chunks: a push makes the filter what it is   *)
(* for the whole text, and lets pass what is then missing.                 *)
LEMMA PushIs ==
    ASSUME NEW h \in Texts, NEW u \in Texts, u # <<>>, NEW b \in BOOLEAN
    PROVE  /\ Push(FilterOf(h, b), u, b).filter = FilterOf(h \o u, b)
           /\ Pass(h, b) \o Push(FilterOf(h, b), u, b).safe = Pass(h \o u, b)
           /\ Push(FilterOf(h, b), u, b).safe \in Texts
<1> DEFINE k == h \o u
           f == FilterOf(h, b)
           p == Push(f, u, b)
<1>1. k \in Texts
  BY JoinIs
<1>2. <<>> \in Texts /\ <<>> \o <<>> = <<>> /\ \A x \in Texts : x \o <<>> = x /\ <<>> \o x = x
  BY EmptyText, ConcatEmptySeq DEF Texts
<1>3. SUFFICES /\ p.filter = FilterOf(k, b) /\ Pass(h, b) \o p.safe = Pass(k, b)
               /\ p.safe \in Texts
  OBVIOUS
<1> HIDE DEF k
<1>4. CASE Verdict(h, b) = "wait"
  <2>1. f = [mode |-> "undecided", pending |-> h] /\ Pass(h, b) = <<>>
    BY <1>4 DEF FilterOf, Pass
  <2> HIDE DEF f
  <2>2. f.mode = "undecided" /\ f.pending = h
    BY <2>1
  <2>3. CASE Verdict(k, b) = "wait"
    <3>1. p = [filter |-> [f EXCEPT !.pending = k], safe |-> <<>>]
      BY <2>2, <2>3 DEF Push, Verdict, k
    <3>2. [f EXCEPT !.pending = k] = [mode |-> "undecided", pending |-> k]
      <4>1. [f EXCEPT !.pending = k]
              = [[mode |-> "undecided", pending |-> h] EXCEPT !.pending = k]
        BY <2>1
      <4>2. QED
        BY <4>1
    <3>3. FilterOf(k, b) = [mode |-> "undecided", pending |-> k] /\ Pass(k, b) = <<>>
      BY <2>3 DEF FilterOf, Pass
    <3> HIDE DEF p
    <3>4. p.filter = FilterOf(k, b) /\ p.safe = <<>>
      BY <3>1, <3>2, <3>3
    <3>5. QED
      BY <1>2, <2>1, <3>3, <3>4
  <2>4. CASE Verdict(k, b) = "suppress"
    <3>1. p = [filter |-> [mode |-> "suppressed", pending |-> <<>>], safe |-> <<>>]
      BY <2>2, <2>4 DEF Push, Verdict, Suppressed, k
    <3>2. FilterOf(k, b) = [mode |-> "suppressed", pending |-> <<>>] /\ Pass(k, b) = <<>>
      BY <2>4 DEF FilterOf, Pass
    <3> HIDE DEF p
    <3>3. QED
      BY <1>2, <2>1, <3>1, <3>2
  <2>5. CASE Verdict(k, b) = "stream"
    <3>1. p = Scan(k)
      BY <2>2, <2>5 DEF Push, Verdict, k
    <3>2. FilterOf(k, b) = Scan(k).filter /\ Pass(k, b) = Scan(k).safe
      BY <2>5 DEF FilterOf, Pass
    <3>3. QED
      BY <1>1, <1>2, <2>1, <3>1, <3>2, ScanTypes
  <2>6. QED
    BY <2>3, <2>4, <2>5, VerdictIs
<1>5. CASE Verdict(h, b) = "suppress"
  <2>1. Verdict(k, b) = "suppress"
    BY <1>5, VerdictStays DEF k
  <2>2. f = [mode |-> "suppressed", pending |-> <<>>] /\ FilterOf(k, b) = f
    BY <1>5, <2>1 DEF FilterOf
  <2>3. Pass(h, b) = <<>> /\ Pass(k, b) = <<>>
    BY <1>5, <2>1 DEF Pass
  <2> HIDE DEF f
  <2>4. p = [filter |-> f, safe |-> <<>>]
    BY <2>2 DEF Push
  <2> HIDE DEF p
  <2>5. QED
    BY <1>2, <2>2, <2>3, <2>4
<1>6. CASE Verdict(h, b) = "stream"
  <2>1. Verdict(k, b) = "stream"
    BY <1>6, VerdictStays DEF k
  <2>2. /\ f = Scan(h).filter /\ FilterOf(k, b) = Scan(k).filter
        /\ Pass(h, b) = Scan(h).safe /\ Pass(k, b) = Scan(k).safe
    BY <1>6, <2>1 DEF FilterOf, Pass
  <2> HIDE DEF f
  <2>3. CASE HasMarker(h)
    <3>1. Scan(h).safe = BeforeMarker(h) /\ f = [mode |-> "suppressed", pending |-> <<>>]
      BY <2>2, <2>3, ScanFinds
    <3>2. p = [filter |-> f, safe |-> <<>>]
      BY <3>1 DEF Push
    <3>3. HasMarker(k) /\ BeforeMarker(k) = BeforeMarker(h)
      BY <2>3, MarkerStays DEF k
    <3>4. Scan(k).safe = BeforeMarker(h) /\ Scan(k).filter = f
      BY <1>1, <3>1, <3>3, ScanFinds
    <3>5. BeforeMarker(h) \in Texts
      BY <2>3, FirstMarker
    <3> HIDE DEF p
    <3>6. p.filter = f /\ p.safe = <<>>
      BY <3>2
    <3>7. QED
      BY <1>2, <2>2, <3>1, <3>4, <3>5, <3>6
  <2>4. CASE ~HasMarker(h)
    <3>1. \E x : f = [mode |-> "streaming", pending |-> x]
      BY <2>2, <2>4, ScanIs
    <3>2. f.mode = "streaming"
      BY <3>1
    <3>3. p = Scan(f.pending \o u)
      BY <3>2 DEF Push
    <3> HIDE DEF p
    <3>4. p = Scan(Scan(h).filter.pending \o u)
      BY <2>2, <3>3
    <3>5. QED
      BY <2>2, <2>4, <3>4, ScanGoesOn DEF k
  <2>5. QED
    BY <2>3, <2>4
<1>7. QED
  BY <1>4, <1>5, <1>6, VerdictIs

LEMMA RestOfText ==
    ASSUME NEW s \in Texts, NEW t \in Texts, IsPrefix(s, t)
    PROVE  \E u \in Texts : t = s \o u
<1>1. Len(s) \in Nat /\ Len(t) \in Nat /\ Len(s) <= Len(t) /\ s = SubSeq(t, 1, Len(s))
  BY TextElements, FirstIs
<1>2. Len(s) \in 0..Len(t) /\ Len(t) \in Len(s)..Len(t)
  BY <1>1
<1>3. SubSeq(t, 1, Len(s)) \o SubSeq(t, Len(s) + 1, Len(t)) = SubSeq(t, 1, Len(t))
  BY <1>2, PartsJoin
<1>4. SubSeq(t, 1, Len(t)) = t
  BY SubSeqFull DEF Texts
<1>5. SubSeq(t, Len(s) + 1, Len(t)) \in Texts
  BY <1>2, RestIs
<1>6. QED
  BY <1>1, <1>3, <1>4, <1>5

LEMMA VisibleIs ==
    ASSUME NEW t \in Texts, NEW b \in BOOLEAN
    PROVE  /\ Verdict(t, b) = "suppress" => VisibleText(t, b) = <<>>
           /\ Verdict(t, b) # "suppress" =>
                 VisibleText(t, b) = IF HasMarker(t) THEN BeforeMarker(t) ELSE t
           /\ VisibleText(t, b) \in Texts
           /\ IsPrefix(VisibleText(t, b), t)
<1>1. Verdict(t, b) = "suppress" => VisibleText(t, b) = <<>>
  BY DEF Verdict, VisibleText
<1>2. Verdict(t, b) # "suppress" =>
        VisibleText(t, b) = IF HasMarker(t) THEN BeforeMarker(t) ELSE t
  <2>1. CASE TrimStart(t) = <<>>
    <3>1. ~HasMarker(t)
      <4>1. Verdict(t, b) = "wait"
        BY <2>1 DEF Verdict
      <4>2. QED
        BY <4>1, WaitingHasNone
    <3>2. QED
      BY <2>1, <3>1 DEF VisibleText
  <2>2. CASE TrimStart(t) # <<>>
    BY <2>2 DEF Verdict, VisibleText
  <2>3. QED
    BY <2>1, <2>2
<1>3. <<>> \in Texts /\ <<>> \o t = t /\ t \o <<>> = t
  BY EmptyText, ConcatEmptySeq DEF Texts
<1>4. IsPrefix(<<>>, t) /\ IsPrefix(t, t)
  BY <1>3, GoesOn
<1>5. QED
  BY <1>1, <1>2, <1>3, <1>4, FirstMarker

\* What a filter still has to tell when its text ends.
Rest(f) == IF f.mode = "suppressed" THEN <<>> ELSE f.pending

LEMMA FinishIs ==
    ASSUME NEW t \in Texts, NEW b \in BOOLEAN
    PROVE  /\ Pass(t, b) \o Rest(FilterOf(t, b)) = VisibleText(t, b)
           /\ Rest(FilterOf(t, b)) \in Texts
           /\ IsPrefix(Pass(t, b), VisibleText(t, b))
<1> DEFINE r == Rest(FilterOf(t, b))
<1>1. <<>> \in Texts /\ <<>> \o <<>> = <<>> /\ \A x \in Texts : x \o <<>> = x /\ <<>> \o x = x
  BY EmptyText, ConcatEmptySeq DEF Texts
<1>2. Pass(t, b) \o r = VisibleText(t, b) /\ r \in Texts
  <2>1. CASE Verdict(t, b) = "wait"
    <3>1. r = t /\ Pass(t, b) = <<>>
      BY <2>1 DEF FilterOf, Rest, Pass
    <3>2. VisibleText(t, b) = t
      BY <2>1, WaitingHasNone, VisibleIs
    <3>3. QED
      BY <1>1, <3>1, <3>2
  <2>2. CASE Verdict(t, b) = "suppress"
    <3>1. r = <<>> /\ Pass(t, b) = <<>> /\ VisibleText(t, b) = <<>>
      BY <2>2, VisibleIs DEF FilterOf, Rest, Pass
    <3>2. QED
      BY <1>1, <3>1
  <2>3. CASE Verdict(t, b) = "stream"
    <3>1. FilterOf(t, b) = Scan(t).filter /\ Pass(t, b) = Scan(t).safe
      BY <2>3 DEF FilterOf, Pass
    <3>2. CASE HasMarker(t)
      <4>1. r = <<>> /\ Pass(t, b) = BeforeMarker(t)
        BY <3>1, <3>2, ScanFinds DEF Rest
      <4>2. VisibleText(t, b) = BeforeMarker(t) /\ BeforeMarker(t) \in Texts
        BY <2>3, <3>2, VisibleIs, FirstMarker
      <4>3. QED
        BY <1>1, <4>1, <4>2
    <3>3. CASE ~HasMarker(t)
      <4>1. \E x : Scan(t).filter = [mode |-> "streaming", pending |-> x]
        BY <3>3, ScanIs
      <4>2. Scan(t).filter.mode = "streaming"
        BY <4>1
      <4>3. r = Scan(t).filter.pending
        BY <3>1, <4>2 DEF Rest
      <4>4. VisibleText(t, b) = t
        BY <2>3, <3>3, VisibleIs
      <4>5. QED
        BY <3>1, <3>3, <4>3, <4>4, ScanIs
    <3>4. QED
      BY <3>2, <3>3
  <2>4. QED
    BY <2>1, <2>2, <2>3, VerdictIs
<1> HIDE DEF r
<1>3. IsPrefix(Pass(t, b), Pass(t, b) \o r)
  BY <1>2, FilterTypes, GoesOn
<1>4. QED
  BY <1>2, <1>3 DEF r

\* Text that was filtered has nothing more to hide.
LEMMA VisibleIsClean ==
    ASSUME NEW t \in Texts, NEW b \in BOOLEAN
    PROVE  /\ ~HasMarker(VisibleText(t, b))
           /\ Verdict(VisibleText(t, b), b) # "suppress"
           /\ VisibleText(VisibleText(t, b), b) = VisibleText(t, b)
<1> DEFINE v == VisibleText(t, b)
<1>1. ~HasMarker(v) /\ Verdict(v, b) # "suppress"
  <2>1. CASE Verdict(t, b) = "suppress"
    <3>1. v = <<>>
      BY <2>1, VisibleIs
    <3>2. Verdict(v, b) = "wait"
      BY <3>1, TrimOfNone DEF Verdict
    <3>3. QED
      BY <3>1, <3>2, EmptyText, WaitingHasNone
  <2>2. CASE Verdict(t, b) # "suppress" /\ ~HasMarker(t)
    BY <2>2, VisibleIs
  <2>3. CASE Verdict(t, b) # "suppress" /\ HasMarker(t)
    <3>1. v = BeforeMarker(t) /\ v \in Texts /\ IsPrefix(v, t)
      BY <2>3, VisibleIs, FirstMarker
    <3> HIDE DEF v
    <3>2. PICK u \in Texts : t = v \o u
      BY <3>1, RestOfText
    <3>3. Verdict(v, b) # "suppress"
      BY <2>3, <3>1, <3>2, VerdictStays
    <3>4. ASSUME HasMarker(v) PROVE FALSE
      <4>1. BeforeMarker(v) = v
        BY <3>1, <3>2, <3>4, MarkerStays
      <4>2. PICK m \in 1..Len(v) : Len(BeforeMarker(v)) = m - 1
        BY <3>1, <3>4, FirstMarker
      <4>3. Len(v) \in Nat
        BY <3>1, TextElements
      <4>4. QED
        BY <4>1, <4>2, <4>3
    <3>5. QED
      BY <3>3, <3>4
  <2>4. QED
    BY <2>1, <2>2, <2>3
<1>2. v \in Texts
  BY VisibleIs
<1> HIDE DEF v
<1>3. VisibleText(v, b) = v
  BY <1>1, <1>2, VisibleIs
<1>4. QED
  BY <1>1, <1>3 DEF v

\* What a filter let pass stays the start of what it lets pass, and of what is visible.
LEMMA PassGrows ==
    ASSUME NEW g \in Texts, NEW h \in Texts, NEW b \in BOOLEAN, IsPrefix(g, h)
    PROVE  IsPrefix(Pass(g, b), Pass(h, b)) /\ IsPrefix(Pass(g, b), VisibleText(h, b))
<1>1. PICK u \in Texts : h = g \o u
  BY RestOfText
<1>2. Pass(g, b) \in Texts /\ Pass(h, b) \in Texts /\ VisibleText(h, b) \in Texts
  BY FilterTypes, VisibleIs
<1>3. CASE u = <<>>
  <2>1. h = g /\ Pass(g, b) \o <<>> = Pass(g, b) /\ <<>> \in Texts
    BY <1>1, <1>2, <1>3, ConcatEmptySeq, EmptyText DEF Texts
  <2>2. QED
    BY <1>2, <2>1, GoesOn, FinishIs
<1>4. CASE u # <<>>
  <2> DEFINE s == Push(FilterOf(g, b), u, b).safe
  <2>1. s \in Texts /\ Pass(g, b) \o s = Pass(h, b)
    BY <1>1, <1>4, PushIs
  <2> HIDE DEF s
  <2>2. IsPrefix(Pass(g, b), Pass(h, b))
    <3>1. IsPrefix(Pass(g, b), Pass(g, b) \o s)
      BY <1>2, <2>1, GoesOn
    <3>2. QED
      BY <2>1, <3>1
  <2>3. QED
    BY <1>2, <2>2, FinishIs, StartOfStart
<1>5. QED
  BY <1>3, <1>4

-----------------------------------------------------------------------------
(* The invariant                                                           *)

Event == [type : {"content", "call", "done"}, text : Texts]

\* The texts of the events take the text told from g to all.
Chain(events, g, all) ==
    /\ IsPrefix(g, all)
    /\ \E cut \in [0..Len(events) -> 0..Len(all)] :
          /\ cut[0] = Len(g) /\ cut[Len(events)] = Len(all)
          /\ \A i \in 1..Len(events) :
                /\ cut[i - 1] <= cut[i]
                /\ events[i].text = SubSeq(all, cut[i - 1] + 1, cut[i])

QueueOK(events, g, all) ==
    /\ events \in Seq(Event) /\ g \in Texts /\ all \in Texts
    /\ Chain(events, g, all)
    /\ \A i \in 1..Len(events) : events[i].type = "content" <=> events[i].text # <<>>

Judge == toolUse = "auto"

\* All text that went into the queue.
Flow ==
    IF ~Emits THEN IF queue.end = "ended" THEN Marker ELSE <<>>
    ELSE IF ~Declared THEN hearing
    ELSE IF queue.end = "ended" THEN VisibleText(hearing, Judge) ELSE Pass(hearing, Judge)

Holds(events, type) == \E i \in 1..Len(events) : events[i].type = type

Types ==
    /\ toolUse \in {"absent", "none", "auto", "required"}
    /\ attempt \in [number : 1..MaxAttempts, text : Texts, native : BOOLEAN]
    /\ clean \in BOOLEAN /\ retried \in BOOLEAN /\ passed \in BOOLEAN /\ sent \in BOOLEAN
    /\ hearing \in Texts /\ Len(hearing) <= MaxPieces
    /\ queue \in [events : Seq(Event), end : {"open", "ended", "failed"}]
    /\ buffered \in Texts
    /\ answer \in [text : Texts, calls : BOOLEAN, completed : BOOLEAN,
                   finish : {"none", "stop", "tool_calls", "error"}]

\* The producer's filter is that of what it heard; nothing visible, nothing passed.
Producer ==
    /\ upstream = IF Emits /\ Declared THEN FilterOf(hearing, Judge) ELSE FreshFilter
    /\ Emits => /\ clean => attempt.text = hearing
                /\ attempt.text # <<>> => hearing # <<>>
    /\ ~Emits => hearing = <<>> /\ ~passed
    /\ ~Inspects => ~attempt.native /\ ~retried
    /\ Producing => /\ ~passed => Flow = <<>> /\ (Emits => ~attempt.native)
                    /\ sent <=> Emits /\ attempt.native
    /\ queue.end = "ended" /\ ~Emits => sent

\* The consumer's filter is that of what it took, and calls and the end are on their way.
Consumer ==
    /\ suppressor = FilterOf(buffered, Inspects)
    /\ QueueOK(queue.events, buffered, Flow)
    /\ Producing => Telling
    /\ Telling =>
          /\ answer.text = Pass(buffered, Inspects)
          /\ answer.calls \/ Holds(queue.events, "call") <=> Emits /\ sent
          /\ queue.end = "ended" => answer.completed \/ Holds(queue.events, "done")

Finished ==
    ~Telling =>
        /\ EndIsTold
        /\ Emits => IsPrefix(answer.text, VisibleText(hearing, Judge))
        /\ answer.finish = "stop" => Emits /\ answer.text = VisibleText(hearing, Judge)

IInv == Types /\ Producer /\ Consumer /\ Finished

LEMMA EventAt ==
    ASSUME NEW es \in Seq(Event), NEW i \in 1..Len(es)
    PROVE  es[i] \in Event /\ es[i].text \in Texts
<1>1. es[i] \in Event
  BY ElementOfSeq
<1>2. QED
  BY <1>1 DEF Event

LEMMA Enqueued ==
    ASSUME NEW es, NEW g, NEW all, QueueOK(es, g, all), NEW e \in Event,
           e.type = "content" <=> e.text # <<>>
    PROVE  /\ QueueOK(es \o <<e>>, g, all \o e.text)
           /\ \A type : Holds(es \o <<e>>, type) <=> Holds(es, type) \/ e.type = type
<1> DEFINE new == es \o <<e>>
           whole == all \o e.text
<1>1. /\ es \in Seq(Event) /\ g \in Texts /\ all \in Texts /\ IsPrefix(g, all)
      /\ Len(es) \in Nat /\ Len(all) \in Nat /\ e.text \in Texts /\ Len(e.text) \in Nat
  BY LenProperties, TextElements DEF QueueOK, Chain, Event
<1>2. /\ new \in Seq(Event) /\ Len(new) = Len(es) + 1
      /\ \A i \in 1..Len(es) : new[i] = es[i]
      /\ new[Len(es) + 1] = e
  <2>1. new = Append(es, e)
    BY <1>1, AppendIsConcat
  <2> HIDE DEF new
  <2>2. QED
    BY <1>1, <2>1, AppendProperties
<1>3. /\ whole \in Texts /\ Len(whole) = Len(all) + Len(e.text)
      /\ IsPrefix(all, whole)
  BY <1>1, JoinIs, GoesOn
<1>4. SubSeq(whole, Len(all) + 1, Len(whole)) = e.text
  <2> DEFINE x == SubSeq(whole, Len(all) + 1, Len(whole))
  <2>1. Len(all) \in 0..Len(whole)
    BY <1>1, <1>3
  <2>2. x \in Texts /\ Len(x) = Len(whole) - Len(all) /\ \A i \in 1..(Len(whole) - Len(all)) : x[i] = whole[Len(all) + i]
    BY <1>3, <2>1, RestIs
  <2> HIDE DEF x
  <2>3. Len(x) = Len(e.text)
    BY <1>1, <1>3, <2>2
  <2>4. \A i \in 1..Len(e.text) : whole[Len(all) + i] = e.text[i]
    BY <1>1, JoinIs
  <2>5. \A i \in 1..Len(x) : x[i] = e.text[i]
    BY <1>1, <1>3, <2>2, <2>3, <2>4
  <2>6. x = e.text
    BY <1>1, <2>2, <2>3, <2>5, SameText
  <2>7. QED
    BY <2>6 DEF x
<1>5. PICK cut \in [0..Len(es) -> 0..Len(all)] :
         /\ cut[0] = Len(g) /\ cut[Len(es)] = Len(all)
         /\ \A i \in 1..Len(es) :
               /\ cut[i - 1] <= cut[i]
               /\ es[i].text = SubSeq(all, cut[i - 1] + 1, cut[i])
  BY DEF QueueOK, Chain
<1>6. \A m \in 1..(Len(all) + 1), n \in 0..Len(all) : SubSeq(whole, m, n) = SubSeq(all, m, n)
  BY <1>1, StartStays
<1> HIDE DEF new, whole
<1> DEFINE cut2 == [i \in 0..Len(new) |-> IF i <= Len(es) THEN cut[i] ELSE Len(whole)]
<1>7. cut2 \in [0..Len(new) -> 0..Len(whole)]
  <2>1. ASSUME NEW i \in 0..Len(new)
        PROVE  (IF i <= Len(es) THEN cut[i] ELSE Len(whole)) \in 0..Len(whole)
    <3>1. CASE i <= Len(es)
      <4>1. i \in 0..Len(es)
        BY <1>1, <1>2, <3>1
      <4>2. cut[i] \in 0..Len(all)
        BY <4>1
      <4>3. QED
        BY <1>1, <1>3, <3>1, <4>2
    <3>2. CASE ~(i <= Len(es))
      BY <1>1, <1>3, <3>2
    <3>3. QED
      BY <3>1, <3>2
  <2>2. QED
    BY <2>1
<1>8. cut2[0] = Len(g) /\ cut2[Len(new)] = Len(whole)
  <2>1. 0 \in 0..Len(new) /\ Len(new) \in 0..Len(new) /\ 0 <= Len(es) /\ ~(Len(new) <= Len(es))
    BY <1>1, <1>2
  <2>2. QED
    BY <1>5, <2>1
<1>9. ASSUME NEW i \in 1..Len(new)
      PROVE  /\ cut2[i - 1] <= cut2[i]
             /\ new[i].text = SubSeq(whole, cut2[i - 1] + 1, cut2[i])
  <2>1. i - 1 \in 0..Len(es) /\ i - 1 \in 0..Len(new) /\ i \in 0..Len(new) /\ i - 1 <= Len(es)
    BY <1>1, <1>2
  <2>2. cut2[i - 1] = cut[i - 1] /\ cut[i - 1] \in 0..Len(all)
    BY <2>1
  <2>3. CASE i <= Len(es)
    <3>1. i \in 1..Len(es) /\ i \in 0..Len(es)
      BY <1>1, <2>1, <2>3
    <3>2. cut2[i] = cut[i] /\ cut[i] \in 0..Len(all)
      BY <2>1, <2>3, <3>1
    <3>3. cut[i - 1] <= cut[i] /\ es[i].text = SubSeq(all, cut[i - 1] + 1, cut[i])
      BY <1>5, <3>1
    <3>4. cut[i - 1] + 1 \in 1..(Len(all) + 1)
      BY <1>1, <2>2
    <3> HIDE DEF cut2
    <3>5. SubSeq(whole, cut[i - 1] + 1, cut[i]) = SubSeq(all, cut[i - 1] + 1, cut[i])
      BY <1>6, <3>2, <3>4
    <3>6. QED
      BY <1>2, <2>2, <3>1, <3>2, <3>3, <3>5
  <2>4. CASE ~(i <= Len(es))
    <3>1. i = Len(es) + 1 /\ i - 1 = Len(es)
      BY <1>1, <1>2, <2>4
    <3>2. cut2[i] = Len(whole)
      BY <2>1, <2>4
    <3>3. cut2[i - 1] = Len(all)
      BY <1>5, <2>2, <3>1
    <3> HIDE DEF cut2
    <3>4. QED
      BY <1>1, <1>2, <1>3, <1>4, <3>1, <3>2, <3>3
  <2>5. QED
    BY <2>3, <2>4
<1> HIDE DEF cut2
<1>10. IsPrefix(g, whole)
  BY <1>1, <1>3, StartOfStart
<1>11. Chain(new, g, whole)
  BY <1>7, <1>8, <1>9, <1>10 DEF Chain
<1>12. ASSUME NEW i \in 1..Len(new) PROVE new[i].type = "content" <=> new[i].text # <<>>
  <2>1. CASE i = Len(es) + 1
    BY <1>2, <2>1
  <2>2. CASE i # Len(es) + 1
    <3>1. i \in 1..Len(es)
      BY <1>1, <1>2, <2>2
    <3>2. QED
      BY <1>2, <3>1 DEF QueueOK
  <2>3. QED
    BY <2>1, <2>2
<1>13. QueueOK(new, g, whole)
  BY <1>1, <1>2, <1>3, <1>11, <1>12 DEF QueueOK
<1>14. ASSUME NEW type PROVE Holds(new, type) <=> Holds(es, type) \/ e.type = type
  <2>1. ASSUME Holds(es, type) PROVE Holds(new, type)
    <3>1. PICK i \in 1..Len(es) : es[i].type = type
      BY <2>1 DEF Holds
    <3>2. i \in 1..Len(new)
      BY <1>1, <1>2
    <3>3. QED
      BY <1>2, <3>1, <3>2 DEF Holds
  <2>2. ASSUME e.type = type PROVE Holds(new, type)
    <3>1. Len(es) + 1 \in 1..Len(new)
      BY <1>1, <1>2
    <3>2. QED
      BY <1>2, <2>2, <3>1 DEF Holds
  <2>3. ASSUME Holds(new, type), ~(e.type = type) PROVE Holds(es, type)
    <3>1. PICK i \in 1..Len(new) : new[i].type = type
      BY <2>3 DEF Holds
    <3>2. i # Len(es) + 1
      BY <1>2, <2>3, <3>1
    <3>3. i \in 1..Len(es)
      BY <1>1, <1>2, <3>2
    <3>4. QED
      BY <1>2, <3>1, <3>3 DEF Holds
  <2>4. QED
    BY <2>1, <2>2, <2>3
<1>15. QED
  BY <1>13, <1>14 DEF new, whole

LEMMA ContentQueued ==
    ASSUME NEW es, NEW g, NEW all, QueueOK(es, g, all), NEW t \in Texts
    PROVE  /\ QueueOK(es \o Content(t), g, all \o t)
           /\ \A type : type # "content" => (Holds(es \o Content(t), type) <=> Holds(es, type))
<1>1. es \in Seq(Event) /\ all \in Texts
  BY DEF QueueOK
<1>2. CASE t = <<>>
  <2>1. Content(t) = <<>> /\ es \o <<>> = es /\ all \o <<>> = all
    BY <1>1, <1>2, ConcatEmptySeq DEF Content, Texts
  <2>2. QED
    BY <1>2, <2>1
<1>3. CASE t # <<>>
  <2> DEFINE e == [type |-> "content", text |-> t]
  <2>1. e \in Event /\ e.type = "content" /\ e.text = t
    BY DEF Event
  <2>2. Content(t) = <<e>>
    BY <1>3 DEF Content
  <2> HIDE DEF e
  <2>3. QED
    BY <1>3, <2>1, <2>2, Enqueued
<1>4. QED
  BY <1>2, <1>3

LEMMA CallQueued ==
    ASSUME NEW es, NEW g, NEW all, QueueOK(es, g, all)
    PROVE  /\ QueueOK(es \o Call, g, all) /\ Holds(es \o Call, "call")
           /\ Holds(es \o Call, "done") <=> Holds(es, "done")
<1> DEFINE e == [type |-> "call", text |-> <<>>]
<1>1. e \in Event /\ e.type = "call" /\ e.text = <<>>
  BY EmptyText DEF Event
<1>2. Call = <<e>>
  BY DEF Call
<1>3. all \o <<>> = all
  BY ConcatEmptySeq DEF QueueOK, Texts
<1> HIDE DEF e
<1>4. e.type = "content" <=> e.text # <<>>
  BY <1>1
<1>5. /\ QueueOK(es \o <<e>>, g, all \o e.text)
      /\ \A type : Holds(es \o <<e>>, type) <=> Holds(es, type) \/ e.type = type
  BY <1>1, <1>4, Enqueued
<1>6. QED
  BY <1>1, <1>2, <1>3, <1>5

LEMMA DoneQueued ==
    ASSUME NEW es, NEW g, NEW all, QueueOK(es, g, all)
    PROVE  /\ QueueOK(es \o Done, g, all) /\ Holds(es \o Done, "done")
           /\ Holds(es \o Done, "call") <=> Holds(es, "call")
<1> DEFINE e == [type |-> "done", text |-> <<>>]
<1>1. e \in Event /\ e.type = "done" /\ e.text = <<>>
  BY EmptyText DEF Event
<1>2. Done = <<e>>
  BY DEF Done
<1>3. all \o <<>> = all
  BY ConcatEmptySeq DEF QueueOK, Texts
<1> HIDE DEF e
<1>4. e.type = "content" <=> e.text # <<>>
  BY <1>1
<1>5. /\ QueueOK(es \o <<e>>, g, all \o e.text)
      /\ \A type : Holds(es \o <<e>>, type) <=> Holds(es, type) \/ e.type = type
  BY <1>1, <1>4, Enqueued
<1>6. QED
  BY <1>1, <1>2, <1>3, <1>5

\* The consumer takes the first event.
LEMMA EventTaken ==
    ASSUME NEW es, NEW g, NEW all, QueueOK(es, g, all), es # <<>>
    PROVE  /\ Head(es) \in Event
           /\ Head(es).type = "content" <=> Head(es).text # <<>>
           /\ QueueOK(Tail(es), g \o Head(es).text, all)
           /\ \A type : Holds(es, type) <=> Head(es).type = type \/ Holds(Tail(es), type)
<1> DEFINE e == Head(es)
           rest == Tail(es)
           now == g \o e.text
<1>1. /\ es \in Seq(Event) /\ g \in Texts /\ all \in Texts /\ IsPrefix(g, all)
      /\ Len(es) \in Nat \ {0} /\ Len(all) \in Nat /\ Len(g) \in Nat
  BY EmptySeq, TextElements DEF QueueOK, Chain
<1>2. /\ e = es[1] /\ rest \in Seq(Event) /\ Len(rest) = Len(es) - 1
      /\ \A i \in 1..(Len(es) - 1) : rest[i] = es[i + 1]
  BY <1>1, HeadTailProperties
<1>3. 1 \in 1..Len(es) /\ e \in Event /\ e.text \in Texts
  BY <1>1, <1>2, EventAt
<1>4. PICK cut \in [0..Len(es) -> 0..Len(all)] :
         /\ cut[0] = Len(g) /\ cut[Len(es)] = Len(all)
         /\ \A i \in 1..Len(es) :
               /\ cut[i - 1] <= cut[i]
               /\ es[i].text = SubSeq(all, cut[i - 1] + 1, cut[i])
  BY DEF QueueOK, Chain
<1> HIDE DEF e, rest
<1>5. /\ Len(g) <= cut[1] /\ cut[1] \in 0..Len(all) /\ e.text = SubSeq(all, Len(g) + 1, cut[1])
  <2>1. cut[1 - 1] <= cut[1] /\ es[1].text = SubSeq(all, cut[1 - 1] + 1, cut[1])
    BY <1>3, <1>4
  <2>2. 1 - 1 = 0 /\ 1 \in 0..Len(es)
    BY <1>1
  <2>3. QED
    BY <1>2, <1>4, <2>1, <2>2
<1>6. now = SubSeq(all, 1, cut[1])
  <2>1. g = SubSeq(all, 1, Len(g)) /\ Len(g) <= Len(all)
    BY <1>1, FirstIs
  <2>2. Len(g) \in 0..Len(all) /\ cut[1] \in Len(g)..Len(all)
    BY <1>1, <1>5, <2>1
  <2>3. SubSeq(all, 1, Len(g)) \o SubSeq(all, Len(g) + 1, cut[1]) = SubSeq(all, 1, cut[1])
    BY <1>1, <2>2, PartsJoin
  <2>4. QED
    BY <1>5, <2>1, <2>3
<1>7. now \in Texts /\ Len(now) = cut[1] /\ IsPrefix(now, all)
  <2>1. now \in Texts
    BY <1>1, <1>3, JoinIs
  <2>2. IsPrefix(SubSeq(all, 1, cut[1]), all)
    BY <1>1, <1>5, StartIs
  <2>3. Len(SubSeq(all, 1, cut[1])) = cut[1]
    BY <1>1, <1>5, StartLength
  <2>4. QED
    BY <1>6, <2>1, <2>2, <2>3
<1> HIDE DEF now
<1> DEFINE cut2 == [i \in 0..Len(rest) |-> cut[i + 1]]
<1>8. \A i \in 0..Len(rest) : i + 1 \in 0..Len(es) /\ cut2[i] = cut[i + 1]
  BY <1>1, <1>2
<1>9. cut2 \in [0..Len(rest) -> 0..Len(all)]
  <2>1. \A i \in 0..Len(rest) : cut[i + 1] \in 0..Len(all)
    BY <1>8
  <2>2. QED
    BY <2>1
<1> HIDE DEF cut2
<1>10. cut2[0] = Len(now) /\ cut2[Len(rest)] = Len(all)
  <2>1. 0 \in 0..Len(rest) /\ Len(rest) \in 0..Len(rest) /\ 0 + 1 = 1 /\ Len(rest) + 1 = Len(es)
    BY <1>1, <1>2
  <2>2. QED
    BY <1>4, <1>7, <1>8, <2>1
<1>11. ASSUME NEW i \in 1..Len(rest)
       PROVE  /\ cut2[i - 1] <= cut2[i]
              /\ rest[i].text = SubSeq(all, cut2[i - 1] + 1, cut2[i])
  <2>1. i - 1 \in 0..Len(rest) /\ i \in 0..Len(rest) /\ i - 1 + 1 = i /\ i + 1 - 1 = i
        /\ i + 1 \in 1..Len(es) /\ i \in 1..(Len(es) - 1)
    BY <1>1, <1>2
  <2>2. cut[i + 1 - 1] <= cut[i + 1] /\ es[i + 1].text = SubSeq(all, cut[i + 1 - 1] + 1, cut[i + 1])
    BY <1>4, <2>1
  <2>3. cut2[i - 1] = cut[i] /\ cut2[i] = cut[i + 1]
    BY <1>8, <2>1
  <2>4. QED
    BY <1>2, <2>1, <2>2, <2>3
<1>12. Chain(rest, now, all)
  BY <1>7, <1>9, <1>10, <1>11 DEF Chain
<1>13. \A i \in 1..Len(es) : es[i].type = "content" <=> es[i].text # <<>>
  BY DEF QueueOK
<1>14. ASSUME NEW i \in 1..Len(rest)
       PROVE  rest[i].type = "content" <=> rest[i].text # <<>>
  <2>1. i + 1 \in 1..Len(es) /\ rest[i] = es[i + 1]
    BY <1>1, <1>2
  <2>2. QED
    BY <1>13, <2>1
<1>15. QueueOK(rest, now, all)
  BY <1>1, <1>2, <1>7, <1>12, <1>14 DEF QueueOK
<1>16. ASSUME NEW type PROVE Holds(es, type) <=> e.type = type \/ Holds(rest, type)
  <2>1. ASSUME Holds(es, type), ~(e.type = type) PROVE Holds(rest, type)
    <3>1. PICK i \in 1..Len(es) : es[i].type = type
      BY <2>1 DEF Holds
    <3>2. i # 1
      BY <1>2, <2>1, <3>1
    <3>3. i - 1 \in 1..Len(rest) /\ i - 1 \in 1..(Len(es) - 1) /\ i - 1 + 1 = i
      BY <1>1, <1>2, <3>2
    <3>4. rest[i - 1] = es[i]
      BY <1>2, <3>3
    <3>5. QED
      BY <3>1, <3>3, <3>4 DEF Holds
  <2>2. ASSUME Holds(rest, type) PROVE Holds(es, type)
    <3>1. PICK i \in 1..Len(rest) : rest[i].type = type
      BY <2>2 DEF Holds
    <3>2. i + 1 \in 1..Len(es) /\ rest[i] = es[i + 1]
      BY <1>1, <1>2
    <3>3. QED
      BY <3>1, <3>2 DEF Holds
  <2>3. ASSUME e.type = type PROVE Holds(es, type)
    BY <1>2, <1>3, <2>3 DEF Holds
  <2>4. QED
    BY <2>1, <2>2, <2>3
<1>17. QED
  BY <1>2, <1>3, <1>13, <1>15, <1>16 DEF e, rest, now

\* What was taken is the start of what went in, and all of it when nothing is left.
LEMMA TakenIs ==
    ASSUME NEW es, NEW g, NEW all, QueueOK(es, g, all)
    PROVE  /\ IsPrefix(g, all)
           /\ es = <<>> => g = all
           /\ all = <<>> => g = <<>>
<1>1. g \in Texts /\ all \in Texts /\ IsPrefix(g, all)
  BY DEF QueueOK, Chain
<1>2. Len(g) \in Nat /\ Len(all) \in Nat /\ Len(g) <= Len(all) /\ g = SubSeq(all, 1, Len(g))
  BY <1>1, TextElements, FirstIs
<1>3. ASSUME es = <<>> PROVE g = all
  <2>1. PICK cut \in [0..Len(es) -> 0..Len(all)] : cut[0] = Len(g) /\ cut[Len(es)] = Len(all)
    BY DEF QueueOK, Chain
  <2>2. Len(g) = Len(all)
    BY <1>3, <2>1
  <2>3. QED
    BY <1>1, <1>2, <2>2, SubSeqFull DEF Texts
<1>4. ASSUME all = <<>> PROVE g = <<>>
  <2>1. Len(all) = 0
    BY <1>4, EmptyText
  <2>2. ~(Len(g) > 0)
    BY <1>2, <2>1
  <2>3. QED
    BY <1>1, <2>2, EmptyText
<1>5. QED
  BY <1>1, <1>3, <1>4

LEMMA NothingQueued == QueueOK(<<>>, <<>>, <<>>)
<1>1. <<>> \in Texts /\ Len(<<>>) = 0 /\ IsPrefix(<<>>, <<>>) /\ <<>> \in Seq(Event)
  <2>1. <<>> \in Texts /\ Len(<<>>) = 0 /\ <<>> \in Seq(Event) /\ <<>> \o <<>> = <<>>
    BY EmptyText
  <2>2. IsPrefix(<<>>, <<>>)
    BY <2>1, GoesOn
  <2>3. QED
    BY <2>1, <2>2
<1>2. 1..0 = {}
  OBVIOUS
<1> DEFINE cut == [i \in 0..0 |-> 0]
<1>3. cut \in [0..0 -> 0..0] /\ cut[0] = 0
  OBVIOUS
<1> HIDE DEF cut
<1>4. Chain(<<>>, <<>>, <<>>)
  BY <1>1, <1>2, <1>3 DEF Chain
<1>5. QED
  BY <1>1, <1>2, <1>4 DEF QueueOK

-----------------------------------------------------------------------------
(* The steps of the producer                                               *)

LEMMA FlowIs ==
    ASSUME Types
    PROVE  /\ Flow \in Texts
           /\ Emits \in BOOLEAN /\ Declared \in BOOLEAN /\ Inspects \in BOOLEAN
           /\ Judge \in BOOLEAN
           /\ Emits => Inspects = Judge
           /\ Emits /\ ~Declared => ~Judge
           /\ ~Emits => Inspects /\ Declared
<1>1. Pass(hearing, Judge) \in Texts /\ VisibleText(hearing, Judge) \in Texts
  BY FilterTypes, VisibleIs DEF Types, Judge
<1>2. hearing \in Texts /\ Marker \in Texts /\ <<>> \in Texts
  BY MarkerIs, EmptyText DEF Types
<1>3. Flow \in Texts
  BY <1>1, <1>2 DEF Flow
<1>4. QED
  BY <1>3 DEF Types, Emits, Declared, Inspects, Judge

\* What a step of the producer leaves of the consumer's part of the invariant.
LEMMA ProducerKeeps ==
    ASSUME IInv, toolUse' = toolUse, ConsumerUnchanged, Producing,
           QueueOK(queue'.events, buffered, Flow'),
           answer.calls \/ Holds(queue'.events, "call") <=> Emits /\ sent',
           queue'.end = "ended" => Holds(queue'.events, "done")
    PROVE  Consumer' /\ Finished'
<1>1. /\ suppressor' = suppressor /\ buffered' = buffered /\ answer' = answer
  BY DEF ConsumerUnchanged
<1>2. Emits' = Emits /\ Inspects' = Inspects /\ Judge' = Judge
  BY DEF Emits, Inspects, Judge
<1>3. Telling /\ Telling'
  BY <1>1 DEF IInv, Consumer, Telling
<1>4. suppressor = FilterOf(buffered, Inspects) /\ answer.text = Pass(buffered, Inspects)
  BY <1>3 DEF IInv, Consumer
<1>5. Consumer'
  BY <1>1, <1>2, <1>3, <1>4 DEF Consumer
<1>6. QED
  BY <1>3, <1>5 DEF Finished

LEMMA ChunkIs ==
    ASSUME NEW n \in Nat \ {0}, NEW chunk \in [1..n -> Pieces]
    PROVE  chunk \in Texts /\ Len(chunk) = n /\ chunk # <<>>
<1>1. chunk \in Seq(Pieces)
  BY SeqDef
<1>2. chunk \in Texts
  BY <1>1, AnswerStreamAssumption, SeqMonotonic DEF Texts
<1>3. Len(chunk) = n
  BY <1>1, LenProperties
<1>4. QED
  BY <1>2, <1>3, EmptyText

LEMMA DeltaKeeps ==
    ASSUME IInv, TextDelta
    PROVE  IInv'
<1> DEFINE Told(c) == IF toolUse = "absent" THEN [filter |-> upstream, safe |-> c]
                      ELSE Push(upstream, c, toolUse = "auto")
<1>1. PICK chunk \in UNION {[1..n -> Pieces] : n \in 1..(IF Room > 1 THEN 2 ELSE 1)} :
        /\ attempt' = [attempt EXCEPT !.text = attempt.text \o chunk]
        /\ IF Emits
           THEN /\ hearing' = hearing \o chunk
                /\ upstream' = Told(chunk).filter
                /\ queue' = [queue EXCEPT !.events = queue.events \o Content(Told(chunk).safe)]
                /\ passed' = (passed \/ Told(chunk).safe # <<>>)
           ELSE UNCHANGED <<hearing, upstream, queue, passed>>
  BY DEF TextDelta
<1>2. PICK n \in 1..(IF Room > 1 THEN 2 ELSE 1) : chunk \in [1..n -> Pieces]
  OBVIOUS
<1> DEFINE p == Told(chunk)
<1>3. /\ attempt' = [attempt EXCEPT !.text = attempt.text \o chunk]
      /\ Emits => /\ hearing' = hearing \o chunk
                  /\ upstream' = p.filter
                  /\ queue' = [queue EXCEPT !.events = queue.events \o Content(p.safe)]
                  /\ passed' = (passed \/ p.safe # <<>>)
      /\ ~Emits => UNCHANGED <<hearing, upstream, queue, passed>>
  BY <1>1
<1> HIDE DEF p
<1>4. /\ Producing /\ Room > 0
      /\ toolUse' = toolUse /\ clean' = clean /\ retried' = retried /\ sent' = sent
      /\ ConsumerUnchanged
  BY DEF TextDelta
<1>5. Types /\ Producer /\ Consumer
  BY DEF IInv
<1>6. n \in Nat \ {0} /\ n <= Room /\ MaxPieces \in Nat /\ Len(hearing) \in Nat
  <2>1. Len(attempt.text) \in Nat /\ Len(hearing) \in Nat
    BY <1>5, TextElements DEF Types
  <2>2. MaxPieces \in Nat
    BY AnswerStreamAssumption
  <2>3. Room \in Int
    BY <2>1, <2>2 DEF Room
  <2>4. QED
    BY <1>4, <2>1, <2>2, <2>3
<1>7. chunk \in Texts /\ Len(chunk) = n /\ chunk # <<>>
  BY <1>2, <1>6, ChunkIs
<1>8. /\ Emits' = Emits /\ Inspects' = Inspects /\ Judge' = Judge /\ Declared' = Declared
      /\ Judge = (toolUse = "auto")
  BY <1>4 DEF Emits, Inspects, Judge, Declared
<1>9. /\ attempt.number \in 1..MaxAttempts /\ attempt.text \in Texts /\ attempt.native \in BOOLEAN
      /\ queue.events \in Seq(Event) /\ queue.end = "open" /\ hearing \in Texts
  BY <1>4, <1>5 DEF Types, Producing
<1>10. /\ attempt'.text = attempt.text \o chunk /\ attempt'.native = attempt.native
      /\ attempt' \in [number : 1..MaxAttempts, text : Texts, native : BOOLEAN]
  <2>1. attempt.text \o chunk \in Texts
    BY <1>7, <1>9, JoinIs
  <2>2. QED
    BY <1>3, <1>5, <2>1 DEF Types
<1>11. CASE ~Emits
  <2>1. UNCHANGED <<hearing, upstream, queue, passed>>
    BY <1>3, <1>11
  <2>2. Flow' = Flow
    BY <1>8, <2>1 DEF Flow
  <2>3. Types'
    BY <1>4, <1>5, <1>10, <2>1 DEF Types, ConsumerUnchanged
  <2>4. Producer'
    BY <1>4, <1>5, <1>8, <1>10, <1>11, <2>1, <2>2 DEF Producer, Producing
  <2>5. Consumer' /\ Finished'
    <3>1. QueueOK(queue'.events, buffered, Flow')
      BY <1>5, <2>1, <2>2 DEF Consumer
    <3>2. queue'.end # "ended"
      BY <1>9, <2>1
    <3>3. answer.calls \/ Holds(queue'.events, "call") <=> Emits /\ sent'
      BY <1>4, <1>5, <1>11, <2>1 DEF Consumer
    <3>4. QED
      BY <1>4, <3>1, <3>2, <3>3, ProducerKeeps
  <2>6. QED
    BY <2>3, <2>4, <2>5 DEF IInv
<1>12. CASE Emits
  <2>1. /\ hearing' = hearing \o chunk /\ upstream' = p.filter
        /\ queue' = [queue EXCEPT !.events = queue.events \o Content(p.safe)]
        /\ passed' = (passed \/ p.safe # <<>>)
    BY <1>3, <1>12
  <2>2. hearing' \in Texts /\ Len(hearing') <= MaxPieces /\ hearing' # <<>>
    <3>1. hearing' \in Texts /\ Len(hearing') = Len(hearing) + n
      BY <1>7, <1>9, <2>1, JoinIs
    <3>2. Room = MaxPieces - Len(hearing)
      BY <1>6, <1>12 DEF Room
    <3>3. Len(hearing') > 0 /\ Len(hearing') <= MaxPieces
      BY <1>6, <3>1, <3>2
    <3>4. QED
      BY <3>1, <3>3, EmptyText
  <2>3. /\ p.safe \in Texts /\ Flow' = Flow \o p.safe
        /\ upstream' = IF Declared THEN FilterOf(hearing', Judge) ELSE FreshFilter
    <3>1. queue'.end = "open"
      BY <1>5, <1>9, <2>1 DEF Types
    <3>2. CASE ~Declared
      <4>1. p = [filter |-> upstream, safe |-> chunk]
        BY <3>2 DEF Declared, p
      <4>2. upstream = FreshFilter
        BY <1>5, <3>2 DEF Producer
      <4>3. Flow = hearing /\ Flow' = hearing'
        BY <1>8, <1>12, <3>2 DEF Flow
      <4>4. QED
        BY <1>7, <2>1, <3>2, <4>1, <4>2, <4>3
    <3>3. CASE Declared
      <4>1. p = Push(upstream, chunk, Judge)
        BY <1>8, <3>3 DEF Declared, p
      <4>2. upstream = FilterOf(hearing, Judge)
        BY <1>5, <1>12, <3>3 DEF Producer
      <4>3. Flow = Pass(hearing, Judge) /\ Flow' = Pass(hearing', Judge)
        BY <1>8, <1>9, <1>12, <3>1, <3>3 DEF Flow
      <4>4. Judge \in BOOLEAN
        BY DEF Judge
      <4>5. QED
        BY <1>7, <1>9, <2>1, <3>3, <4>1, <4>2, <4>3, <4>4, PushIs
    <3>4. QED
      BY <3>2, <3>3
  <2>4. /\ queue'.events = queue.events \o Content(p.safe) /\ queue'.end = "open"
    BY <1>5, <1>9, <2>1 DEF Types
  <2>5. /\ QueueOK(queue'.events, buffered, Flow')
        /\ Holds(queue'.events, "call") <=> Holds(queue.events, "call")
    BY <1>5, <2>3, <2>4, ContentQueued DEF Consumer
  <2>6. Types'
    <3>1. queue' \in [events : Seq(Event), end : {"open", "ended", "failed"}]
      <4>1. queue'.events \in Seq(Event)
        BY <2>5 DEF QueueOK
      <4>2. QED
        BY <1>5, <2>1, <2>4, <4>1 DEF Types
    <3>2. passed' \in BOOLEAN
      BY <2>1, <1>5 DEF Types
    <3>3. QED
      BY <1>4, <1>5, <1>10, <2>2, <3>1, <3>2 DEF Types, ConsumerUnchanged
  <2>7. Producer'
    <3>1. /\ clean => attempt.text = hearing
          /\ ~passed => Flow = <<>> /\ ~attempt.native
          /\ sent <=> attempt.native
          /\ ~Inspects => ~attempt.native /\ ~retried
      BY <1>4, <1>5, <1>12 DEF Producer
    <3>2. clean' => attempt'.text = hearing'
      BY <1>4, <1>10, <2>1, <3>1
    <3>3. ~passed' => Flow' = <<>> /\ ~attempt'.native
      <4>1. <<>> \o <<>> = <<>>
        BY EmptyText
      <4>2. QED
        BY <1>10, <2>1, <2>3, <3>1, <4>1
    <3>4. upstream' = IF Emits' /\ Declared' THEN FilterOf(hearing', Judge') ELSE FreshFilter
      BY <1>8, <1>12, <2>3
    <3>5. QED
      BY <1>4, <1>8, <1>10, <1>12, <2>2, <2>4, <3>1, <3>2, <3>3, <3>4 DEF Producer, Producing
  <2>8. Consumer' /\ Finished'
    <3>1. Holds(queue.events, "call") => sent
      BY <1>4, <1>5, <1>12 DEF Consumer
    <3>2. sent => attempt.native
      BY <1>4, <1>5 DEF Producer
    <3>3. Telling
      BY <1>4, <1>5 DEF Consumer
    <3>4. answer.calls \/ Holds(queue.events, "call") <=> sent
      BY <1>5, <1>12, <3>3 DEF Consumer
    <3>5. answer.calls \/ Holds(queue'.events, "call") <=> Emits /\ sent'
      BY <1>4, <1>12, <2>5, <3>4
    <3>6. QED
      BY <1>4, <2>4, <2>5, <3>5, ProducerKeeps
  <2>9. QED
    BY <2>6, <2>7, <2>8 DEF IInv
<1>13. QED
  BY <1>11, <1>12

LEMMA CallKeeps ==
    ASSUME IInv, NativeCall
    PROVE  IInv'
<1>1. /\ Producing /\ Inspects /\ ~attempt.native
      /\ attempt' = [attempt EXCEPT !.native = TRUE]
      /\ toolUse' = toolUse /\ clean' = clean /\ retried' = retried
      /\ hearing' = hearing /\ upstream' = upstream
      /\ ConsumerUnchanged
      /\ Emits => /\ queue' = [queue EXCEPT !.events = queue.events \o Call]
                  /\ passed' = TRUE /\ sent' = TRUE
      /\ ~Emits => queue' = queue /\ passed' = passed /\ sent' = sent
  BY DEF NativeCall
<1>2. Types /\ Producer /\ Consumer
  BY DEF IInv
<1>3. /\ Emits' = Emits /\ Inspects' = Inspects /\ Judge' = Judge /\ Declared' = Declared
  BY <1>1 DEF Emits, Inspects, Judge, Declared
<1>4. /\ queue.end = "open" /\ queue'.end = "open"
      /\ queue'.events = IF Emits THEN queue.events \o Call ELSE queue.events
  BY <1>1, <1>2 DEF Types, Producing
<1>5. Flow' = Flow
  BY <1>1, <1>3, <1>4 DEF Flow
<1>6. /\ QueueOK(queue'.events, buffered, Flow')
      /\ Emits => Holds(queue'.events, "call")
  BY <1>2, <1>4, <1>5, CallQueued DEF Consumer
<1>7. /\ attempt' \in [number : 1..MaxAttempts, text : Texts, native : BOOLEAN]
      /\ attempt'.native = TRUE /\ attempt'.text = attempt.text
  BY <1>1, <1>2 DEF Types
<1>8. queue'.events \in Seq(Event)
  BY <1>6 DEF QueueOK
<1>9. queue' \in [events : Seq(Event), end : {"open", "ended", "failed"}]
  BY <1>1, <1>2, <1>4, <1>8 DEF Types
<1>10. passed' \in BOOLEAN /\ sent' \in BOOLEAN
  BY <1>1, <1>2 DEF Types
<1>11. Types'
  BY <1>1, <1>2, <1>7, <1>9, <1>10 DEF Types, ConsumerUnchanged
<1>12. sent <=> Emits /\ attempt.native
  BY <1>1, <1>2 DEF Producer
<1>13. Producer'
  BY <1>1, <1>2, <1>3, <1>4, <1>5, <1>7, <1>12 DEF Producer, Producing
<1>14. answer.calls \/ Holds(queue'.events, "call") <=> Emits /\ sent'
  <2>1. CASE Emits
    BY <1>1, <1>6, <2>1
  <2>2. CASE ~Emits
    BY <1>1, <1>2, <2>2 DEF Consumer
  <2>3. QED
    BY <2>1, <2>2
<1>15. Consumer' /\ Finished'
  BY <1>1, <1>4, <1>6, <1>14, ProducerKeeps
<1>16. QED
  BY <1>11, <1>13, <1>15 DEF IInv

\* Another attempt, before anything passed.
LEMMA AgainKeeps ==
    ASSUME IInv, Producing, ~passed, attempt.number # MaxAttempts, NextAttempt,
           toolUse' = toolUse, UNCHANGED <<passed, sent, queue>>, ConsumerUnchanged,
           clean' \in BOOLEAN, retried' \in BOOLEAN, ~Inspects => ~retried',
           clean' => hearing' = <<>>,
           UNCHANGED <<hearing, upstream>> \/ ResetFilter
    PROVE  IInv'
<1>1. Types /\ Producer /\ Consumer
  BY DEF IInv
<1>2. /\ Emits' = Emits /\ Inspects' = Inspects /\ Judge' = Judge /\ Declared' = Declared
  BY DEF Emits, Inspects, Judge, Declared
<1>3. Flow = <<>> /\ (Emits => ~attempt.native) /\ queue.end = "open"
  BY <1>1 DEF Producer, Producing
<1>4. Flow' = <<>>
  <2>1. CASE UNCHANGED <<hearing, upstream>>
    BY <1>2, <1>3, <2>1 DEF Flow
  <2>2. CASE ResetFilter
    BY <1>2, <1>3, <2>2, FreshIs DEF Flow, ResetFilter
  <2>3. QED
    BY <2>1, <2>2
<1>5. upstream' = IF Emits /\ Declared THEN FilterOf(hearing', Judge) ELSE FreshFilter
  <2>1. CASE UNCHANGED <<hearing, upstream>>
    BY <1>1, <2>1 DEF Producer
  <2>2. CASE ResetFilter
    BY <2>2, FreshIs DEF ResetFilter
  <2>3. QED
    BY <2>1, <2>2
<1>6. hearing' \in Texts /\ Len(hearing') <= MaxPieces /\ (~Emits => hearing' = <<>>)
  <2>1. <<>> \in Texts /\ Len(<<>>) = 0 /\ MaxPieces \in Nat
    BY EmptyText, AnswerStreamAssumption
  <2>2. QED
    BY <1>1, <2>1 DEF Types, Producer, ResetFilter
<1>7. /\ attempt' \in [number : 1..MaxAttempts, text : Texts, native : BOOLEAN]
      /\ attempt'.text = <<>> /\ attempt'.native = FALSE
  <2>1. attempt.number \in 1..MaxAttempts /\ MaxAttempts \in Nat
    BY <1>1, AnswerStreamAssumption DEF Types
  <2>2. attempt.number + 1 \in 1..MaxAttempts /\ <<>> \in Texts
    BY <2>1, EmptyText
  <2>3. QED
    BY <2>2 DEF NextAttempt
<1>8. Types'
  BY <1>1, <1>6, <1>7 DEF Types, ConsumerUnchanged
<1>9. Producer'
  <2>1. ~sent
    BY <1>1, <1>3 DEF Producer
  <2>2. QED
    BY <1>1, <1>2, <1>3, <1>4, <1>5, <1>6, <1>7, <2>1 DEF Producer, Producing
<1>10. QueueOK(queue'.events, buffered, Flow')
  BY <1>1, <1>3, <1>4 DEF Consumer
<1>11. answer.calls \/ Holds(queue'.events, "call") <=> Emits /\ sent'
  BY <1>1 DEF Consumer
<1>12. Consumer' /\ Finished'
  BY <1>3, <1>10, <1>11, ProducerKeeps
<1>13. QED
  BY <1>8, <1>9, <1>12 DEF IInv

LEMMA FailKeeps ==
    ASSUME IInv, Producing, Fails, toolUse' = toolUse, ConsumerUnchanged,
           UNCHANGED <<attempt, clean, retried, hearing, upstream, passed>>,
           sent' = sent
    PROVE  IInv'
<1>1. Types /\ Producer /\ Consumer
  BY DEF IInv
<1>2. /\ Emits' = Emits /\ Inspects' = Inspects /\ Judge' = Judge /\ Declared' = Declared
  BY DEF Emits, Inspects, Judge, Declared
<1>3. /\ queue.end = "open" /\ queue'.end = "failed" /\ queue'.events = queue.events
      /\ queue' \in [events : Seq(Event), end : {"open", "ended", "failed"}]
  BY <1>1 DEF Fails, Types, Producing
<1>4. Flow' = Flow
  BY <1>2, <1>3 DEF Flow
<1>5. Types'
  BY <1>1, <1>3 DEF Types, ConsumerUnchanged
<1>6. Producer'
  BY <1>1, <1>2, <1>3, <1>4 DEF Producer, Producing
<1>7. answer.calls \/ Holds(queue'.events, "call") <=> Emits /\ sent'
  BY <1>1, <1>3 DEF Consumer
<1>8. Consumer' /\ Finished'
  <2>1. QueueOK(queue'.events, buffered, Flow')
    BY <1>1, <1>3, <1>4 DEF Consumer
  <2>2. queue'.end # "ended"
    BY <1>3
  <2>3. QED
    BY <1>7, <2>1, <2>2, ProducerKeeps
<1>9. QED
  BY <1>5, <1>6, <1>8 DEF IInv

LEMMA RetriesKeep ==
    ASSUME IInv, Retry \/ FailsOver \/ AttemptFails \/ InvalidArguments
    PROVE  IInv'
<1>1. attempt.number \in 1..MaxAttempts /\ MaxAttempts \in Nat /\ clean \in BOOLEAN
      /\ retried \in BOOLEAN /\ (~Inspects => ~retried)
  BY AnswerStreamAssumption DEF IInv, Types, Producer
<1>2. CASE Retry
  <2>1. attempt.number # MaxAttempts
    BY <1>1, <1>2 DEF Retry, CanRetry
  <2>2. hearing' = <<>>
    BY <1>2 DEF Retry, ResetFilter
  <2>3. QED
    BY <1>1, <1>2, <2>1, <2>2, AgainKeeps DEF Retry, CanRetry
<1>3. CASE FailsOver
  <2>1. attempt.number # MaxAttempts
    BY <1>1, <1>3 DEF FailsOver, CanRetry
  <2>2. QED
    BY <1>1, <1>3, <2>1, AgainKeeps DEF FailsOver, CanRetry
<1>4. CASE AttemptFails
  BY <1>4, FailKeeps DEF AttemptFails
<1>5. CASE InvalidArguments
  <2>1. CASE passed \/ retried \/ attempt.number = MaxAttempts
    BY <1>5, <2>1, FailKeeps DEF InvalidArguments
  <2>2. CASE ~(passed \/ retried \/ attempt.number = MaxAttempts)
    BY <1>1, <1>5, <2>2, AgainKeeps DEF InvalidArguments
  <2>3. QED
    BY <2>1, <2>2
<1>6. QED
  BY <1>2, <1>3, <1>4, <1>5

\* A filter that suppressed nothing holds or passed all it heard.
LEMMA UnsuppressedIs ==
    ASSUME NEW t \in Texts, NEW b \in BOOLEAN, FilterOf(t, b).mode # "suppressed"
    PROVE  VisibleText(t, b) = t
<1>1. Verdict(t, b) # "suppress"
  BY DEF FilterOf
<1>2. ~HasMarker(t)
  <2>1. CASE Verdict(t, b) = "wait"
    BY <2>1, WaitingHasNone
  <2>2. CASE Verdict(t, b) = "stream"
    <3>1. FilterOf(t, b) = Scan(t).filter
      BY <2>2 DEF FilterOf
    <3>2. HasMarker(t) => FilterOf(t, b).mode = "suppressed"
      BY <3>1, ScanFinds
    <3>3. QED
      BY <3>2
  <2>3. QED
    BY <1>1, <2>1, <2>2, VerdictIs
<1>3. QED
  BY <1>1, <1>2, VisibleIs

\* What the end of a successful Run puts into the queue.
LEMMA EndQueued ==
    ASSUME NEW es, NEW g, NEW all, QueueOK(es, g, all), NEW called \in BOOLEAN,
           NEW t \in Texts, NEW u \in Texts, NEW v \in Texts
    PROVE  LET new == es \o (IF called THEN Call ELSE <<>>) \o Content(t) \o Content(u)
                         \o Content(v) \o Done
           IN  /\ QueueOK(new, g, all \o t \o u \o v)
               /\ Holds(new, "call") <=> Holds(es, "call") \/ called
               /\ Holds(new, "done")
<1> DEFINE e1 == es \o (IF called THEN Call ELSE <<>>)
           e2 == e1 \o Content(t)
           e3 == e2 \o Content(u)
           e4 == e3 \o Content(v)
<1>1. QueueOK(e1, g, all) /\ (Holds(e1, "call") <=> Holds(es, "call") \/ called)
  <2>1. CASE called
    BY <2>1, CallQueued
  <2>2. CASE ~called
    <3>1. es \o <<>> = es
      BY ConcatEmptySeq DEF QueueOK
    <3>2. QED
      BY <2>2, <3>1
  <2>3. QED
    BY <2>1, <2>2
<1> HIDE DEF e1
<1>2. QueueOK(e2, g, all \o t) /\ (Holds(e2, "call") <=> Holds(e1, "call"))
  BY <1>1, ContentQueued
<1> HIDE DEF e2
<1>3. QueueOK(e3, g, all \o t \o u) /\ (Holds(e3, "call") <=> Holds(e2, "call"))
  BY <1>2, ContentQueued
<1> HIDE DEF e3
<1>4. QueueOK(e4, g, all \o t \o u \o v) /\ (Holds(e4, "call") <=> Holds(e3, "call"))
  BY <1>3, ContentQueued
<1> HIDE DEF e4
<1>5. /\ QueueOK(e4 \o Done, g, all \o t \o u \o v) /\ Holds(e4 \o Done, "done")
      /\ Holds(e4 \o Done, "call") <=> Holds(e4, "call")
  BY <1>4, DoneQueued
<1>6. QED
  BY <1>1, <1>2, <1>3, <1>4, <1>5 DEF e1, e2, e3, e4

\* The filter's rest and the text nothing of which was passed complete the flow.
LEMMA EndFlows ==
    ASSUME IInv, Producing, Emits, NEW called \in BOOLEAN,
           attempt.text # <<>> \/ attempt.native, attempt.native => called
    PROVE  /\ Trailing \in Texts
           /\ Flow \o Trailing = IF Declared THEN VisibleText(hearing, Judge) ELSE hearing
           /\ Unfiltered(called, attempt.text) = <<>>
<1>1. Types /\ Producer /\ hearing \in Texts /\ Judge \in BOOLEAN
  BY DEF IInv, Types, Judge
<1>2. <<>> \in Texts /\ hearing \o <<>> = hearing /\ <<>> \o <<>> = <<>>
  BY <1>1, EmptyText, ConcatEmptySeq DEF Texts
<1>3. CASE ~Declared
  <2>1. Trailing = <<>> /\ Flow = hearing
    BY <1>3 DEF Trailing, Flow
  <2>2. Unfiltered(called, attempt.text) = <<>>
    BY <1>3 DEF Unfiltered
  <2>3. QED
    BY <1>2, <1>3, <2>1, <2>2
<1>4. CASE Declared
  <2>1. upstream = FilterOf(hearing, Judge) /\ Flow = Pass(hearing, Judge)
    BY <1>1, <1>4 DEF Producer, Flow, Producing
  <2>2. Trailing = Rest(FilterOf(hearing, Judge))
    BY <1>4, <2>1 DEF Trailing, Rest
  <2>3. Trailing \in Texts /\ Flow \o Trailing = VisibleText(hearing, Judge)
    BY <1>1, <2>1, <2>2, FinishIs
  <2>4. ASSUME ~called, ~passed, Trailing = <<>>, upstream.mode # "suppressed" PROVE FALSE
    <3>1. Flow = <<>>
      BY <1>1, <2>4 DEF Producer
    <3>2. VisibleText(hearing, Judge) = <<>>
      BY <1>2, <2>3, <2>4, <3>1
    <3>3. hearing = <<>>
      BY <1>1, <2>1, <2>4, <3>2, UnsuppressedIs
    <3>4. QED
      BY <1>1, <2>4, <3>3 DEF Producer
  <2>5. Unfiltered(called, attempt.text) = <<>>
    BY <2>4 DEF Unfiltered
  <2>6. QED
    BY <1>4, <2>3, <2>5
<1>5. QED
  BY <1>3, <1>4

LEMMA EndsKeep ==
    ASSUME IInv, AttemptEnds
    PROVE  IInv'
<1>1. Types /\ Producer /\ Consumer
  BY DEF IInv
<1>2. /\ Producing /\ (attempt.text # <<>> \/ attempt.native)
      /\ UNCHANGED <<toolUse, attempt, clean, retried, hearing, upstream, passed>>
      /\ ConsumerUnchanged
  BY DEF AttemptEnds
<1> DEFINE Last5(called) ==
             queue.events
               \o (IF called /\ Emits THEN Call ELSE <<>>)
               \o Content(Trailing)
               \o (IF called /\ ~Emits THEN Content(Marker) ELSE <<>>)
               \o Content(Unfiltered(called, attempt.text))
               \o Done
<1>3. PICK called \in BOOLEAN :
        /\ attempt.native => called
        /\ called => attempt.native \/ Inspects
        /\ IF (retried \/ toolUse = "required") /\ ~called
           THEN Fails
           ELSE queue' = [events |-> Last5(called), end |-> "ended"]
        /\ sent' = called
  BY DEF AttemptEnds
<1> DEFINE now == Last5(called)
<1> HIDE DEF now
<1>4. /\ Emits' = Emits /\ Inspects' = Inspects /\ Judge' = Judge /\ Declared' = Declared
      /\ Emits <=> toolUse # "required"
  BY <1>2 DEF Emits, Inspects, Judge, Declared
<1>5. sent <=> Emits /\ attempt.native
  BY <1>1, <1>2 DEF Producer
<1>6. CASE (retried \/ toolUse = "required") /\ ~called
  <2>1. Fails /\ ~sent /\ ~sent' /\ sent \in BOOLEAN
    BY <1>1, <1>3, <1>5, <1>6 DEF Types
  <2>2. sent' = sent
    BY <1>3, <1>6, <2>1
  <2>3. QED
    BY <1>2, <2>1, <2>2, FailKeeps
<1>7. CASE ~((retried \/ toolUse = "required") /\ ~called)
  <2>1. queue' = [events |-> now, end |-> "ended"] /\ (~Emits => called)
    BY <1>3, <1>4, <1>7 DEF now
  <2> DEFINE u == IF called /\ ~Emits THEN Marker ELSE <<>>
             t == Trailing
             v == Unfiltered(called, attempt.text)
             c == called /\ Emits
  <2>2. /\ t \in Texts /\ u \in Texts /\ v = <<>>
        /\ Flow \o t \o u \o v = Flow'
    <3>1. <<>> \in Texts /\ \A x \in Texts : x \o <<>> = x /\ <<>> \o x = x
      BY EmptyText, ConcatEmptySeq DEF Texts
    <3>2. Marker \in Texts
      BY MarkerIs
    <3>3. CASE Emits
      <4>1. u = <<>> /\ t \in Texts /\ v = <<>>
        BY <1>2, <1>3, <3>3, EndFlows
      <4>2. Flow \o t = IF Declared THEN VisibleText(hearing, Judge) ELSE hearing
        BY <1>2, <1>3, <3>3, EndFlows
      <4>3. Flow' = IF Declared THEN VisibleText(hearing, Judge) ELSE hearing
        BY <1>2, <1>4, <2>1, <3>3 DEF Flow
      <4>4. Flow' \in Texts
        BY <1>1, <4>3, VisibleIs DEF Types, Judge
      <4> HIDE DEF t, u, v
      <4>5. QED
        BY <3>1, <4>1, <4>2, <4>3, <4>4
    <3>4. CASE ~Emits
      <4>1. t = <<>> /\ u = Marker /\ v = <<>>
        BY <2>1, <3>4 DEF Trailing, Unfiltered
      <4>2. Flow = <<>> /\ Flow' = Marker
        BY <1>2, <1>4, <2>1, <3>4 DEF Flow, Producing
      <4> HIDE DEF t, u, v
      <4>3. QED
        BY <3>1, <3>2, <4>1, <4>2
    <3>5. QED
      BY <3>3, <3>4
  <2>3. now = queue.events \o (IF c THEN Call ELSE <<>>) \o Content(t)
                \o Content(u) \o Content(v) \o Done
    <3>1. (IF called /\ ~Emits THEN Content(Marker) ELSE <<>>) = Content(u)
      BY DEF Content
    <3>2. QED
      BY <3>1 DEF now
  <2>4. c \in BOOLEAN /\ v \in Texts
    BY <2>2, EmptyText
  <2> HIDE DEF t, u, v, c
  <2>5. QueueOK(queue.events, buffered, Flow)
    BY <1>1 DEF Consumer
  <2>6. /\ QueueOK(now, buffered, Flow')
        /\ Holds(now, "call") <=> Holds(queue.events, "call") \/ c
        /\ Holds(now, "done")
    BY <2>2, <2>3, <2>4, <2>5, EndQueued
  <2>7. queue'.events = now /\ queue'.end = "ended"
    BY <2>1
  <2>8. now \in Seq(Event)
    BY <2>6 DEF QueueOK
  <2>9. Types'
    BY <1>1, <1>2, <1>3, <2>1, <2>8 DEF Types, ConsumerUnchanged
  <2>10. Producer'
    BY <1>1, <1>2, <1>3, <1>4, <2>1, <2>7 DEF Producer, Producing
  <2>11. answer.calls \/ Holds(now, "call") <=> Emits /\ sent'
    BY <1>1, <1>2, <1>3, <1>5, <2>6 DEF Consumer, c
  <2>12. Consumer' /\ Finished'
    BY <1>2, <2>6, <2>7, <2>11, ProducerKeeps
  <2>13. QED
    BY <2>9, <2>10, <2>12 DEF IInv
<1>8. QED
  BY <1>6, <1>7

-----------------------------------------------------------------------------
(* The steps of the consumer                                               *)

LEMMA TakeKeeps ==
    ASSUME IInv, TakeEvent
    PROVE  IInv'
<1> DEFINE event == Head(queue.events)
           p == Push(suppressor, event.text, Inspects)
<1>1. Types /\ Producer /\ Consumer
  BY DEF IInv
<1>2. /\ Telling /\ queue.events # <<>>
      /\ IF event.type = "content"
         THEN /\ suppressor' = p.filter
              /\ buffered' = buffered \o event.text
              /\ answer' = [answer EXCEPT !.text = answer.text \o p.safe]
         ELSE /\ answer' = [answer EXCEPT !.calls = answer.calls \/ event.type = "call",
                                          !.completed = answer.completed \/ event.type = "done"]
              /\ UNCHANGED <<suppressor, buffered>>
      /\ queue' = [queue EXCEPT !.events = Tail(queue.events)]
      /\ ProducerUnchanged
  BY DEF TakeEvent
<1>3. /\ toolUse' = toolUse /\ attempt' = attempt /\ clean' = clean /\ retried' = retried
      /\ hearing' = hearing /\ upstream' = upstream /\ passed' = passed /\ sent' = sent
      /\ queue'.end = queue.end /\ queue'.events = Tail(queue.events)
  BY <1>1, <1>2 DEF ProducerUnchanged, Types
<1>4. /\ Emits' = Emits /\ Inspects' = Inspects /\ Judge' = Judge /\ Declared' = Declared
      /\ Flow' = Flow /\ Producing' = Producing /\ Inspects \in BOOLEAN
  BY <1>3 DEF Emits, Inspects, Judge, Declared, Flow, Producing
<1>5. /\ event \in Event /\ event.text \in Texts
      /\ event.type = "content" <=> event.text # <<>>
      /\ QueueOK(Tail(queue.events), buffered \o event.text, Flow)
      /\ \A type : Holds(queue.events, type) <=> event.type = type \/ Holds(Tail(queue.events), type)
  <2>1. QueueOK(queue.events, buffered, Flow)
    BY <1>1 DEF Consumer
  <2>2. event \in Event => event.text \in Texts
    BY DEF Event
  <2>3. QED
    BY <1>2, <2>1, <2>2, EventTaken
<1> HIDE DEF event
<1>6. buffered \in Texts /\ buffered \o <<>> = buffered /\ answer.text \in Texts
  BY <1>1, ConcatEmptySeq DEF Types, Texts
<1>7. suppressor = FilterOf(buffered, Inspects) /\ answer.text = Pass(buffered, Inspects)
  BY <1>1, <1>2 DEF Consumer
<1>8. /\ suppressor' = FilterOf(buffered \o event.text, Inspects)
      /\ buffered' = buffered \o event.text
      /\ answer'.text = Pass(buffered \o event.text, Inspects)
      /\ answer'.text \in Texts
      /\ answer' = [answer EXCEPT !.text = answer'.text, !.calls = answer'.calls,
                                  !.completed = answer'.completed]
      /\ answer'.calls = (answer.calls \/ event.type = "call")
      /\ answer'.completed = (answer.completed \/ event.type = "done")
  <2>1. /\ answer \in [text : Texts, calls : BOOLEAN, completed : BOOLEAN,
                       finish : {"none", "stop", "tool_calls", "error"}]
    BY <1>1 DEF Types
  <2>2. CASE event.type = "content"
    <3>1. event.text # <<>>
      BY <1>5, <2>2
    <3>2. /\ p.filter = FilterOf(buffered \o event.text, Inspects)
          /\ Pass(buffered, Inspects) \o p.safe = Pass(buffered \o event.text, Inspects)
      BY <1>4, <1>5, <1>6, <1>7, <3>1, PushIs
    <3> HIDE DEF p
    <3>3. Pass(buffered \o event.text, Inspects) \in Texts
      BY <1>5, <1>6, JoinIs, FilterTypes
    <3>4. answer' = [answer EXCEPT !.text = Pass(buffered \o event.text, Inspects)]
      BY <1>2, <1>7, <2>2, <3>2
    <3>5. answer'.calls = answer.calls /\ answer'.completed = answer.completed
      BY <2>1, <3>4
    <3>6. suppressor' = p.filter /\ buffered' = buffered \o event.text
      BY <1>2, <2>2
    <3>7. QED
      BY <2>1, <2>2, <3>2, <3>3, <3>4, <3>5, <3>6
  <2>3. CASE event.type # "content"
    <3>1. event.text = <<>>
      BY <1>5, <2>3
    <3>2. QED
      BY <1>2, <1>6, <1>7, <2>1, <2>3, <3>1
  <2>4. QED
    BY <2>2, <2>3
<1> HIDE DEF p
<1>9. Types'
  <2>1. buffered' \in Texts
    BY <1>5, <1>6, <1>8, JoinIs
  <2>2. queue' \in [events : Seq(Event), end : {"open", "ended", "failed"}]
    <3>1. Tail(queue.events) \in Seq(Event)
      BY <1>5 DEF QueueOK
    <3>2. QED
      BY <1>1, <1>2, <3>1 DEF Types
  <2>3. answer' \in [text : Texts, calls : BOOLEAN, completed : BOOLEAN,
                     finish : {"none", "stop", "tool_calls", "error"}]
    <3>1. answer'.calls \in BOOLEAN /\ answer'.completed \in BOOLEAN
      BY <1>1, <1>8 DEF Types
    <3>2. QED
      BY <1>1, <1>8, <3>1 DEF Types
  <2>4. QED
    BY <1>1, <1>3, <2>1, <2>2, <2>3 DEF Types
<1>10. Producer'
  BY <1>1, <1>3, <1>4 DEF Producer
<1>11. Telling'
  BY <1>1, <1>2, <1>8 DEF Telling, Types
<1>12. Consumer'
  <2>1. /\ answer.calls \/ Holds(queue.events, "call") <=> Emits /\ sent
        /\ queue.end = "ended" => answer.completed \/ Holds(queue.events, "done")
    BY <1>1, <1>2 DEF Consumer
  <2>2. answer'.calls \/ Holds(queue'.events, "call") <=> Emits' /\ sent'
    BY <1>3, <1>4, <1>5, <1>8, <2>1
  <2>3. queue'.end = "ended" => answer'.completed \/ Holds(queue'.events, "done")
    BY <1>3, <1>5, <1>8, <2>1
  <2>4. QueueOK(queue'.events, buffered', Flow')
    BY <1>3, <1>4, <1>5, <1>8
  <2>5. QED
    BY <1>4, <1>8, <1>11, <2>2, <2>3, <2>4 DEF Consumer
<1>13. Finished'
  BY <1>11 DEF Finished
<1>14. QED
  BY <1>9, <1>10, <1>12, <1>13 DEF IInv

\* What the consumer lets pass of the start of the flow is the start of what is visible.
LEMMA FlowShows ==
    ASSUME Types, Emits, NEW g \in Texts, IsPrefix(g, Flow)
    PROVE  Pass(g, Judge) \in Texts /\ IsPrefix(Pass(g, Judge), VisibleText(hearing, Judge))
<1> DEFINE v == VisibleText(hearing, Judge)
<1>1. hearing \in Texts /\ Judge \in BOOLEAN /\ v \in Texts /\ Flow \in Texts
  BY FlowIs, VisibleIs DEF Types
<1>2. Pass(g, Judge) \in Texts /\ VisibleText(g, Judge) \in Texts
  BY <1>1, FilterTypes, VisibleIs
<1>3. CASE ~Declared
  <2>1. Flow = hearing
    BY <1>3 DEF Flow
  <2>2. QED
    BY <1>1, <1>2, <2>1, PassGrows
<1>4. CASE Declared
  <2>1. IsPrefix(Flow, v)
    <3>1. v \o <<>> = v /\ <<>> \in Texts
      BY <1>1, ConcatEmptySeq, EmptyText DEF Texts
    <3>2. IsPrefix(v, v)
      BY <1>1, <3>1, GoesOn
    <3>3. IsPrefix(Pass(hearing, Judge), v)
      BY <1>1, FinishIs
    <3>4. Flow = v \/ Flow = Pass(hearing, Judge)
      BY <1>4 DEF Flow
    <3>5. QED
      BY <3>2, <3>3, <3>4
  <2> HIDE DEF v
  <2>2. IsPrefix(Pass(g, Judge), VisibleText(g, Judge)) /\ IsPrefix(VisibleText(g, Judge), g)
    BY <1>1, FinishIs, VisibleIs
  <2>3. IsPrefix(Pass(g, Judge), g)
    BY <1>2, <2>2, StartOfStart
  <2>4. IsPrefix(Pass(g, Judge), Flow)
    BY <1>1, <1>2, <2>3, StartOfStart
  <2>5. IsPrefix(Pass(g, Judge), v)
    BY <1>1, <1>2, <2>1, <2>4, StartOfStart
  <2>6. QED
    BY <1>2, <2>5 DEF v
<1>5. QED
  BY <1>3, <1>4

\* What a step that ends the answer leaves of the rest of the invariant.
LEMMA EndedKeeps ==
    ASSUME IInv, ~Producing, ~Telling', ProducerUnchanged,
           UNCHANGED <<suppressor, buffered, queue>>,
           answer' \in [text : Texts, calls : BOOLEAN, completed : BOOLEAN,
                        finish : {"none", "stop", "tool_calls", "error"}]
    PROVE  /\ Types' /\ Producer' /\ Consumer'
           /\ Emits' = Emits /\ Judge' = Judge /\ hearing' = hearing /\ sent' = sent
<1>1. Types /\ Producer /\ Consumer
  BY DEF IInv
<1>2. /\ toolUse' = toolUse /\ attempt' = attempt /\ clean' = clean /\ retried' = retried
      /\ hearing' = hearing /\ upstream' = upstream /\ passed' = passed /\ sent' = sent
      /\ suppressor' = suppressor /\ buffered' = buffered /\ queue' = queue
  BY DEF ProducerUnchanged
<1>3. /\ Emits' = Emits /\ Inspects' = Inspects /\ Judge' = Judge /\ Declared' = Declared
      /\ Flow' = Flow /\ Producing' = Producing
  BY <1>2 DEF Emits, Inspects, Judge, Declared, Flow, Producing
<1>4. Types'
  BY <1>1, <1>2 DEF Types
<1>5. Producer'
  BY <1>1, <1>2, <1>3 DEF Producer
<1>6. Consumer'
  BY <1>1, <1>2, <1>3 DEF Consumer
<1>7. QED
  BY <1>2, <1>3, <1>4, <1>5, <1>6

LEMMA FailedKeeps ==
    ASSUME IInv, StreamFails
    PROVE  IInv'
<1>1. Types /\ Consumer
  BY DEF IInv
<1>2. /\ Telling /\ queue.end = "failed" /\ answer' = [answer EXCEPT !.finish = "error"]
      /\ UNCHANGED <<suppressor, buffered, queue>> /\ ProducerUnchanged
  BY DEF StreamFails
<1>3. /\ answer'.finish = "error" /\ answer'.text = answer.text
      /\ answer' \in [text : Texts, calls : BOOLEAN, completed : BOOLEAN,
                      finish : {"none", "stop", "tool_calls", "error"}]
  BY <1>1, <1>2 DEF Types
<1>4. ~Producing /\ ~Telling' /\ queue'.end = "failed"
  BY <1>2, <1>3 DEF Producing, Telling
<1>5. /\ Types' /\ Producer' /\ Consumer'
      /\ Emits' = Emits /\ Judge' = Judge /\ hearing' = hearing
  BY <1>2, <1>3, <1>4, EndedKeeps
<1>6. ASSUME Emits PROVE IsPrefix(answer.text, VisibleText(hearing, Judge))
  <2>1. answer.text = Pass(buffered, Judge) /\ buffered \in Texts
    BY <1>1, <1>2, <1>6, FlowIs DEF Consumer, Types
  <2>2. IsPrefix(buffered, Flow)
    BY <1>1, TakenIs DEF Consumer
  <2>3. QED
    BY <1>1, <1>6, <2>1, <2>2, FlowShows
<1>7. EndIsTold'
  BY <1>3, <1>4 DEF EndIsTold
<1>8. Finished'
  BY <1>3, <1>5, <1>6, <1>7 DEF Finished
<1>9. QED
  BY <1>5, <1>8 DEF IInv

\* The consumer finds calls in the text exactly when it took text that stands for calls.
LEMMA CallsFound ==
    ASSUME IInv, Telling, queue.events = <<>>, queue.end = "ended", NEW parsed \in ParsedCalls
    PROVE  /\ answer.completed
           /\ answer.calls \/ parsed <=> sent
           /\ ~Emits => sent
<1>1. Types /\ Producer /\ Consumer
  BY DEF IInv
<1>2. ~Holds(queue.events, "call") /\ ~Holds(queue.events, "done")
  <2>1. 1..Len(<<>>) = {}
    BY EmptyText
  <2>2. QED
    BY <2>1 DEF Holds
<1>3. answer.completed /\ (answer.calls <=> Emits /\ sent)
  BY <1>1, <1>2 DEF Consumer
<1>4. buffered = Flow /\ Flow \in Texts
  BY <1>1, TakenIs, FlowIs DEF Consumer
<1>5. CASE ~Emits
  <2>1. sent /\ ~answer.calls /\ Inspects /\ toolUse = "required"
    BY <1>1, <1>3, <1>5, FlowIs DEF Producer, Emits
  <2>2. buffered = Marker
    BY <1>4, <1>5 DEF Flow
  <2>3. MayHoldCalls(buffered)
    <3>1. Len(Marker) = 2 /\ 1 \in 1..(2 - 1)
      BY MarkerIs
    <3>2. 1 \in MarkerAt(Marker)
      BY <3>1 DEF MarkerAt, Marker
    <3>3. QED
      BY <2>2, <3>2 DEF MayHoldCalls, HasMarker
  <2>4. parsed = TRUE
    BY <2>1, <2>3 DEF ParsedCalls
  <2>5. QED
    BY <1>3, <2>1, <2>4
<1>6. CASE Emits /\ sent
  BY <1>3, <1>6
<1>7. CASE Emits /\ ~sent
  <2>1. ASSUME Inspects PROVE ~MayHoldCalls(buffered)
    <3>1. Judge = TRUE /\ Declared /\ hearing \in Texts
      BY <1>1, <1>7, <2>1, FlowIs DEF Types
    <3>2. buffered = VisibleText(hearing, TRUE)
      BY <1>4, <1>7, <3>1 DEF Flow
    <3>3. ~HasMarker(buffered) /\ Verdict(buffered, TRUE) # "suppress"
      BY <3>1, <3>2, VisibleIsClean
    <3>4. QED
      BY <3>3 DEF MayHoldCalls, Verdict
  <2>2. ParsedCalls = {FALSE}
    BY <2>1 DEF ParsedCalls
  <2>3. parsed = FALSE
    BY <2>2
  <2>4. QED
    BY <1>3, <1>7, <2>3
<1>8. QED
  BY <1>5, <1>6, <1>7

LEMMA EndedTells ==
    ASSUME IInv, StreamEnds
    PROVE  IInv'
<1>1. Types /\ Producer /\ Consumer
  BY DEF IInv
<1>2. /\ Telling /\ queue.events = <<>> /\ queue.end = "ended"
      /\ UNCHANGED <<suppressor, buffered, queue>> /\ ProducerUnchanged
  BY DEF StreamEnds
<1> DEFINE RestOf(called) == IF called \/ suppressor.mode = "suppressed" THEN <<>>
                             ELSE suppressor.pending
<1>3. PICK parsed \in ParsedCalls :
        answer' = [answer EXCEPT
                     !.text = answer.text \o RestOf(answer.calls \/ parsed),
                     !.calls = answer.calls \/ parsed,
                     !.finish = IF ~answer.completed THEN "error"
                                ELSE IF answer.calls \/ parsed THEN "tool_calls" ELSE "stop"]
  BY DEF StreamEnds
<1>4. /\ answer.completed /\ (answer.calls \/ parsed <=> sent) /\ (~Emits => sent)
  BY <1>2, CallsFound
<1>5. sent \in BOOLEAN /\ answer.calls \in BOOLEAN /\ parsed \in BOOLEAN
  BY <1>1 DEF Types, ParsedCalls
<1>6. answer.calls \/ parsed = sent
  BY <1>4, <1>5
<1> DEFINE rest == IF sent THEN <<>> ELSE Rest(suppressor)
<1>7. rest = RestOf(answer.calls \/ parsed)
  BY <1>4 DEF Rest
<1>8. /\ buffered \in Texts /\ hearing \in Texts /\ Judge \in BOOLEAN /\ Inspects \in BOOLEAN
      /\ suppressor = FilterOf(buffered, Inspects) /\ answer.text = Pass(buffered, Inspects)
      /\ Emits => Inspects = Judge
  BY <1>1, <1>2, FlowIs DEF Types, Consumer
<1>9. rest \in Texts /\ answer.text \in Texts /\ (sent => rest = <<>>)
  BY <1>1, <1>8, FinishIs, EmptyText DEF Types
<1>10. ~sent => rest = Rest(FilterOf(buffered, Inspects))
  BY <1>8
<1> HIDE DEF rest, RestOf
<1>11. /\ answer'.text = answer.text \o rest
       /\ answer'.finish = IF sent THEN "tool_calls" ELSE "stop"
       /\ answer' \in [text : Texts, calls : BOOLEAN, completed : BOOLEAN,
                       finish : {"none", "stop", "tool_calls", "error"}]
  <2>1. answer.text \o rest \in Texts
    BY <1>9, JoinIs
  <2>2. answer' = [answer EXCEPT !.text = answer.text \o rest, !.calls = answer.calls \/ parsed,
                                 !.finish = IF sent THEN "tool_calls" ELSE "stop"]
    BY <1>3, <1>4, <1>7
  <2>3. QED
    BY <1>1, <1>5, <2>1, <2>2 DEF Types
<1>12. ~Producing /\ ~Telling' /\ queue'.end = "ended"
  BY <1>2, <1>11 DEF Producing, Telling
<1>13. /\ Types' /\ Producer' /\ Consumer'
       /\ Emits' = Emits /\ Judge' = Judge /\ hearing' = hearing /\ sent' = sent
  BY <1>2, <1>11, <1>12, EndedKeeps
<1>14. EndIsTold'
  BY <1>5, <1>11, <1>12, <1>13 DEF EndIsTold
<1>15. buffered = Flow
  BY <1>1, <1>2, TakenIs DEF Consumer
<1>16. ASSUME ~sent PROVE Emits /\ answer'.text = VisibleText(hearing, Judge)
  <2>1. Emits
    BY <1>4, <1>16
  <2>2. answer'.text = Pass(buffered, Judge) \o Rest(FilterOf(buffered, Judge))
    BY <1>8, <1>10, <1>11, <1>16, <2>1
  <2>3. answer'.text = VisibleText(buffered, Judge)
    BY <1>8, <2>2, FinishIs
  <2>4. buffered = hearing \/ buffered = VisibleText(hearing, Judge)
    BY <1>2, <1>15, <2>1 DEF Flow
  <2>5. VisibleText(VisibleText(hearing, Judge), Judge) = VisibleText(hearing, Judge)
    BY <1>8, VisibleIsClean
  <2>6. QED
    BY <2>1, <2>3, <2>4, <2>5
<1>17. ASSUME Emits PROVE IsPrefix(answer'.text, VisibleText(hearing, Judge))
  <2> DEFINE v == VisibleText(hearing, Judge)
  <2>1. IsPrefix(v, v)
    <3>1. v \in Texts
      BY <1>8, VisibleIs
    <3>2. v \o <<>> = v /\ <<>> \in Texts
      BY <3>1, ConcatEmptySeq, EmptyText DEF Texts
    <3>3. QED
      BY <3>1, <3>2, GoesOn
  <2>2. CASE sent
    <3>1. answer'.text = Pass(buffered, Judge)
      BY <1>8, <1>9, <1>11, <1>17, <2>2, ConcatEmptySeq DEF Texts
    <3>2. IsPrefix(buffered, Flow)
      BY <1>1, TakenIs DEF Consumer
    <3>3. QED
      BY <1>1, <1>8, <1>17, <3>1, <3>2, FlowShows
  <2>3. CASE ~sent
    BY <1>16, <2>1, <2>3
  <2>4. QED
    BY <2>2, <2>3
<1>18. answer'.finish = "stop" => ~sent
  BY <1>11
<1>19. Finished'
  BY <1>13, <1>14, <1>16, <1>17, <1>18 DEF Finished
<1>20. QED
  BY <1>13, <1>19 DEF IInv

-----------------------------------------------------------------------------
(* The theorem                                                             *)

LEMMA InitInv == AnswerInit => IInv
<1> SUFFICES ASSUME AnswerInit PROVE IInv
  OBVIOUS
<1>1. <<>> \in Texts /\ Len(<<>>) = 0 /\ <<>> \in Seq(Event)
  BY EmptyText
<1>2. /\ upstream = FilterOf(<<>>, Judge) /\ suppressor = FilterOf(<<>>, Inspects)
      /\ Pass(<<>>, Judge) = <<>> /\ Pass(<<>>, Inspects) = <<>> /\ upstream = FreshFilter
  BY FreshIs DEF AnswerInit
<1>3. Types
  <2>1. 1 \in 1..MaxAttempts /\ 0 <= MaxPieces
    BY AnswerStreamAssumption
  <2>2. attempt \in [number : 1..MaxAttempts, text : Texts, native : BOOLEAN]
    BY <1>1, <2>1 DEF AnswerInit
  <2>3. queue \in [events : Seq(Event), end : {"open", "ended", "failed"}]
    BY <1>1 DEF AnswerInit
  <2>4. answer \in [text : Texts, calls : BOOLEAN, completed : BOOLEAN,
                   finish : {"none", "stop", "tool_calls", "error"}]
    BY <1>1 DEF AnswerInit
  <2>5. QED
    BY <1>1, <2>1, <2>2, <2>3, <2>4 DEF Types, AnswerInit
<1>4. Flow = <<>>
  BY <1>2 DEF Flow, AnswerInit
<1>5. Producer
  BY <1>2, <1>4 DEF Producer, AnswerInit, Producing
<1>6. ~Holds(<<>>, "call")
  <2>1. 1..Len(<<>>) = {}
    BY <1>1
  <2>2. QED
    BY <2>1 DEF Holds
<1>7. Consumer
  BY <1>2, <1>4, <1>6, NothingQueued DEF Consumer, AnswerInit, Telling
<1>8. Finished
  BY DEF Finished, AnswerInit, Telling
<1>9. QED
  BY <1>3, <1>5, <1>7, <1>8 DEF IInv

LEMMA NextInv == IInv /\ [AnswerNext]_answerVars => IInv'
<1> SUFFICES ASSUME IInv, [AnswerNext]_answerVars PROVE IInv'
  OBVIOUS
<1>1. CASE TextDelta
  BY <1>1, DeltaKeeps
<1>2. CASE NativeCall
  BY <1>2, CallKeeps
<1>3. CASE Retry \/ FailsOver \/ AttemptFails \/ InvalidArguments
  BY <1>3, RetriesKeep
<1>4. CASE AttemptEnds
  BY <1>4, EndsKeep
<1>5. CASE TakeEvent
  BY <1>5, TakeKeeps
<1>6. CASE StreamFails
  BY <1>6, FailedKeeps
<1>7. CASE StreamEnds
  BY <1>7, EndedTells
<1>8. CASE UNCHANGED answerVars
  <2>1. /\ toolUse' = toolUse /\ attempt' = attempt /\ clean' = clean /\ retried' = retried
        /\ hearing' = hearing /\ upstream' = upstream /\ passed' = passed /\ sent' = sent
        /\ suppressor' = suppressor /\ buffered' = buffered /\ queue' = queue /\ answer' = answer
    BY <1>8 DEF answerVars
  <2>2. /\ Emits' = Emits /\ Inspects' = Inspects /\ Judge' = Judge /\ Declared' = Declared
        /\ Flow' = Flow /\ Producing' = Producing /\ Telling' = Telling /\ EndIsTold' = EndIsTold
    BY <2>1 DEF Emits, Inspects, Judge, Declared, Flow, Producing, Telling, EndIsTold
  <2>3. Types' /\ Producer'
    BY <2>1, <2>2 DEF IInv, Types, Producer
  <2>4. Consumer'
    BY <2>1, <2>2 DEF IInv, Consumer
  <2>5. Finished'
    BY <2>1, <2>2 DEF IInv, Finished
  <2>6. QED
    BY <2>3, <2>4, <2>5 DEF IInv
<1>9. QED
  BY <1>1, <1>2, <1>3, <1>4, <1>5, <1>6, <1>7, <1>8 DEF AnswerNext

LEMMA InvTells == IInv => AnswerIsTold
<1> SUFFICES ASSUME IInv PROVE AnswerIsTold
  OBVIOUS
<1>1. Types /\ Producer /\ Consumer /\ Finished
  BY DEF IInv
<1>2. hearing \in Texts /\ buffered \in Texts /\ Judge = (toolUse = "auto") /\ Judge \in BOOLEAN
  BY <1>1 DEF Types, Judge
<1>3. FreshFilter \in Filter
  BY EmptyText DEF FreshFilter, Filter, Texts
<1>4. upstream \in Filter /\ suppressor \in Filter
  BY <1>1, <1>2, <1>3, FilterTypes DEF Producer, Consumer
<1>5. AnswerTypeOK
  BY <1>1, <1>4 DEF Types, AnswerTypeOK
<1>6. /\ Emits => IsPrefix(answer.text, VisibleText(hearing, Judge))
      /\ answer.finish = "stop" => Emits /\ answer.text = VisibleText(hearing, Judge)
  <2>1. CASE Telling
    <3>1. ASSUME Emits PROVE IsPrefix(answer.text, VisibleText(hearing, Judge))
      <4>1. answer.text = Pass(buffered, Judge) /\ IsPrefix(buffered, Flow)
        BY <1>1, <2>1, <3>1, FlowIs, TakenIs DEF Consumer
      <4>2. QED
        BY <1>1, <1>2, <3>1, <4>1, FlowShows
    <3>2. QED
      BY <2>1, <3>1 DEF Telling
  <2>2. CASE ~Telling
    BY <1>1, <2>2 DEF Finished
  <2>3. QED
    BY <2>1, <2>2
<1>7. Emits => (IF clean THEN attempt.text ELSE hearing) = hearing
  BY <1>1 DEF Producer
<1>8. TextIsChunkBlind
  BY <1>2, <1>6, <1>7 DEF TextIsChunkBlind, Emits
<1>9. EndIsTold
  <2>1. CASE Telling
    BY <2>1 DEF Telling, EndIsTold
  <2>2. CASE ~Telling
    BY <1>1, <2>2 DEF Finished
  <2>3. QED
    BY <2>1, <2>2
<1>10. QED
  BY <1>5, <1>8, <1>9 DEF AnswerIsTold

(* For every number of attempts and pieces of text, and however the text   *)
(* of a Run is cut into chunks: what completeStream and streamChatCompletion*)
(* write to the client is the visible part of what the Run said, in order  *)
(* and with nothing of a tool call in it; it is whole when the answer ends *)
(* in text, and the end tells calls, text or an error as the Run ended.    *)
THEOREM AnswersAreTold == AnswerSpec => []AnswerIsTold
<1>1. AnswerSpec => []IInv
  BY InitInv, NextInv, PTL DEF AnswerSpec
<1>2. QED
  BY <1>1, InvTells, PTL

-----------------------------------------------------------------------------
(* The calls: the invariant                                                *)

\* Texts of arguments, whole or in part.
ArgTexts == Seq(Openings \cup ArgValues)

\* The Run still hears frames.
Live == stage \in {"running", "parked"}

\* Crossed, of the aliases of a frame that is being handled.
CrossedIn(aliases) ==
    \E a, b \in DOMAIN aliases : a[2] # b[2] /\ aliases[a] = aliases[b]

\* The exec of a call is known by the tool's id or by one it drifted to.
CallsMade ==
    \A k \in UpstreamCalls :
        made[k].exec \in {<<>>, <<"tool", k>>, <<"drifted", k>>}

HeldAreExecs == \A id \in heldCalls : made[id[2]].exec = id

\* Call n said slot i to its end, by an update or by its exec.
Finishes(n, i) ==
    \/ /\ made[n].completed
       /\ Named(tools, <<"envelope", n>>) = i /\ Named(tools, <<"tool", n>>) = i
    \/ Named(tools, made[n].exec) = i

SlotsAreFinished ==
    \A i \in DOMAIN tools.slots :
        Completed(tools.slots[i]) => \E n \in UpstreamCalls : Finishes(n, i)

ToldAreCompleted == \A i \in told : Completed(tools.slots[i])

(* A slot's exec is the exec of a call of the same arguments.  Only the    *)
(* frame that failed the Run may have left an exec without its arguments,  *)
(* and that exec is not among those that wait.                             *)
ExecsOfSlots ==
    \A i \in DOMAIN tools.slots :
        LET s == tools.slots[i] IN
        s.exec # <<>> =>
            /\ s.exec \in Ids /\ made[s.exec[2]].exec = s.exec
            /\ Live \/ s.exec \in heldCalls =>
                 Completed(s) /\ s.call[2] = made[s.exec[2]].value

ResultsAreRight ==
    \A p \in resultOf :
        /\ p[1] \in Ids /\ made[p[1][2]].exec = p[1]
        /\ p[2] \in DOMAIN tools.slots
        /\ Completed(tools.slots[p[2]])
        /\ tools.slots[p[2]].call[2] = made[p[1][2]].value

IsResponse(r) ==
    /\ r = [calls |-> r.calls, client |-> r.client, broken |-> r.broken]
    /\ r.broken \in BOOLEAN

TypedStream(x) ==
    /\ x = [slots |-> x.slots, aliases |-> x.aliases, response |-> x.response,
            emit |-> x.emit, bad |-> x.bad]
    /\ x.emit \in BOOLEAN /\ x.bad \in BOOLEAN
    /\ x.slots \in Seq(ToolSlot)
    /\ DOMAIN x.aliases \subseteq Ids
    /\ \A a \in DOMAIN x.aliases : x.aliases[a] \in DOMAIN x.slots
    /\ IsResponse(x.response)

(* What was emitted of slot i went to the response there is, or the slot   *)
(* was told to its end by an earlier one.                                  *)
Weak(x, i) ==
    LET s == x.slots[i] IN
    IF s.emittedStart
    THEN /\ i \in VisibleSlots(x)
         /\ \/ x.emit /\ i \in DOMAIN x.response.calls
            \/ Completed(s) /\ s.emitted = s.call
    ELSE s.emitted = NoText

SlotOK(x, i) ==
    LET s == x.slots[i] IN
    /\ s.started /\ Weak(x, i)
    /\ s.emittedStart /\ Completed(s) => s.emitted = s.call

(* The three who keep the text of a call agree on it: the slot, the        *)
(* accumulator and the client.  A surfaced slot is in a later response     *)
(* only when another call's exec was taken for it.                         *)
CallOK(x, i) ==
    /\ i \in DOMAIN x.slots /\ x.slots[i].emittedStart
    /\ ~x.response.calls[i].done
    /\ x.response.calls[i].text = x.slots[i].emitted
    /\ x.response.client[i] = x.slots[i].emitted
    /\ i \in told => CrossedIn(x.aliases)

StreamOK(x) ==
    /\ DOMAIN x.response.client = DOMAIN x.response.calls
    /\ x.response.broken => CrossedIn(x.aliases) /\ ~x.emit
    /\ ~x.bad => \A i \in DOMAIN x.slots : SlotOK(x, i)
    /\ ~x.bad /\ x.emit => \A i \in DOMAIN x.response.calls : CallOK(x, i)

MadeType ==
    made \in [UpstreamCalls ->
        [value : ArgValues, opening : Openings, said : 0..2, completed : BOOLEAN,
         exec : Ids \cup {<<>>}]]

\* The inductive invariant.
ToolInv ==
    /\ ToolTypeOK /\ MadeType /\ TypedStream(Stream)
    /\ CallsMade /\ HeldAreExecs /\ SlotsAreFinished /\ ToldAreCompleted
    /\ ExecsOfSlots /\ ResultsAreRight
    /\ StreamNeverBreaks /\ ClientHasTheCalls /\ ExecsHaveASlot
    /\ Live => StreamOK(Stream)

\* What a flush of slot i may change.
Flushed(x, y, i) ==
    /\ y.aliases = x.aliases /\ y.emit = x.emit
    /\ DOMAIN y.slots = DOMAIN x.slots
    /\ \A j \in DOMAIN x.slots \ {i} : y.slots[j] = x.slots[j]
    /\ y.slots[i].started = x.slots[i].started
    /\ y.slots[i].arguments = x.slots[i].arguments
    /\ y.slots[i].call = x.slots[i].call
    /\ y.slots[i].exec = x.slots[i].exec
    /\ x.emit = FALSE => y.response = x.response

\* What a text adds to a prefix of it, put behind the prefix, is the text.
LEMMA PrefixJoin ==
    ASSUME NEW s \in ArgTexts, NEW t \in ArgTexts, IsPrefix(s, t)
    PROVE  /\ s \o SubSeq(t, Len(s) + 1, Len(t)) = t
           /\ SubSeq(t, Len(s) + 1, Len(t)) \in ArgTexts
<1>1. Len(s) \in Nat /\ Len(t) \in Nat /\ Len(s) <= Len(t)
  BY DEF IsPrefix, ArgTexts
<1>2. SubSeq(s, 1, Len(s)) = s /\ SubSeq(t, 1, Len(t)) = t
  BY SubSeqFull DEF ArgTexts
<1>3. SubSeq(t, 1, Len(s)) = s
  BY <1>2 DEF IsPrefix
<1>4. 1 \in 1..(Len(t) + 1) /\ Len(s) \in (1 - 1)..Len(t) /\ Len(t) \in Len(s)..Len(t)
  BY <1>1
<1>5. SubSeq(t, 1, Len(s)) \o SubSeq(t, Len(s) + 1, Len(t)) = SubSeq(t, 1, Len(t))
  BY <1>4, ConcatAdjacentSubSeq DEF ArgTexts
<1>6. \A k \in (Len(s) + 1)..Len(t) : t[k] \in Openings \cup ArgValues
  BY <1>1, ElementOfSeq DEF ArgTexts
<1>7. Len(s) + 1 \in Int /\ Len(t) \in Int
  BY <1>1
<1>8. SubSeq(t, Len(s) + 1, Len(t)) \in ArgTexts
  BY <1>6, <1>7, SubSeqProperties DEF ArgTexts
<1>9. QED
  BY <1>2, <1>3, <1>5, <1>8

\* Every text is a prefix of itself, and no text is a prefix of any.
LEMMA PrefixesOf ==
    ASSUME NEW s \in ArgTexts
    PROVE  IsPrefix(s, s) /\ IsPrefix(NoText, s) /\ NoText \in ArgTexts
<1>1. Len(s) \in Nat
  BY DEF ArgTexts
<1>2. NoText \in ArgTexts /\ Len(NoText) = 0
  BY EmptySeq DEF ArgTexts, NoText
<1>3. SubSeq(NoText, 1, 0) = <<>> /\ SubSeq(s, 1, 0) = <<>>
  BY <1>2, SubSeqEmpty DEF ArgTexts
<1>4. QED
  BY <1>1, <1>2, <1>3 DEF IsPrefix

\* The fields of a slot have their types.
LEMMA SlotFields ==
    ASSUME NEW x, TypedStream(x), NEW i \in DOMAIN x.slots
    PROVE  /\ x.slots[i] \in ToolSlot
           /\ x.slots[i].arguments \in ArgTexts
           /\ x.slots[i].emitted \in ArgTexts
           /\ x.slots[i].call \in ArgTexts
           /\ x.slots[i].started \in BOOLEAN /\ x.slots[i].emittedStart \in BOOLEAN
<1>1. x.slots \in Seq(ToolSlot)
  BY DEF TypedStream
<1>2. x.slots[i] \in ToolSlot
  BY <1>1, ElementOfSeq
<1>3. QED
  BY <1>2 DEF ToolSlot, ArgTexts

\* A slot, and the response, are replaced; names for the provers.
PutSlot(x, i, s) == [x EXCEPT !.slots[i] = s]
PutResponse(x, r) == [x EXCEPT !.response = r]

\* A slot is replaced by another.
LEMMA SlotPut ==
    ASSUME NEW x, TypedStream(x), NEW i \in DOMAIN x.slots, NEW s \in ToolSlot,
           NEW w, w = PutSlot(x, i, s)
    PROVE  /\ TypedStream(w) /\ DOMAIN w.slots = DOMAIN x.slots
           /\ w.slots[i] = s
           /\ \A j \in DOMAIN x.slots \ {i} : w.slots[j] = x.slots[j]
           /\ w.aliases = x.aliases /\ w.response = x.response
           /\ w.emit = x.emit /\ w.bad = x.bad
<1> DEFINE z == [x.slots EXCEPT ![i] = s]
<1>1. x.slots \in Seq(ToolSlot)
  BY DEF TypedStream
<1>2. z \in Seq(ToolSlot) /\ DOMAIN z = DOMAIN x.slots
  BY <1>1, ExceptSeq
<1>3. z[i] = s /\ \A j \in DOMAIN x.slots \ {i} : z[j] = x.slots[j]
  BY <1>1
<1>4. /\ w = [slots |-> z, aliases |-> x.aliases, response |-> x.response,
              emit |-> x.emit, bad |-> x.bad]
  BY DEF TypedStream, PutSlot
<1> HIDE DEF z
<1>5. /\ w.slots = z /\ w.aliases = x.aliases /\ w.response = x.response
      /\ w.emit = x.emit /\ w.bad = x.bad
  BY <1>4
<1>6. TypedStream(w)
  BY <1>2, <1>4, <1>5 DEF TypedStream
<1>7. QED
  BY <1>2, <1>3, <1>5, <1>6

\* The response learns something.
LEMMA ResponsePut ==
    ASSUME NEW x, TypedStream(x), NEW r, IsResponse(r),
           NEW w, w = PutResponse(x, r)
    PROVE  /\ TypedStream(w) /\ w.slots = x.slots
           /\ w.aliases = x.aliases /\ w.response = r
           /\ w.emit = x.emit /\ w.bad = x.bad
<1>1. w = [slots |-> x.slots, aliases |-> x.aliases, response |-> r,
           emit |-> x.emit, bad |-> x.bad]
  BY DEF TypedStream, PutResponse
<1>2. /\ w.slots = x.slots /\ w.aliases = x.aliases /\ w.response = r
      /\ w.emit = x.emit /\ w.bad = x.bad
  BY <1>1
<1>3. TypedStream(w)
  BY <1>1, <1>2 DEF TypedStream
<1>4. QED
  BY <1>2, <1>3

\* start(): the response knows one more call, without arguments.
LEMMA AccStartIs ==
    ASSUME NEW r, IsResponse(r), NEW i, ~Started(r, i), DOMAIN r.client = DOMAIN r.calls
    PROVE  LET q == AccStart(r, i) IN
           /\ IsResponse(q) /\ q.broken = r.broken
           /\ DOMAIN q.calls = DOMAIN r.calls \cup {i}
           /\ DOMAIN q.client = DOMAIN r.calls \cup {i}
           /\ q.calls[i].text = NoText /\ ~q.calls[i].done /\ q.client[i] = NoText
           /\ \A j \in DOMAIN r.calls : q.calls[j] = r.calls[j] /\ q.client[j] = r.client[j]
<1> DEFINE q == AccStart(r, i)
<1>1. q = [calls |-> Known(r, i, NoText, FALSE), client |-> Heard(r, i, NoText),
           broken |-> r.broken]
  BY DEF AccStart, IsResponse
<1>2. i \notin DOMAIN r.calls /\ i \notin DOMAIN r.client
  BY DEF Started
<1> HIDE DEF q
<1>3. IsResponse(q) /\ q.broken = r.broken
  BY <1>1 DEF IsResponse
<1>4. q.calls = Known(r, i, NoText, FALSE) /\ q.client = Heard(r, i, NoText)
  BY <1>1
<1>5. /\ DOMAIN q.calls = DOMAIN r.calls \cup {i}
      /\ q.calls[i].text = NoText /\ ~q.calls[i].done
      /\ \A j \in DOMAIN r.calls : q.calls[j] = r.calls[j]
  BY <1>2, <1>4 DEF Known
<1>6. /\ DOMAIN q.client = DOMAIN r.calls \cup {i}
      /\ q.client[i] = NoText
      /\ \A j \in DOMAIN r.calls : q.client[j] = r.client[j]
  BY <1>2, <1>4 DEF Heard
<1>7. QED
  BY <1>3, <1>5, <1>6 DEF q

\* Concatenation under a name of its own, for the provers.
Joined(s, t) == s \o t

\* append(): the call and the client hear the delta, and no other call does.
LEMMA AccAppendIs ==
    ASSUME NEW r, IsResponse(r), NEW i, NEW delta, Started(r, i), ~r.calls[i].done,
           DOMAIN r.client = DOMAIN r.calls
    PROVE  LET q == AccAppend(r, i, delta) IN
           /\ IsResponse(q) /\ q.broken = r.broken
           /\ DOMAIN q.calls = DOMAIN r.calls /\ DOMAIN q.client = DOMAIN r.calls
           /\ q.calls[i].text = Joined(r.calls[i].text, delta) /\ ~q.calls[i].done
           /\ q.client[i] = Joined(r.client[i], delta)
           /\ \A j \in DOMAIN r.calls \ {i} :
                q.calls[j] = r.calls[j] /\ q.client[j] = r.client[j]
<1> DEFINE q    == AccAppend(r, i, delta)
           text == Joined(r.calls[i].text, delta)
<1>1. q = [calls |-> Known(r, i, text, FALSE), client |-> Heard(r, i, delta),
           broken |-> r.broken]
  BY DEF AccAppend, IsResponse, Joined
<1>2. i \in DOMAIN r.calls /\ i \in DOMAIN r.client
  BY DEF Started
<1> HIDE DEF q, text
<1>3. IsResponse(q) /\ q.broken = r.broken
  BY <1>1 DEF IsResponse
<1>4. q.calls = Known(r, i, text, FALSE) /\ q.client = Heard(r, i, delta)
  BY <1>1
<1>5. /\ DOMAIN q.calls = DOMAIN r.calls
      /\ q.calls[i].text = text /\ ~q.calls[i].done
      /\ \A j \in DOMAIN r.calls \ {i} : q.calls[j] = r.calls[j]
  BY <1>2, <1>4 DEF Known
<1>6. /\ DOMAIN q.client = DOMAIN r.calls
      /\ q.client[i] = Joined(r.client[i], delta)
      /\ \A j \in DOMAIN r.calls \ {i} : q.client[j] = r.client[j]
  BY <1>2, <1>4 DEF Heard, Joined
<1>7. QED
  BY <1>3, <1>5, <1>6 DEF q, text

\* What a stream must be before it flushes slot i.
Flushable(x, i) ==
    /\ TypedStream(x) /\ ~x.bad /\ i \in DOMAIN x.slots
    /\ DOMAIN x.response.client = DOMAIN x.response.calls
    /\ x.response.broken => CrossedIn(x.aliases) /\ ~x.emit
    /\ x.emit => \A j \in DOMAIN x.response.calls : CallOK(x, j)
    /\ \A j \in DOMAIN x.slots \ {i} : SlotOK(x, j)
    /\ x.slots[i].started /\ Weak(x, i)
    /\ i \in told => CrossedIn(x.aliases)

\* A flush of slot i sends something.
Sends(x, i) == x.emit /\ i \in VisibleSlots(x)

\* After the start of slot i has been sent.
LEMMA StartSent ==
    ASSUME NEW x, NEW i, Flushable(x, i), Sends(x, i)
    PROVE  LET y == EmitStart(x, i) IN
           /\ Flushable(y, i) /\ Flushed(x, y, i)
           /\ y.slots[i].emittedStart /\ y.slots[i].emitted = x.slots[i].emitted
<1> DEFINE y == EmitStart(x, i)
<1>1. TypedStream(x) /\ i \in DOMAIN x.slots
  BY DEF Flushable
<1>2. CASE x.slots[i].emittedStart
  <2>1. y = x
    BY <1>2 DEF EmitStart
  <2> HIDE DEF y
  <2>2. QED
    BY <1>2, <2>1 DEF Flushed, y
<1>3. CASE ~x.slots[i].emittedStart
  <2> DEFINE v == [x.slots[i] EXCEPT !.emittedStart = TRUE]
             z == PutSlot(x, i, v)
             q == AccStart(x.response, i)
  <2>1. x.slots[i] \in ToolSlot
    BY <1>1, SlotFields
  <2>2. /\ v \in ToolSlot /\ v.emittedStart
        /\ v.started = x.slots[i].started /\ v.arguments = x.slots[i].arguments
        /\ v.emitted = x.slots[i].emitted /\ v.exec = x.slots[i].exec
        /\ v.call = x.slots[i].call
    BY <2>1 DEF ToolSlot
  <2>3. y = PutResponse(z, q)
    BY <1>1, <1>3 DEF EmitStart, TypedStream, PutSlot, PutResponse
  <2> HIDE DEF v, y
  <2>4. /\ TypedStream(z) /\ DOMAIN z.slots = DOMAIN x.slots /\ z.slots[i] = v
        /\ \A j \in DOMAIN x.slots \ {i} : z.slots[j] = x.slots[j]
        /\ z.aliases = x.aliases /\ z.response = x.response
        /\ z.emit = x.emit /\ z.bad = x.bad
    BY <1>1, <2>2, SlotPut
  <2>5. i \notin DOMAIN x.response.calls
    BY <1>3 DEF Flushable, CallOK, Sends
  <2>6. IsResponse(x.response) /\ DOMAIN x.response.client = DOMAIN x.response.calls
    BY <1>1 DEF TypedStream, Flushable
  <2>7. /\ IsResponse(q) /\ q.broken = x.response.broken
        /\ DOMAIN q.calls = DOMAIN x.response.calls \cup {i}
        /\ DOMAIN q.client = DOMAIN x.response.calls \cup {i}
        /\ q.calls[i].text = NoText /\ ~q.calls[i].done /\ q.client[i] = NoText
        /\ \A j \in DOMAIN x.response.calls :
             q.calls[j] = x.response.calls[j] /\ q.client[j] = x.response.client[j]
    <3>1. ~Started(x.response, i)
      BY <2>5 DEF Started
    <3>2. QED
      BY <2>6, <3>1, AccStartIs
  <2> HIDE DEF z, q
  <2>8. /\ TypedStream(y) /\ y.slots = z.slots /\ y.aliases = z.aliases
        /\ y.response = q /\ y.emit = z.emit /\ y.bad = z.bad
    BY <2>3, <2>4, <2>7, ResponsePut
  <2>9. Flushed(x, y, i) /\ y.slots[i].emittedStart /\ y.slots[i].emitted = x.slots[i].emitted
    <3>1. x.emit # FALSE
      BY DEF Sends
    <3>2. QED
      BY <2>2, <2>4, <2>8, <3>1 DEF Flushed
  <2>10. x.slots[i].emitted = NoText
    BY <1>3 DEF Flushable, Weak
  <2>11. VisibleSlots(y) = VisibleSlots(x)
    BY <2>4, <2>8 DEF VisibleSlots
  <2>12. \A j \in DOMAIN y.response.calls : CallOK(y, j)
    <3>1. ASSUME NEW j \in DOMAIN x.response.calls PROVE CallOK(y, j)
      <4>1. CallOK(x, j) /\ j # i
        BY <2>5 DEF Flushable, Sends
      <4>2. QED
        BY <4>1, <2>4, <2>7, <2>8 DEF CallOK
    <3>2. CallOK(y, i)
      BY <1>1, <2>2, <2>4, <2>7, <2>8, <2>10 DEF CallOK, Flushable
    <3>3. QED
      BY <3>1, <3>2, <2>7, <2>8
  <2>13. ASSUME NEW j \in DOMAIN x.slots \ {i} PROVE SlotOK(y, j)
    <3>1. SlotOK(x, j) /\ y.slots[j] = x.slots[j]
      BY <2>4, <2>8 DEF Flushable
    <3>2. j \in DOMAIN x.response.calls => j \in DOMAIN y.response.calls
      BY <2>7, <2>8
    <3>3. y.emit = x.emit
      BY <2>4, <2>8
    <3>4. QED
      BY <3>1, <3>2, <3>3, <2>11 DEF SlotOK, Weak
  <2>14. Weak(y, i)
    BY <2>4, <2>7, <2>8, <2>9, <2>11 DEF Weak, Sends
  <2>15. Flushable(y, i)
    BY <1>1, <2>2, <2>4, <2>7, <2>8, <2>12, <2>13, <2>14 DEF Flushable
  <2>16. QED
    BY <2>9, <2>15 DEF y
<1>4. x.slots[i].emittedStart \in BOOLEAN
  BY <1>1, SlotFields
<1>5. QED
  BY <1>2, <1>3, <1>4

\* The text a flush brings the response up to.
Upto(s) == IF Completed(s) THEN s.call ELSE s.arguments

\* The start of slot i was sent, some of its text was not.
Behind(y, i) ==
    /\ Sends(y, i) /\ y.slots[i].emittedStart
    /\ Upto(y.slots[i]) # y.slots[i].emitted
    /\ IsPrefix(y.slots[i].emitted, Upto(y.slots[i]))

\* The pieces of what a response had not heard are sent.
LEMMA PiecesSent ==
    ASSUME NEW y, NEW i, Flushable(y, i), Behind(y, i)
    PROVE  LET text == Upto(y.slots[i])
               z == [y EXCEPT
                       !.slots[i].emitted = text,
                       !.response = AccAppend(@, i,
                         SubSeq(text, Len(y.slots[i].emitted) + 1, Len(text)))] IN
           /\ TypedStream(z) /\ StreamOK(z) /\ Flushed(y, z, i)
<1> DEFINE s     == y.slots[i]
           text  == Upto(s)
           delta == SubSeq(text, Len(s.emitted) + 1, Len(text))
           v     == [s EXCEPT !.emitted = text]
           u     == PutSlot(y, i, v)
           q     == AccAppend(y.response, i, delta)
           z     == [y EXCEPT !.slots[i].emitted = text, !.response = AccAppend(@, i, delta)]
<1>1. TypedStream(y) /\ i \in DOMAIN y.slots
  BY DEF Flushable
<1>2. s \in ToolSlot /\ text \in ArgTexts /\ s.emitted \in ArgTexts
  BY <1>1, SlotFields DEF Upto
<1>3. /\ v \in ToolSlot /\ v.emitted = text /\ v.emittedStart = s.emittedStart
      /\ v.started = s.started /\ v.arguments = s.arguments
      /\ v.exec = s.exec /\ v.call = s.call
  <2> DEFINE t == text
  <2>1. t \in Seq(Openings \cup ArgValues)
    BY <1>2 DEF ArgTexts
  <2> HIDE DEF t
  <2>2. LET w == [s EXCEPT !.emitted = t] IN
        /\ w \in ToolSlot /\ w.emitted = t /\ w.emittedStart = s.emittedStart
        /\ w.started = s.started /\ w.arguments = s.arguments
        /\ w.exec = s.exec /\ w.call = s.call
    BY <1>2, <2>1 DEF ToolSlot
  <2>3. QED
    BY <2>2 DEF t
<1>4. z = PutResponse(u, q)
  BY <1>1 DEF TypedStream, PutSlot, PutResponse
<1>5. Joined(s.emitted, delta) = text /\ delta \in ArgTexts
  BY <1>2, PrefixJoin DEF Behind, Joined
<1> HIDE DEF v, z, delta
<1>6. /\ TypedStream(u) /\ DOMAIN u.slots = DOMAIN y.slots /\ u.slots[i] = v
      /\ \A j \in DOMAIN y.slots \ {i} : u.slots[j] = y.slots[j]
      /\ u.aliases = y.aliases /\ u.response = y.response
      /\ u.emit = y.emit /\ u.bad = y.bad
  BY <1>1, <1>3, SlotPut
<1>7. i \in DOMAIN y.response.calls
  <2>1. ~(Completed(s) /\ s.emitted = s.call)
    BY DEF Upto, Behind
  <2>2. QED
    BY <2>1 DEF Flushable, Weak, Behind
<1>8. CallOK(y, i) /\ \A j \in DOMAIN y.response.calls : CallOK(y, j)
  BY <1>7 DEF Flushable, Sends, Behind
<1>9. IsResponse(y.response) /\ DOMAIN y.response.client = DOMAIN y.response.calls
  BY <1>1 DEF TypedStream, Flushable
<1>10. Started(y.response, i) /\ ~y.response.calls[i].done
  BY <1>7, <1>8 DEF Started, CallOK
<1>11. /\ IsResponse(q) /\ q.broken = y.response.broken
       /\ DOMAIN q.calls = DOMAIN y.response.calls
       /\ DOMAIN q.client = DOMAIN y.response.calls
       /\ q.calls[i].text = Joined(y.response.calls[i].text, delta) /\ ~q.calls[i].done
       /\ q.client[i] = Joined(y.response.client[i], delta)
       /\ \A j \in DOMAIN y.response.calls \ {i} :
            q.calls[j] = y.response.calls[j] /\ q.client[j] = y.response.client[j]
  BY <1>9, <1>10, AccAppendIs
<1> HIDE DEF u, q
<1>12. /\ TypedStream(z) /\ z.slots = u.slots /\ z.aliases = u.aliases
       /\ z.response = q /\ z.emit = u.emit /\ z.bad = u.bad
  BY <1>4, <1>6, <1>11, ResponsePut
<1>13. VisibleSlots(z) = VisibleSlots(y)
  BY <1>6, <1>12 DEF VisibleSlots
<1>14. ASSUME NEW j \in DOMAIN z.response.calls PROVE CallOK(z, j)
  <2>1. CASE j = i
    <3>1. q.calls[i].text = text /\ q.client[i] = text
      BY <1>5, <1>8, <1>11 DEF CallOK
    <3>2. QED
      BY <2>1, <3>1, <1>1, <1>3, <1>6, <1>8, <1>11, <1>12 DEF CallOK
  <2>2. CASE j # i
    <3>1. CallOK(y, j)
      BY <1>8, <1>11, <1>12
    <3>2. QED
      BY <2>2, <3>1, <1>6, <1>11, <1>12 DEF CallOK
  <2>3. QED
    BY <2>1, <2>2
<1>15. ASSUME NEW j \in DOMAIN z.slots PROVE SlotOK(z, j)
  <2>1. CASE j = i
    <3>1. Completed(v) => text = v.call
      BY <1>3 DEF Upto, Completed
    <3>2. z.slots[i] = v /\ z.emit = y.emit
      BY <1>6, <1>12
    <3>3. v.started /\ v.emittedStart
      BY <1>3 DEF Flushable, Behind
    <3>4. i \in VisibleSlots(z) /\ z.emit
      BY <1>13, <3>2 DEF Sends, Behind
    <3>5. i \in DOMAIN z.response.calls
      BY <1>7, <1>11, <1>12
    <3>6. QED
      BY <2>1, <3>1, <3>2, <3>3, <3>4, <3>5, <1>3 DEF SlotOK, Weak
  <2>2. CASE j # i
    <3>1. SlotOK(y, j) /\ z.slots[j] = y.slots[j] /\ z.emit = y.emit
      BY <2>2, <1>6, <1>12 DEF Flushable
    <3>2. DOMAIN z.response.calls = DOMAIN y.response.calls
      BY <1>11, <1>12
    <3>3. QED
      BY <3>1, <3>2, <1>13 DEF SlotOK, Weak
  <2>3. QED
    BY <2>1, <2>2
<1>16. StreamOK(z)
  <2>1. ~z.response.broken
    <3>1. ~y.response.broken
      BY DEF Flushable, Sends, Behind
    <3>2. QED
      BY <3>1, <1>11, <1>12
  <2>2. QED
    BY <2>1, <1>11, <1>12, <1>14, <1>15 DEF StreamOK
<1>17. Flushed(y, z, i)
  <2>1. y.emit # FALSE
    BY DEF Sends, Behind
  <2>2. QED
    BY <2>1, <1>3, <1>6, <1>12 DEF Flushed
<1>18. QED
  BY <1>12, <1>16, <1>17 DEF z, delta

\* Two flushes of a slot change what one may change.
LEMMA FlushedTwice ==
    ASSUME NEW x, NEW y, NEW z, NEW i, i \in DOMAIN x.slots, Flushed(x, y, i), Flushed(y, z, i)
    PROVE  Flushed(x, z, i)
BY DEF Flushed

\* flushSlot() keeps the stream in order.
LEMMA FlushKeeps ==
    ASSUME NEW x, NEW i, Flushable(x, i)
    PROVE  LET z == FlushSlot(x, i) IN
           /\ TypedStream(z) /\ StreamOK(z) /\ Flushed(x, z, i)
<1> DEFINE z == FlushSlot(x, i)
<1>1. TypedStream(x) /\ i \in DOMAIN x.slots /\ ~x.bad /\ x.slots[i].started
  BY DEF Flushable
<1>2. CASE ~Sends(x, i)
  <2>1. z = x
    BY <1>1, <1>2 DEF FlushSlot, Sends
  <2>2. SlotOK(x, i)
    BY <1>1, <1>2 DEF Flushable, SlotOK, Weak, Sends
  <2>3. StreamOK(x)
    BY <2>2 DEF Flushable, StreamOK
  <2>4. Flushed(x, x, i)
    BY DEF Flushed
  <2> HIDE DEF z
  <2>5. TypedStream(z) /\ StreamOK(z) /\ Flushed(x, z, i)
    BY <1>1, <2>1, <2>3, <2>4
  <2>6. QED
    BY <2>5 DEF z
<1>3. CASE Sends(x, i)
  <2> DEFINE y    == EmitStart(x, i)
             s    == y.slots[i]
             text == Upto(s)
  <2>1. Flushable(y, i) /\ Flushed(x, y, i) /\ s.emittedStart
    BY <1>3, StartSent
  <2>2. z = IF text = s.emitted THEN y
            ELSE IF ~IsPrefix(s.emitted, text) THEN [y EXCEPT !.bad = TRUE]
            ELSE [y EXCEPT !.slots[i].emitted = text,
                           !.response = AccAppend(@, i,
                             SubSeq(text, Len(s.emitted) + 1, Len(text)))]
    BY <1>1, <1>3 DEF FlushSlot, Sends, Upto
  <2> HIDE DEF y, z
  <2>3. Sends(y, i)
    BY <1>3, <2>1 DEF Sends, Flushed, VisibleSlots
  <2>4. CASE text = s.emitted
    <3>1. SlotOK(y, i)
      BY <2>1, <2>4 DEF SlotOK, Flushable, Upto
    <3>2. StreamOK(y) /\ TypedStream(y)
      BY <2>1, <3>1 DEF StreamOK, Flushable
    <3>3. QED
      BY <2>1, <2>2, <2>4, <3>2 DEF z
  <2>5. CASE text # s.emitted /\ ~IsPrefix(s.emitted, text)
    <3>1. z = [slots |-> y.slots, aliases |-> y.aliases, response |-> y.response,
               emit |-> y.emit, bad |-> TRUE]
      BY <2>1, <2>2, <2>5 DEF Flushable, TypedStream
    <3>2. TypedStream(z)
      BY <2>1, <3>1 DEF Flushable, TypedStream
    <3>3. StreamOK(z)
      BY <2>1, <3>1 DEF Flushable, StreamOK
    <3>4. Flushed(x, z, i)
      BY <2>1, <3>1 DEF Flushed
    <3>5. QED
      BY <3>2, <3>3, <3>4 DEF z
  <2>6. CASE text # s.emitted /\ IsPrefix(s.emitted, text)
    <3>1. TypedStream(z) /\ StreamOK(z) /\ Flushed(y, z, i)
      BY <2>1, <2>2, <2>3, <2>6, PiecesSent DEF Behind
    <3>2. QED
      BY <1>1, <2>1, <3>1, FlushedTwice DEF z
  <2>7. QED
    BY <2>4, <2>5, <2>6
<1>4. QED
  BY <1>2, <1>3

-----------------------------------------------------------------------------
(* Growth                                                                  *)

\* What no frame takes back.
Grows(x, y) ==
    /\ y.emit = x.emit
    /\ \A a \in DOMAIN x.aliases : a \in DOMAIN y.aliases /\ y.aliases[a] = x.aliases[a]
    /\ \A j \in DOMAIN x.slots :
         /\ j \in DOMAIN y.slots
         /\ Completed(x.slots[j]) => y.slots[j].call = x.slots[j].call
         /\ x.slots[j].exec # <<>> => y.slots[j].exec = x.slots[j].exec
    /\ x.emit = FALSE => y.response = x.response

\* Growth is a preorder, and a flush is growth.
LEMMA GrowsBy ==
    /\ \A x : Grows(x, x)
    /\ \A x, y, z : Grows(x, y) /\ Grows(y, z) => Grows(x, z)
    /\ \A x, y, i : i \in DOMAIN x.slots /\ Flushed(x, y, i) => Grows(x, y)
<1>1. ASSUME NEW x PROVE Grows(x, x)
  BY DEF Grows
<1>2. ASSUME NEW x, NEW y, NEW z, Grows(x, y), Grows(y, z) PROVE Grows(x, z)
  <2>1. ASSUME NEW j \in DOMAIN x.slots
        PROVE  /\ j \in DOMAIN z.slots
               /\ Completed(x.slots[j]) => z.slots[j].call = x.slots[j].call
               /\ x.slots[j].exec # <<>> => z.slots[j].exec = x.slots[j].exec
    <3>1. j \in DOMAIN y.slots
      BY <1>2 DEF Grows
    <3>2. Completed(x.slots[j]) => Completed(y.slots[j])
      BY <1>2 DEF Grows, Completed
    <3>3. QED
      BY <3>1, <3>2, <1>2 DEF Grows
  <2>2. QED
    BY <2>1, <1>2 DEF Grows
<1>3. ASSUME NEW x, NEW y, NEW i, i \in DOMAIN x.slots, Flushed(x, y, i) PROVE Grows(x, y)
  BY <1>3 DEF Grows, Flushed
<1>4. QED
  BY <1>1, <1>2, <1>3

\* An exec that was taken for another call stays so.
LEMMA CrossedStays ==
    ASSUME NEW x, NEW y, Grows(x, y), CrossedIn(x.aliases)
    PROVE  CrossedIn(y.aliases)
BY DEF Grows, CrossedIn

-----------------------------------------------------------------------------
(* Slots and aliases                                                       *)

\* A new slot is empty.
LEMMA NewSlotIs ==
    /\ NewSlot \in ToolSlot /\ ~NewSlot.started /\ ~NewSlot.emittedStart
    /\ NewSlot.emitted = NoText /\ ~Completed(NewSlot) /\ NewSlot.exec = <<>>
    /\ NewSlot.call = NoText
BY EmptySeq DEF NewSlot, ToolSlot, NoText, Completed

\* slot() finds the slot its ids name, or makes the next one.
LEMMA SlotForIs ==
    ASSUME NEW x, TypedStream(x), NEW ids, ~Clash(x, ids)
    PROVE  LET i == SlotFor(x, ids) IN
           /\ i \in DOMAIN x.slots \/ i = Len(x.slots) + 1
           /\ \A a \in ids \cap DOMAIN x.aliases : x.aliases[a] = i
<1> DEFINE known == {Named(x, a) : a \in ids} \ {0}
           i     == SlotFor(x, ids)
<1>1. \A a \in ids \cap DOMAIN x.aliases : x.aliases[a] = Named(x, a)
  BY DEF Named
<1>2. DOMAIN x.slots = 1..Len(x.slots) /\ Len(x.slots) \in Nat
  BY DEF TypedStream
<1>3. \A a \in ids : Named(x, a) = 0 \/ Named(x, a) \in DOMAIN x.slots
  BY DEF Named, TypedStream
<1>4. \A a \in ids \cap DOMAIN x.aliases : Named(x, a) # 0
  BY <1>1, <1>2 DEF TypedStream
<1>5. CASE known = {}
  <2>1. i = Len(x.slots) + 1
    BY <1>5 DEF SlotFor
  <2>2. \A a \in ids \cap DOMAIN x.aliases : FALSE
    BY <1>4, <1>5
  <2>3. QED
    BY <2>1, <2>2
<1>6. CASE known # {}
  <2>1. i = CHOOSE j \in known : TRUE
    BY <1>6 DEF SlotFor
  <2>2. i \in known
    BY <1>6, <2>1
  <2> HIDE DEF i
  <2>3. PICK a \in ids : Named(x, a) = i /\ i # 0
    BY <2>2
  <2>4. \A b \in ids : Named(x, b) # 0 => Named(x, b) = i
    BY <2>3 DEF Clash
  <2>5. i \in DOMAIN x.slots
    BY <2>3, <1>3
  <2>6. \A b \in ids \cap DOMAIN x.aliases : x.aliases[b] = i
    BY <2>4, <1>1, <1>4
  <2>7. QED
    BY <2>5, <2>6 DEF i
<1>7. QED
  BY <1>5, <1>6

\* slot() binds its ids to its slot, and leaves every other slot and alias.
LEMMA WithSlotIs ==
    ASSUME NEW x, TypedStream(x), NEW ids, ids \subseteq Ids, ~Clash(x, ids)
    PROVE  LET w == WithSlot(x, ids)
               i == SlotFor(x, ids) IN
           /\ TypedStream(w) /\ i \in DOMAIN w.slots
           /\ \A j \in DOMAIN x.slots : j \in DOMAIN w.slots /\ w.slots[j] = x.slots[j]
           /\ \A j \in DOMAIN w.slots \ DOMAIN x.slots : j = i /\ w.slots[j] = NewSlot
           /\ \A a \in DOMAIN x.aliases : a \in DOMAIN w.aliases /\ w.aliases[a] = x.aliases[a]
           /\ \A a \in ids : a \in DOMAIN w.aliases /\ w.aliases[a] = i
           /\ w.response = x.response /\ w.emit = x.emit /\ w.bad = x.bad
<1> DEFINE w == WithSlot(x, ids)
           i == SlotFor(x, ids)
           t == IF i > Len(x.slots) THEN Append(x.slots, NewSlot) ELSE x.slots
           f == Bound(x, ids, i)
<1>1. w = [slots |-> t, aliases |-> f, response |-> x.response, emit |-> x.emit, bad |-> x.bad]
  BY DEF WithSlot, TypedStream
<1>2. /\ i \in DOMAIN x.slots \/ i = Len(x.slots) + 1
      /\ \A a \in ids \cap DOMAIN x.aliases : x.aliases[a] = i
  BY SlotForIs
<1>3. DOMAIN x.slots = 1..Len(x.slots) /\ Len(x.slots) \in Nat /\ x.slots \in Seq(ToolSlot)
  BY DEF TypedStream
<1> HIDE DEF i, w
<1>4. /\ t \in Seq(ToolSlot) /\ DOMAIN t = 1..Len(t) /\ Len(t) \in Nat /\ Len(x.slots) <= Len(t)
      /\ i \in 1..Len(t)
      /\ \A j \in DOMAIN x.slots : j \in DOMAIN t /\ t[j] = x.slots[j]
      /\ \A j \in DOMAIN t \ DOMAIN x.slots : j = i /\ t[j] = NewSlot
  <2>1. CASE i \in DOMAIN x.slots
    <3>1. t = x.slots
      BY <1>3, <2>1
    <3>2. QED
      BY <1>3, <2>1, <3>1
  <2>2. CASE i = Len(x.slots) + 1
    <3>1. t = Append(x.slots, NewSlot)
      BY <1>3, <2>2
    <3>2. /\ t \in Seq(ToolSlot) /\ Len(t) = Len(x.slots) + 1
          /\ \A j \in 1..Len(x.slots) : t[j] = x.slots[j]
          /\ t[Len(x.slots) + 1] = NewSlot
      BY <1>3, <3>1, NewSlotIs, AppendProperties
    <3> HIDE DEF t
    <3>3. DOMAIN t = 1..Len(t) /\ Len(t) \in Nat
      BY <3>2
    <3>4. QED
      BY <1>3, <2>2, <3>2, <3>3
  <2>3. QED
    BY <1>2, <2>1, <2>2
<1> HIDE DEF t
<1>5. /\ DOMAIN f = DOMAIN x.aliases \cup ids /\ DOMAIN f \subseteq Ids
      /\ \A a \in DOMAIN f : f[a] \in 1..Len(t)
      /\ \A a \in ids : f[a] = i
      /\ \A a \in DOMAIN x.aliases : f[a] = x.aliases[a]
  <2>1. /\ DOMAIN f = DOMAIN x.aliases \cup ids
        /\ \A a \in ids : f[a] = i
        /\ \A a \in DOMAIN x.aliases : f[a] = x.aliases[a]
    BY <1>2 DEF Bound
  <2> HIDE DEF f
  <2>2. DOMAIN x.aliases \subseteq Ids /\ \A a \in DOMAIN x.aliases : x.aliases[a] \in 1..Len(t)
    BY <1>3, <1>4 DEF TypedStream
  <2>3. QED
    BY <1>4, <2>1, <2>2
<1> HIDE DEF f
<1>6. w.slots = t /\ w.aliases = f /\ w.response = x.response /\ w.emit = x.emit /\ w.bad = x.bad
  BY <1>1
<1>7. TypedStream(w)
  BY <1>1, <1>4, <1>5, <1>6 DEF TypedStream
<1>8. i \in DOMAIN w.slots
  BY <1>4, <1>6
<1>9. /\ \A j \in DOMAIN x.slots : j \in DOMAIN w.slots /\ w.slots[j] = x.slots[j]
      /\ \A j \in DOMAIN w.slots \ DOMAIN x.slots : j = i /\ w.slots[j] = NewSlot
  BY <1>4, <1>6
<1>10. /\ \A a \in DOMAIN x.aliases : a \in DOMAIN w.aliases /\ w.aliases[a] = x.aliases[a]
       /\ \A a \in ids : a \in DOMAIN w.aliases /\ w.aliases[a] = i
  BY <1>5, <1>6
<1>11. QED
  BY <1>6, <1>7, <1>8, <1>9, <1>10 DEF w, i

-----------------------------------------------------------------------------
(* A frame speaks of slot i                                                *)

\* A stream in order, but for a slot i that may be new.
Ready(x, i) ==
    /\ TypedStream(x) /\ ~x.bad /\ i \in DOMAIN x.slots
    /\ DOMAIN x.response.client = DOMAIN x.response.calls
    /\ x.response.broken => CrossedIn(x.aliases) /\ ~x.emit
    /\ x.emit => \A j \in DOMAIN x.response.calls : CallOK(x, j)
    /\ \A j \in DOMAIN x.slots \ {i} : SlotOK(x, j)
    /\ Weak(x, i)
    /\ Completed(x.slots[i]) => SlotOK(x, i)
    /\ i \in told => Completed(x.slots[i])

\* A frame fails.
LEMMA BadIs ==
    ASSUME NEW x, TypedStream(x)
    PROVE  LET w == [x EXCEPT !.bad = TRUE] IN
           /\ TypedStream(w) /\ w.slots = x.slots /\ w.aliases = x.aliases
           /\ w.response = x.response /\ w.emit = x.emit /\ w.bad
<1> DEFINE w == [x EXCEPT !.bad = TRUE]
<1>1. w = [slots |-> x.slots, aliases |-> x.aliases, response |-> x.response,
           emit |-> x.emit, bad |-> TRUE]
  <2> DEFINE b == TRUE
  <2>1. b \in BOOLEAN
    OBVIOUS
  <2> HIDE DEF b
  <2>2. [x EXCEPT !.bad = b]
        = [slots |-> x.slots, aliases |-> x.aliases, response |-> x.response,
           emit |-> x.emit, bad |-> b]
    BY <2>1 DEF TypedStream
  <2>3. QED
    BY <2>2 DEF b
<1> HIDE DEF w
<1>2. /\ w.slots = x.slots /\ w.aliases = x.aliases
      /\ w.response = x.response /\ w.emit = x.emit /\ w.bad = TRUE
  BY <1>1
<1>3. TypedStream(w)
  BY <1>1, <1>2 DEF TypedStream
<1>4. QED
  BY <1>2, <1>3 DEF w

\* After slot(), the stream is in order but for a slot that may be new.
LEMMA WithSlotReady ==
    ASSUME NEW x, TypedStream(x), StreamOK(x), ~x.bad,
           \A j \in told : j \in DOMAIN x.slots /\ Completed(x.slots[j]),
           NEW ids, ids \subseteq Ids, ~Clash(x, ids)
    PROVE  LET w == WithSlot(x, ids) IN
           Ready(w, SlotFor(x, ids)) /\ Grows(x, w)
<1> DEFINE w == WithSlot(x, ids)
           i == SlotFor(x, ids)
<1>1. /\ TypedStream(w) /\ i \in DOMAIN w.slots
      /\ \A j \in DOMAIN x.slots : j \in DOMAIN w.slots /\ w.slots[j] = x.slots[j]
      /\ \A j \in DOMAIN w.slots \ DOMAIN x.slots : j = i /\ w.slots[j] = NewSlot
      /\ \A a \in DOMAIN x.aliases : a \in DOMAIN w.aliases /\ w.aliases[a] = x.aliases[a]
      /\ \A a \in ids : a \in DOMAIN w.aliases /\ w.aliases[a] = i
      /\ w.response = x.response /\ w.emit = x.emit /\ w.bad = x.bad
  BY WithSlotIs
<1> HIDE DEF w, i
<1>2. Grows(x, w)
  BY <1>1 DEF Grows
<1>3. CrossedIn(x.aliases) => CrossedIn(w.aliases)
  BY <1>2, CrossedStays
<1>4. ASSUME NEW j \in DOMAIN x.slots PROVE SlotOK(w, j)
  <2>1. SlotOK(x, j) /\ w.slots[j] = x.slots[j]
    BY <1>1 DEF StreamOK
  <2>2. j \in VisibleSlots(x) => j \in VisibleSlots(w)
    BY <1>1 DEF VisibleSlots
  <2>3. w.response = x.response /\ w.emit = x.emit
    BY <1>1
  <2>4. QED
    BY <2>1, <2>2, <2>3 DEF SlotOK, Weak
<1>5. ASSUME NEW j \in DOMAIN w.slots, j \notin DOMAIN x.slots
      PROVE  j = i /\ Weak(w, j) /\ ~Completed(w.slots[j])
  <2>1. j = i /\ w.slots[j] = NewSlot
    BY <1>1, <1>5
  <2>2. QED
    BY <2>1, NewSlotIs DEF Weak
<1>6. ASSUME w.emit, NEW j \in DOMAIN w.response.calls PROVE CallOK(w, j)
  <2>1. CallOK(x, j)
    BY <1>1, <1>6 DEF StreamOK
  <2>2. j \in DOMAIN x.slots /\ j \in DOMAIN w.slots /\ w.slots[j] = x.slots[j]
    BY <1>1, <2>1 DEF CallOK
  <2>3. w.response = x.response
    BY <1>1
  <2>4. QED
    BY <1>3, <2>1, <2>2, <2>3 DEF CallOK
<1>7. Weak(w, i) /\ (Completed(w.slots[i]) => SlotOK(w, i))
  BY <1>1, <1>4, <1>5 DEF SlotOK
<1>8. i \in told => Completed(w.slots[i])
  BY <1>1
<1>9. \A j \in DOMAIN w.slots \ {i} : SlotOK(w, j)
  BY <1>4, <1>5
<1>10. w.response.broken => CrossedIn(w.aliases) /\ ~w.emit
  BY <1>1, <1>3 DEF StreamOK
<1>11. DOMAIN w.response.client = DOMAIN w.response.calls
  BY <1>1 DEF StreamOK
<1>12. Ready(w, i)
  BY <1>1, <1>6, <1>7, <1>8, <1>9, <1>10, <1>11 DEF Ready
<1>13. QED
  BY <1>2, <1>12 DEF w, i

\* The slot hears its frame.
LEMMA HearsFrame ==
    ASSUME NEW x, NEW i, Ready(x, i), NEW v \in ToolSlot,
           v.started, v.emitted = x.slots[i].emitted,
           v.emittedStart = x.slots[i].emittedStart, v.exec = x.slots[i].exec,
           Completed(x.slots[i]) => v.call = x.slots[i].call,
           i \in told => CrossedIn(x.aliases)
    PROVE  /\ Flushable(PutSlot(x, i, v), i) /\ Grows(x, PutSlot(x, i, v))
           /\ PutSlot(x, i, v).slots[i] = v
           /\ DOMAIN PutSlot(x, i, v).slots = DOMAIN x.slots
           /\ \A j \in DOMAIN x.slots \ {i} : PutSlot(x, i, v).slots[j] = x.slots[j]
           /\ PutSlot(x, i, v).aliases = x.aliases
<1> DEFINE w == PutSlot(x, i, v)
<1>1. TypedStream(x) /\ i \in DOMAIN x.slots
  BY DEF Ready
<1>2. /\ TypedStream(w) /\ DOMAIN w.slots = DOMAIN x.slots /\ w.slots[i] = v
      /\ \A j \in DOMAIN x.slots \ {i} : w.slots[j] = x.slots[j]
      /\ w.aliases = x.aliases /\ w.response = x.response
      /\ w.emit = x.emit /\ w.bad = x.bad
  BY <1>1, SlotPut
<1> HIDE DEF w
<1>3. VisibleSlots(w) = VisibleSlots(x)
  BY <1>2 DEF VisibleSlots
<1>4. Grows(x, w)
  BY <1>1, <1>2 DEF Grows
<1>5. Weak(w, i)
  <2>1. Weak(x, i)
    BY DEF Ready
  <2>2. Completed(x.slots[i]) => Completed(v)
    BY DEF Completed
  <2>3. w.slots[i] = v /\ w.emit = x.emit /\ w.response = x.response
    BY <1>2
  <2>4. QED
    BY <1>3, <2>1, <2>2, <2>3 DEF Weak
<1>6. ASSUME NEW j \in DOMAIN w.slots \ {i} PROVE SlotOK(w, j)
  <2>1. SlotOK(x, j) /\ w.slots[j] = x.slots[j]
    BY <1>2 DEF Ready
  <2>2. w.emit = x.emit /\ w.response = x.response
    BY <1>2
  <2>3. QED
    BY <1>3, <2>1, <2>2 DEF SlotOK, Weak
<1>7. ASSUME w.emit, NEW j \in DOMAIN w.response.calls PROVE CallOK(w, j)
  <2>1. CallOK(x, j)
    BY <1>2, <1>7 DEF Ready
  <2>2. /\ j \in DOMAIN w.slots /\ w.slots[j].emittedStart = x.slots[j].emittedStart
        /\ w.slots[j].emitted = x.slots[j].emitted
    BY <1>2, <2>1 DEF CallOK
  <2>3. w.response = x.response /\ w.aliases = x.aliases
    BY <1>2
  <2>4. QED
    BY <2>1, <2>2, <2>3 DEF CallOK
<1>8. w.response.broken => CrossedIn(w.aliases) /\ ~w.emit
  BY <1>2 DEF Ready
<1>9. DOMAIN w.response.client = DOMAIN w.response.calls /\ ~w.bad
  BY <1>2 DEF Ready
<1>10. w.slots[i].started /\ (i \in told => CrossedIn(w.aliases))
  BY <1>2
<1>11. Flushable(w, i)
  BY <1>1, <1>2, <1>5, <1>6, <1>7, <1>8, <1>9, <1>10 DEF Flushable
<1>12. QED
  BY <1>2, <1>4, <1>11 DEF w

\* What the completion of slot i leaves alone.
Keeps(x, y, i) ==
    /\ DOMAIN y.slots = DOMAIN x.slots /\ y.aliases = x.aliases
    /\ y.slots[i].exec = x.slots[i].exec
    /\ \A j \in DOMAIN x.slots \ {i} :
         y.slots[j].call = x.slots[j].call /\ y.slots[j].exec = x.slots[j].exec

\* completeSlot()
LEMMA CompleteKeeps ==
    ASSUME NEW x, NEW i, Ready(x, i), NEW text \in ArgTexts, text # NoText
    PROVE  LET z == CompleteSlot(x, i, text) IN
           /\ TypedStream(z) /\ StreamOK(z) /\ Grows(x, z) /\ Keeps(x, z, i)
           /\ ~z.bad => Completed(z.slots[i]) /\ z.slots[i].call[2] = text[2]
<1> DEFINE z == CompleteSlot(x, i, text)
           s == x.slots[i]
<1>1. TypedStream(x) /\ i \in DOMAIN x.slots /\ x.bad = FALSE
  BY DEF Ready, TypedStream
<1>2. s \in ToolSlot /\ s.arguments \in ArgTexts
  BY <1>1, SlotFields
<1>3. Keeps(x, x, i) /\ Grows(x, x)
  BY GrowsBy DEF Keeps
<1>4. ASSUME z = [x EXCEPT !.bad = TRUE]
      PROVE  TypedStream(z) /\ StreamOK(z) /\ Grows(x, z) /\ Keeps(x, z, i) /\ z.bad
  <2> HIDE DEF z
  <2>1. /\ TypedStream(z) /\ z.slots = x.slots /\ z.aliases = x.aliases
        /\ z.response = x.response /\ z.emit = x.emit /\ z.bad
    BY <1>1, <1>4, BadIs
  <2>2. StreamOK(z)
    BY <2>1 DEF StreamOK, Ready
  <2>3. QED
    BY <2>1, <2>2 DEF Grows, Keeps
<1>5. CASE Completed(s)
  <2>1. z = [x EXCEPT !.bad = s.call # text]
    BY <1>1, <1>5 DEF CompleteSlot
  <2>2. CASE s.call # text
    <3>1. z = [x EXCEPT !.bad = TRUE]
      BY <2>1, <2>2
    <3>2. QED
      BY <1>4, <3>1
  <2>3. CASE s.call = text
    <3>1. z = x
      BY <1>1, <2>1, <2>3 DEF TypedStream
    <3>2. StreamOK(x)
      BY <1>5 DEF StreamOK, Ready
    <3>3. QED
      BY <1>1, <1>3, <1>5, <2>3, <3>1, <3>2
  <2>4. QED
    BY <2>2, <2>3
<1>6. CASE ~Completed(s) /\ s.arguments # NoText /\ ~IsPrefix(s.arguments, text)
           /\ ~SameArguments(s.arguments, text)
  <2>1. z = [x EXCEPT !.bad = TRUE]
    BY <1>1, <1>6 DEF CompleteSlot
  <2>2. QED
    BY <1>4, <2>1
<1>7. CASE ~Completed(s) /\ ~(s.arguments # NoText /\ ~IsPrefix(s.arguments, text)
                              /\ ~SameArguments(s.arguments, text))
  <2> DEFINE call == Agreed(s, text)
             args == IF s.arguments = NoText THEN text ELSE s.arguments
             v == [s EXCEPT !.started = TRUE, !.call = call, !.arguments = args]
             w == PutSlot(x, i, v)
  <2>1. z = FlushSlot(w, i)
    BY <1>1, <1>7 DEF CompleteSlot, PutSlot
  <2>2. call \in ArgTexts /\ call # NoText /\ call[2] = text[2] /\ args \in ArgTexts
    BY <1>2 DEF Agreed, SameArguments
  <2> HIDE DEF call, args
  <2>3. /\ v \in ToolSlot /\ v.started /\ v.call = call
        /\ v.emitted = s.emitted /\ v.emittedStart = s.emittedStart /\ v.exec = s.exec
    BY <1>2, <2>2 DEF ToolSlot, ArgTexts
  <2> HIDE DEF v, z
  <2>4. i \notin told
    BY <1>7 DEF Ready
  <2>5. /\ Flushable(w, i) /\ Grows(x, w) /\ w.slots[i] = v
        /\ DOMAIN w.slots = DOMAIN x.slots
        /\ \A j \in DOMAIN x.slots \ {i} : w.slots[j] = x.slots[j]
        /\ w.aliases = x.aliases
    BY <1>7, <2>3, <2>4, HearsFrame
  <2> HIDE DEF w
  <2>6. TypedStream(z) /\ StreamOK(z) /\ Flushed(w, z, i)
    BY <2>1, <2>5, FlushKeeps
  <2>7. Grows(x, z)
    BY <1>1, <2>5, <2>6, GrowsBy
  <2>8. Keeps(x, z, i)
    BY <1>1, <2>3, <2>5, <2>6 DEF Keeps, Flushed
  <2>9. z.slots[i].call = call
    BY <2>3, <2>5, <2>6 DEF Flushed
  <2>10. Completed(z.slots[i]) /\ z.slots[i].call[2] = text[2]
    BY <2>2, <2>9 DEF Completed
  <2>11. QED
    BY <2>6, <2>7, <2>8, <2>10 DEF z
<1>8. QED
  BY <1>5, <1>6, <1>7

\* The id names slot i from now on.
Aliased(x, id, i) == [x EXCEPT !.aliases = Bound(x, {id}, i)]

\* An exec is bound to the slot it names or was found to fit.
LEMMA AliasReady ==
    ASSUME NEW x, TypedStream(x), StreamOK(x), ~x.bad,
           \A j \in told : j \in DOMAIN x.slots /\ Completed(x.slots[j]),
           NEW id \in Ids, NEW i \in DOMAIN x.slots,
           id \in DOMAIN x.aliases => x.aliases[id] = i
    PROVE  LET w == Aliased(x, id, i) IN
           /\ Ready(w, i) /\ Grows(x, w) /\ w.slots = x.slots
           /\ id \in DOMAIN w.aliases /\ w.aliases[id] = i
<1> DEFINE f == Bound(x, {id}, i)
           w == Aliased(x, id, i)
<1>1. /\ DOMAIN f = DOMAIN x.aliases \cup {id} /\ f[id] = i
      /\ \A a \in DOMAIN x.aliases : f[a] = x.aliases[a]
  BY DEF Bound
<1>2. w = [slots |-> x.slots, aliases |-> f, response |-> x.response,
           emit |-> x.emit, bad |-> x.bad]
  BY DEF TypedStream, Aliased
<1> HIDE DEF f, w
<1>3. /\ w.slots = x.slots /\ w.aliases = f /\ w.response = x.response
      /\ w.emit = x.emit /\ w.bad = x.bad
  BY <1>2
<1>4. TypedStream(w)
  <2>1. DOMAIN f \subseteq Ids /\ \A a \in DOMAIN f : f[a] \in DOMAIN x.slots
    BY <1>1 DEF TypedStream
  <2>2. QED
    BY <2>1, <1>2, <1>3 DEF TypedStream
<1>5. Grows(x, w)
  BY <1>1, <1>3 DEF Grows
<1>6. CrossedIn(x.aliases) => CrossedIn(w.aliases)
  BY <1>5, CrossedStays
<1>7. VisibleSlots(w) = VisibleSlots(x)
  BY <1>3 DEF VisibleSlots
<1>8. ASSUME NEW j \in DOMAIN w.slots PROVE SlotOK(w, j)
  <2>1. SlotOK(x, j)
    BY <1>3 DEF StreamOK
  <2>2. w.slots = x.slots /\ w.response = x.response /\ w.emit = x.emit
    BY <1>3
  <2>3. QED
    BY <1>7, <2>1, <2>2 DEF SlotOK, Weak
<1>9. ASSUME w.emit, NEW j \in DOMAIN w.response.calls PROVE CallOK(w, j)
  <2>1. CallOK(x, j)
    BY <1>3, <1>9 DEF StreamOK
  <2>2. w.slots = x.slots /\ w.response = x.response
    BY <1>3
  <2>3. QED
    BY <1>6, <2>1, <2>2 DEF CallOK
<1>10. w.response.broken => CrossedIn(w.aliases) /\ ~w.emit
  BY <1>3, <1>6 DEF StreamOK
<1>11. DOMAIN w.response.client = DOMAIN w.response.calls /\ ~w.bad
  BY <1>3 DEF StreamOK
<1>12. i \in DOMAIN w.slots /\ (i \in told => Completed(w.slots[i]))
  BY <1>3
<1>13. Weak(w, i) /\ SlotOK(w, i)
  BY <1>8, <1>12 DEF SlotOK
<1>14. Ready(w, i)
  BY <1>4, <1>8, <1>9, <1>10, <1>11, <1>12, <1>13 DEF Ready
<1>15. QED
  BY <1>1, <1>3, <1>5, <1>14 DEF w, f

\* The slot remembers the exec that waits for its result.
LEMMA ExecReady ==
    ASSUME NEW x, NEW i, Ready(x, i), NEW id \in Ids
    PROVE  LET w == [x EXCEPT !.slots[i].exec = ExecOf(x.slots[i], id)] IN
           /\ Ready(w, i) /\ Grows(x, w) /\ w.aliases = x.aliases
           /\ DOMAIN w.slots = DOMAIN x.slots
           /\ \A j \in DOMAIN x.slots \ {i} : w.slots[j] = x.slots[j]
           /\ w.slots[i].exec = ExecOf(x.slots[i], id)
           /\ w.slots[i].call = x.slots[i].call
<1> DEFINE e == ExecOf(x.slots[i], id)
           v == [x.slots[i] EXCEPT !.exec = e]
           w == [x EXCEPT !.slots[i].exec = e]
<1>1. TypedStream(x) /\ i \in DOMAIN x.slots /\ x.slots[i] \in ToolSlot
  BY SlotFields DEF Ready
<1>2. e \in Ids \cup {<<>>}
  BY <1>1 DEF ExecOf, ToolSlot
<1>3. w = PutSlot(x, i, v)
  BY <1>1 DEF PutSlot, TypedStream
<1> HIDE DEF e, w
<1>4. /\ v \in ToolSlot /\ v.started = x.slots[i].started /\ v.call = x.slots[i].call
      /\ v.emitted = x.slots[i].emitted /\ v.emittedStart = x.slots[i].emittedStart
      /\ v.exec = e
  BY <1>1, <1>2 DEF ToolSlot
<1> HIDE DEF v
<1>5. /\ TypedStream(w) /\ DOMAIN w.slots = DOMAIN x.slots /\ w.slots[i] = v
      /\ \A j \in DOMAIN x.slots \ {i} : w.slots[j] = x.slots[j]
      /\ w.aliases = x.aliases /\ w.response = x.response
      /\ w.emit = x.emit /\ w.bad = x.bad
  BY <1>1, <1>3, <1>4, SlotPut
<1>6. VisibleSlots(w) = VisibleSlots(x)
  BY <1>5 DEF VisibleSlots
<1>7. x.slots[i].exec # <<>> => e = x.slots[i].exec
  BY DEF ExecOf, e
<1>8. Grows(x, w)
  BY <1>1, <1>4, <1>5, <1>7 DEF Grows
<1>9. Weak(w, i) /\ (Completed(w.slots[i]) => SlotOK(w, i))
  <2>1. Weak(x, i) /\ (Completed(x.slots[i]) => SlotOK(x, i))
    BY DEF Ready
  <2>2. w.emit = x.emit /\ w.response = x.response /\ w.slots[i] = v
    BY <1>5
  <2>3. QED
    BY <1>4, <1>6, <2>1, <2>2 DEF Weak, SlotOK, Completed
<1>10. ASSUME NEW j \in DOMAIN w.slots \ {i} PROVE SlotOK(w, j)
  <2>1. SlotOK(x, j) /\ w.slots[j] = x.slots[j]
    BY <1>5 DEF Ready
  <2>2. w.emit = x.emit /\ w.response = x.response
    BY <1>5
  <2>3. QED
    BY <1>6, <2>1, <2>2 DEF SlotOK, Weak
<1>11. ASSUME w.emit, NEW j \in DOMAIN w.response.calls PROVE CallOK(w, j)
  <2>1. CallOK(x, j)
    BY <1>5, <1>11 DEF Ready
  <2>2. /\ j \in DOMAIN w.slots /\ w.slots[j].emittedStart = x.slots[j].emittedStart
        /\ w.slots[j].emitted = x.slots[j].emitted
    BY <1>4, <1>5, <2>1 DEF CallOK
  <2>3. w.response = x.response /\ w.aliases = x.aliases
    BY <1>5
  <2>4. QED
    BY <2>1, <2>2, <2>3 DEF CallOK
<1>12. w.response.broken => CrossedIn(w.aliases) /\ ~w.emit
  BY <1>5 DEF Ready
<1>13. DOMAIN w.response.client = DOMAIN w.response.calls /\ ~w.bad
  BY <1>5 DEF Ready
<1>14. i \in DOMAIN w.slots /\ (i \in told => Completed(w.slots[i]))
  BY <1>1, <1>4, <1>5 DEF Ready, Completed
<1>15. Ready(w, i)
  BY <1>5, <1>9, <1>10, <1>11, <1>12, <1>13, <1>14 DEF Ready
<1>16. QED
  BY <1>4, <1>5, <1>8, <1>15 DEF w, e

-----------------------------------------------------------------------------
(* A frame and the invariant                                               *)

\* A frame says more of the calls the model makes.
SaysMore ==
    \A k \in UpstreamCalls :
        /\ made'[k].value = made[k].value
        /\ made[k].completed => made'[k].completed
        /\ made[k].exec # <<>> => made'[k].exec = made[k].exec

\* What the end of a frame keeps, whatever the frame was.
FrameInv ==
    /\ TypedStream(Stream)
    /\ tools.slots \in Seq(ToolSlot)
    /\ \A id \in DOMAIN tools.aliases :
         id \in Ids /\ tools.aliases[id] \in DOMAIN tools.slots
    /\ told \subseteq DOMAIN tools.slots
    /\ stage \in {"running", "parked", "ended", "done", "failed"}
    /\ rounds \in 1..MaxResponses /\ frames \in 0..MaxFrames
    /\ ToldAreCompleted /\ ResultsAreRight
    /\ StreamNeverBreaks /\ ClientHasTheCalls
    /\ Live => StreamOK(Stream)

\* An id is not the absence of one, and names the call it was made for.
LEMMA IdIs ==
    ASSUME NEW id \in Ids
    PROVE  id # <<>> /\ id[2] \in UpstreamCalls
BY DEF Ids

\* The fields of the stream a frame finds.
LEMMA StreamIs ==
    /\ Stream.slots = tools.slots /\ Stream.aliases = tools.aliases
    /\ Stream.response = response /\ Stream.emit = (stage = "running")
    /\ Stream.bad = FALSE
BY DEF Stream

\* The fields of the stream a frame leaves.
LEMMA StreamNextIs ==
    /\ Stream'.slots = tools'.slots /\ Stream'.aliases = tools'.aliases
    /\ Stream'.response = response' /\ Stream'.emit = (stage' = "running")
    /\ Stream'.bad = FALSE
BY DEF Stream

\* The end of a frame, whatever the frame was.
LEMMA FrameKeeps ==
    ASSUME ToolInv, FrameArrives, SaysMore, NEW x, Handled(x),
           TypedStream(x), StreamOK(x), Grows(Stream, x)
    PROVE  /\ FrameInv'
           /\ tools'.slots = x.slots /\ tools'.aliases = x.aliases
           /\ Live' <=> ~x.bad
<1>1. /\ tools' = [slots |-> x.slots, aliases |-> x.aliases]
      /\ response' = x.response
      /\ frames' = frames + 1
      /\ serial' = serial /\ resultOf' = resultOf /\ told' = told /\ rounds' = rounds
  BY DEF Handled
<1>2. tools'.slots = x.slots /\ tools'.aliases = x.aliases
  BY <1>1
<1>3. /\ stage \in {"running", "parked"}
      /\ ~x.bad => stage' = stage
      /\ x.bad => stage' \in {"ended", "failed"}
  BY DEF Handled, FrameArrives
<1>4. Live /\ (Live' <=> ~x.bad)
  BY <1>3 DEF Live
<1>5. Stream.emit = x.emit /\ (x.emit <=> stage = "running")
  BY StreamIs DEF Grows, TypedStream, Stream
<1>6. TypedStream(Stream)'
  <2>1. /\ Stream' = [slots |-> x.slots, aliases |-> x.aliases, response |-> x.response,
                      emit |-> (stage' = "running"), bad |-> FALSE]
    BY <1>1, <1>2 DEF Stream
  <2>2. QED
    BY <2>1 DEF TypedStream, IsResponse
<1>7. StreamOK(Stream)
  BY <1>4 DEF ToolInv
<1>8. Live' => StreamOK(Stream)'
  <2> SUFFICES ASSUME Live' PROVE StreamOK(Stream)'
    OBVIOUS
  <2>1. ~x.bad /\ stage' = stage
    BY <1>3, <1>4
  <2>2. /\ Stream'.slots = x.slots /\ Stream'.aliases = x.aliases
        /\ Stream'.response = x.response /\ Stream'.emit = x.emit /\ Stream'.bad = x.bad
    BY <1>1, <1>2, <1>5, <2>1, StreamIs, StreamNextIs DEF TypedStream
  <2>3. serial' = serial /\ told' = told
    BY <1>1
  <2>4. Stream' = x
    BY <1>1, <1>2, <1>5, <2>1 DEF Stream, TypedStream
  <2>5. ASSUME NEW j PROVE SlotOK(Stream, j)' <=> SlotOK(x, j)
    BY <2>3, <2>4 DEF SlotOK, Weak, VisibleSlots
  <2>6. ASSUME NEW j PROVE CallOK(Stream, j)' <=> CallOK(x, j)
    BY <2>3, <2>4 DEF CallOK
  <2>7. StreamOK(Stream)' <=> StreamOK(x)
    BY <2>4, <2>5, <2>6 DEF StreamOK
  <2>8. QED
    BY <2>7
<1>9. StreamNeverBreaks'
  <2>1. x.response.broken => CrossedIn(x.aliases)
    BY DEF StreamOK
  <2>2. QED
    BY <1>1, <1>2, <2>1 DEF StreamNeverBreaks, Crossed, CrossedIn
<1>10. ASSUME NEW j \in told
       PROVE  /\ j \in DOMAIN tools.slots /\ j \in DOMAIN x.slots
              /\ Completed(tools.slots[j]) /\ x.slots[j].call = tools.slots[j].call
  <2>1. j \in DOMAIN tools.slots /\ Completed(tools.slots[j])
    BY DEF ToolInv, ToolTypeOK, ToldAreCompleted
  <2>2. QED
    BY <2>1, StreamIs DEF Grows
<1>11. ToldAreCompleted' /\ told' \subseteq DOMAIN tools'.slots
  BY <1>1, <1>2, <1>10 DEF ToldAreCompleted, Completed
<1>12. ClientHasTheCalls'
  <2> SUFFICES ASSUME stage' = "parked"
               PROVE  /\ DOMAIN response'.client \subseteq told'
                      /\ \A j \in DOMAIN response'.client :
                           response'.client[j] = tools'.slots[j].call
    BY DEF ClientHasTheCalls
  <2>1. stage = "parked"
    BY <1>3
  <2>2. response' = response
    BY <1>1, <1>5, <2>1, StreamIs DEF Grows
  <2>3. /\ DOMAIN response.client \subseteq told
        /\ \A j \in DOMAIN response.client : response.client[j] = tools.slots[j].call
    BY <2>1 DEF ToolInv, ClientHasTheCalls
  <2>4. QED
    BY <1>1, <1>2, <1>10, <2>2, <2>3
<1>13. ResultsAreRight'
  <2> SUFFICES ASSUME NEW p \in resultOf
               PROVE  /\ p[1] \in Ids /\ made'[p[1][2]].exec = p[1]
                      /\ p[2] \in DOMAIN tools'.slots
                      /\ Completed(tools'.slots[p[2]])
                      /\ tools'.slots[p[2]].call[2] = made'[p[1][2]].value
    BY <1>1 DEF ResultsAreRight
  <2>1. /\ p[1] \in Ids /\ p[1][2] \in UpstreamCalls
        /\ made[p[1][2]].exec = p[1]
        /\ p[2] \in DOMAIN tools.slots
        /\ Completed(tools.slots[p[2]])
        /\ tools.slots[p[2]].call[2] = made[p[1][2]].value
    BY DEF ToolInv, ResultsAreRight, Ids
  <2>2. p[1] # <<>>
    BY <2>1 DEF Ids
  <2>3. made'[p[1][2]].exec = p[1] /\ made'[p[1][2]].value = made[p[1][2]].value
    BY <2>1, <2>2 DEF SaysMore
  <2>4. /\ p[2] \in DOMAIN x.slots /\ x.slots[p[2]].call = tools.slots[p[2]].call
    BY <2>1, StreamIs DEF Grows
  <2>5. QED
    BY <1>2, <2>1, <2>3, <2>4 DEF Completed
<1>14. rounds' \in 1..MaxResponses /\ frames' \in 0..MaxFrames
  BY <1>1, ToolStreamAssumption DEF ToolInv, ToolTypeOK, FrameArrives
<1>15. stage' \in {"running", "parked", "ended", "done", "failed"}
  BY <1>3
<1>16. /\ tools'.slots \in Seq(ToolSlot)
       /\ \A id \in DOMAIN tools'.aliases :
            id \in Ids /\ tools'.aliases[id] \in DOMAIN tools'.slots
  BY <1>2 DEF TypedStream
<1>17. FrameInv'
  BY <1>6, <1>8, <1>9, <1>11, <1>12, <1>13, <1>14, <1>15, <1>16 DEF FrameInv
<1>18. QED
  BY <1>2, <1>4, <1>17

\* What has finished a slot goes on to be what finished it.
LEMMA FinishStays ==
    ASSUME ToolInv, SaysMore, NEW x, Grows(Stream, x), tools'.aliases = x.aliases,
           NEW i \in DOMAIN tools.slots, NEW n \in UpstreamCalls, Finishes(n, i)
    PROVE  Finishes(n, i)'
<1>1. i # 0
  BY DEF ToolInv, ToolTypeOK
<1>2. ASSUME NEW id, Named(tools, id) = i PROVE Named(tools', id) = i
  <2>1. id \in DOMAIN tools.aliases /\ tools.aliases[id] = i
    BY <1>1, <1>2 DEF Named
  <2>2. id \in DOMAIN x.aliases /\ x.aliases[id] = i
    BY <2>1, StreamIs DEF Grows
  <2>3. QED
    BY <2>2 DEF Named
<1>3. CASE Named(tools, made[n].exec) = i
  <2>1. made[n].exec \in DOMAIN tools.aliases
    BY <1>1, <1>3 DEF Named
  <2>2. made[n].exec \in Ids
    BY <2>1 DEF ToolInv, ToolTypeOK
  <2>3. made[n].exec # <<>>
    BY <2>2, IdIs
  <2>4. made'[n].exec = made[n].exec
    BY <2>3 DEF SaysMore
  <2>5. Named(tools', made[n].exec) = i
    BY <1>2, <1>3
  <2>6. QED
    BY <2>4, <2>5 DEF Finishes
<1>4. CASE /\ made[n].completed
           /\ Named(tools, <<"envelope", n>>) = i /\ Named(tools, <<"tool", n>>) = i
  <2>1. made'[n].completed
    BY <1>4 DEF SaysMore
  <2>2. Named(tools', <<"envelope", n>>) = i /\ Named(tools', <<"tool", n>>) = i
    BY <1>2, <1>4
  <2>3. QED
    BY <2>1, <2>2 DEF Finishes
<1>5. QED
  BY <1>3, <1>4 DEF Finishes

\* A frame leaves every complete slot with a call that finished it.
LEMMA FinishedKeeps ==
    ASSUME ToolInv, SaysMore, NEW x, Grows(Stream, x),
           tools'.slots = x.slots, tools'.aliases = x.aliases,
           \A j \in DOMAIN x.slots : Completed(x.slots[j]) =>
               \/ j \in DOMAIN tools.slots /\ Completed(tools.slots[j])
               \/ \E n \in UpstreamCalls : Finishes(n, j)'
    PROVE  SlotsAreFinished'
<1> SUFFICES ASSUME NEW j \in DOMAIN x.slots, Completed(x.slots[j])
             PROVE  \E n \in UpstreamCalls : Finishes(n, j)'
  BY DEF SlotsAreFinished
<1>1. CASE j \in DOMAIN tools.slots /\ Completed(tools.slots[j])
  <2>1. PICK n \in UpstreamCalls : Finishes(n, j)
    BY <1>1 DEF ToolInv, SlotsAreFinished
  <2>2. Finishes(n, j)'
    BY <1>1, <2>1, FinishStays
  <2>3. QED
    BY <2>2
<1>2. QED
  BY <1>1

\* A frame that brings no exec.
LEMMA QuietKeeps ==
    ASSUME ToolInv, FrameArrives, SaysMore, MadeType', NEW x, Handled(x),
           TypedStream(x), StreamOK(x), Grows(Stream, x),
           heldCalls' = heldCalls,
           \A k \in UpstreamCalls : made'[k].exec = made[k].exec,
           \A j \in DOMAIN x.slots : x.slots[j].exec # <<>> =>
               j \in DOMAIN tools.slots /\ x.slots[j].exec = tools.slots[j].exec,
           \A j \in DOMAIN x.slots : Completed(x.slots[j]) =>
               \/ j \in DOMAIN tools.slots /\ Completed(tools.slots[j])
               \/ \E n \in UpstreamCalls : Finishes(n, j)'
    PROVE  ToolInv'
<1>1. FrameInv' /\ tools'.slots = x.slots /\ tools'.aliases = x.aliases
  BY FrameKeeps
<1>2. Live
  BY DEF Live, FrameArrives
<1>3. CallsMade' /\ HeldAreExecs' /\ heldCalls' \subseteq Ids
  <2>1. \A id \in heldCalls : id[2] \in UpstreamCalls
    BY DEF ToolInv, ToolTypeOK, Ids
  <2>2. QED
    BY <2>1 DEF ToolInv, ToolTypeOK, CallsMade, HeldAreExecs
<1>4. SlotsAreFinished'
  BY <1>1, FinishedKeeps
<1>5. ExecsOfSlots'
  <2> SUFFICES ASSUME NEW j \in DOMAIN x.slots, x.slots[j].exec # <<>>
               PROVE  LET s == x.slots[j] IN
                      /\ s.exec \in Ids
                      /\ made'[s.exec[2]].exec = s.exec
                      /\ Completed(s) /\ s.call[2] = made'[s.exec[2]].value
    BY <1>1 DEF ExecsOfSlots
  <2>1. /\ j \in DOMAIN tools.slots /\ x.slots[j].exec = tools.slots[j].exec
    OBVIOUS
  <2>2. LET s == tools.slots[j] IN
        /\ s.exec \in Ids
        /\ made[s.exec[2]].exec = s.exec
        /\ Completed(s) /\ s.call[2] = made[s.exec[2]].value
    BY <1>2, <2>1 DEF ToolInv, ExecsOfSlots
  <2>3. x.slots[j].call = tools.slots[j].call
    BY <2>1, <2>2, StreamIs DEF Grows
  <2>4. x.slots[j].exec[2] \in UpstreamCalls
    BY <2>1, <2>2 DEF Ids
  <2>5. QED
    BY <2>1, <2>2, <2>3, <2>4 DEF SaysMore, Completed
<1>6. ExecsHaveASlot'
  <2> SUFFICES ASSUME NEW k \in UpstreamCalls, made'[k].exec \in heldCalls
               PROVE  \/ \E i \in DOMAIN x.slots : x.slots[i].exec = made'[k].exec
                      \/ \E j \in UpstreamCalls \ {k} : made'[j].value = made'[k].value
    BY <1>1 DEF ExecsHaveASlot
  <2>1. made[k].exec \in heldCalls /\ made'[k].exec = made[k].exec
    OBVIOUS
  <2>2. made[k].exec # <<>>
    <3>1. made[k].exec \in Ids
      BY <2>1 DEF ToolInv, ToolTypeOK
    <3>2. QED
      BY <3>1, IdIs
  <2>3. \/ \E i \in DOMAIN tools.slots : tools.slots[i].exec = made[k].exec
        \/ \E j \in UpstreamCalls \ {k} : made[j].value = made[k].value
    BY <1>2, <2>1 DEF ToolInv, ExecsHaveASlot, Live
  <2>4. CASE \E i \in DOMAIN tools.slots : tools.slots[i].exec = made[k].exec
    BY <2>1, <2>2, <2>4, StreamIs DEF Grows
  <2>5. CASE \E j \in UpstreamCalls \ {k} : made[j].value = made[k].value
    BY <2>5 DEF SaysMore
  <2>6. QED
    BY <2>3, <2>4, <2>5
<1>7. QED
  BY <1>1, <1>3, <1>4, <1>5, <1>6 DEF ToolInv, FrameInv, ToolTypeOK

-----------------------------------------------------------------------------
(* The frames                                                              *)

\* The state of the stream when a frame arrives.
LEMMA Arrived ==
    ASSUME ToolInv, FrameArrives
    PROVE  /\ TypedStream(Stream) /\ StreamOK(Stream) /\ ~Stream.bad
           /\ Grows(Stream, Stream)
           /\ \A j \in told : j \in DOMAIN Stream.slots /\ Completed(Stream.slots[j])
<1>1. Live
  BY DEF FrameArrives, Live
<1>2. \A j \in told : j \in DOMAIN tools.slots /\ Completed(tools.slots[j])
  BY DEF ToolInv, ToolTypeOK, ToldAreCompleted
<1>3. TypedStream(Stream) /\ StreamOK(Stream)
  BY <1>1 DEF ToolInv
<1>4. QED
  BY <1>2, <1>3, StreamIs, GrowsBy

\* What a frame that brings no exec leaves of execs and completed calls.
Quiet(x) ==
    \A j \in DOMAIN x.slots :
        /\ x.slots[j].exec # <<>> =>
             j \in DOMAIN tools.slots /\ x.slots[j].exec = tools.slots[j].exec
        /\ Completed(x.slots[j]) => j \in DOMAIN tools.slots /\ Completed(tools.slots[j])

\* A frame whose ids name different slots changes nothing, and fails.
LEMMA BadFrameIs ==
    ASSUME ToolInv, FrameArrives, NEW ids, Clash(Stream, ids)
    PROVE  LET x == WithSlot(Stream, ids) IN
           TypedStream(x) /\ StreamOK(x) /\ Grows(Stream, x) /\ Quiet(x) /\ x.bad
<1> DEFINE x == WithSlot(Stream, ids)
<1>1. x = [Stream EXCEPT !.bad = TRUE]
  BY DEF WithSlot
<1> HIDE DEF x
<1>2. /\ TypedStream(x) /\ x.slots = Stream.slots /\ x.aliases = Stream.aliases
      /\ x.response = Stream.response /\ x.emit = Stream.emit /\ x.bad
  BY <1>1, Arrived, BadIs
<1>3. StreamOK(x)
  BY <1>2, Arrived DEF StreamOK
<1>4. Grows(Stream, x)
  BY <1>2 DEF Grows
<1>5. Quiet(x)
  BY <1>2, StreamIs DEF Quiet
<1>6. QED
  BY <1>2, <1>3, <1>4, <1>5 DEF x

\* A frame whose ids name one slot, or none, finds it ready.
LEMMA IdentifiedIs ==
    ASSUME ToolInv, FrameArrives, NEW ids, ids \subseteq Ids, ~Clash(Stream, ids)
    PROVE  LET x == WithSlot(Stream, ids)
               i == SlotFor(Stream, ids) IN
           /\ Ready(x, i) /\ Grows(Stream, x) /\ Quiet(x)
           /\ \A a \in ids : a \in DOMAIN x.aliases /\ x.aliases[a] = i
<1> DEFINE x == WithSlot(Stream, ids)
           i == SlotFor(Stream, ids)
<1>1. Ready(x, i) /\ Grows(Stream, x)
  BY Arrived, WithSlotReady
<1>2. /\ \A j \in DOMAIN Stream.slots : j \in DOMAIN x.slots /\ x.slots[j] = Stream.slots[j]
      /\ \A j \in DOMAIN x.slots \ DOMAIN Stream.slots : j = i /\ x.slots[j] = NewSlot
      /\ \A a \in ids : a \in DOMAIN x.aliases /\ x.aliases[a] = i
  BY Arrived, WithSlotIs
<1> HIDE DEF x, i
<1>3. Quiet(x)
  <2> SUFFICES ASSUME NEW j \in DOMAIN x.slots
               PROVE  /\ x.slots[j].exec # <<>> =>
                           j \in DOMAIN tools.slots /\ x.slots[j].exec = tools.slots[j].exec
                      /\ Completed(x.slots[j]) =>
                           j \in DOMAIN tools.slots /\ Completed(tools.slots[j])
    BY DEF Quiet
  <2>1. CASE j \in DOMAIN Stream.slots
    BY <1>2, <2>1, StreamIs
  <2>2. CASE j \notin DOMAIN Stream.slots
    <3>1. x.slots[j] = NewSlot
      BY <1>2, <2>2
    <3>2. QED
      BY <3>1, NewSlotIs
  <2>3. QED
    BY <2>1, <2>2
<1>4. QED
  BY <1>1, <1>2, <1>3 DEF x, i

\* Every slot there is, is ready for a frame.
LEMMA StreamReady ==
    ASSUME ToolInv, FrameArrives, NEW i \in DOMAIN tools.slots
    PROVE  Ready(Stream, i) /\ Quiet(Stream)
<1>1. /\ TypedStream(Stream) /\ StreamOK(Stream) /\ ~Stream.bad
      /\ \A j \in told : j \in DOMAIN Stream.slots /\ Completed(Stream.slots[j])
  BY Arrived
<1>2. i \in DOMAIN Stream.slots
  BY StreamIs
<1>3. \A j \in DOMAIN Stream.slots : SlotOK(Stream, j) /\ Weak(Stream, j)
  BY <1>1 DEF StreamOK, SlotOK
<1>4. Ready(Stream, i)
  BY <1>1, <1>2, <1>3 DEF Ready, StreamOK
<1>5. Quiet(Stream)
  BY StreamIs DEF Quiet
<1>6. QED
  BY <1>4, <1>5

\* A call that is neither complete nor has an exec hears of a surfaced slot
\* only when another call completed the slot.
LEMMA ToldIsCrossed ==
    ASSUME ToolInv, NEW x, Grows(Stream, x), NEW k \in UpstreamCalls,
           ~made[k].completed, made[k].exec = <<>>, NEW i \in told,
           <<"envelope", k>> \in DOMAIN x.aliases, x.aliases[<<"envelope", k>>] = i
    PROVE  CrossedIn(x.aliases)
<1>1. i \in DOMAIN tools.slots /\ Completed(tools.slots[i]) /\ i # 0
  BY DEF ToolInv, ToolTypeOK, ToldAreCompleted
<1>2. PICK n \in UpstreamCalls : Finishes(n, i)
  BY <1>1 DEF ToolInv, SlotsAreFinished
<1>3. \E a \in DOMAIN tools.aliases : tools.aliases[a] = i /\ a[2] = n /\ n # k
  <2>1. CASE Named(tools, made[n].exec) = i
    <3>1. made[n].exec \in DOMAIN tools.aliases /\ tools.aliases[made[n].exec] = i
      BY <1>1, <2>1 DEF Named
    <3>2. made[n].exec \in Ids
      BY <3>1 DEF ToolInv, ToolTypeOK
    <3>3. made[n].exec # <<>>
      BY <3>2, IdIs
    <3>4. made[n].exec[2] = n
      BY <3>3 DEF ToolInv, CallsMade
    <3>5. QED
      BY <3>1, <3>3, <3>4
  <2>2. CASE made[n].completed /\ Named(tools, <<"envelope", n>>) = i
    <3>1. <<"envelope", n>> \in DOMAIN tools.aliases /\ tools.aliases[<<"envelope", n>>] = i
      BY <1>1, <2>2 DEF Named
    <3>2. <<"envelope", n>>[2] = n
      OBVIOUS
    <3>3. QED
      BY <2>2, <3>1, <3>2
  <2>3. QED
    BY <1>2, <2>1, <2>2 DEF Finishes
<1>4. PICK a \in DOMAIN tools.aliases : tools.aliases[a] = i /\ a[2] = n /\ n # k
  BY <1>3
<1>5. a \in DOMAIN x.aliases /\ x.aliases[a] = i
  BY <1>4, StreamIs DEF Grows
<1>6. <<"envelope", k>>[2] = k
  OBVIOUS
<1>7. QED
  BY <1>4, <1>5, <1>6 DEF CrossedIn

\* A frame without the end of the call: with or without a flush.
LEMMA FragmentIs ==
    ASSUME ToolInv, NEW x, NEW i, Ready(x, i), Grows(Stream, x), Quiet(x),
           NEW k \in UpstreamCalls, ~made[k].completed, made[k].exec = <<>>,
           <<"envelope", k>> \in DOMAIN x.aliases, x.aliases[<<"envelope", k>>] = i,
           NEW v \in ToolSlot,
           v.started, v.emitted = x.slots[i].emitted,
           v.emittedStart = x.slots[i].emittedStart, v.exec = x.slots[i].exec,
           v.call = x.slots[i].call,
           NEW z, z \in {PutSlot(x, i, v), FlushSlot(PutSlot(x, i, v), i)}
    PROVE  TypedStream(z) /\ StreamOK(z) /\ Grows(Stream, z) /\ Quiet(z)
<1> DEFINE w == PutSlot(x, i, v)
<1>1. i \in told => CrossedIn(x.aliases)
  BY ToldIsCrossed
<1>2. /\ Flushable(w, i) /\ Grows(x, w) /\ w.slots[i] = v
      /\ DOMAIN w.slots = DOMAIN x.slots
      /\ \A j \in DOMAIN x.slots \ {i} : w.slots[j] = x.slots[j]
      /\ w.aliases = x.aliases
  BY <1>1, HearsFrame
<1> HIDE DEF w
<1>3. i \in DOMAIN x.slots
  BY DEF Ready
<1>4. Quiet(w)
  <2> SUFFICES ASSUME NEW j \in DOMAIN x.slots
               PROVE  w.slots[j].exec = x.slots[j].exec /\ w.slots[j].call = x.slots[j].call
    BY <1>2 DEF Quiet, Completed
  <2>1. QED
    BY <1>2
<1>5. CASE z = w
  <2>1. SlotOK(w, i)
    <3>1. Completed(w.slots[i]) => Completed(x.slots[i])
      BY <1>2 DEF Completed
    <3>2. Completed(x.slots[i]) => SlotOK(x, i)
      BY DEF Ready
    <3>3. /\ w.slots[i].emittedStart = x.slots[i].emittedStart
          /\ w.slots[i].emitted = x.slots[i].emitted
          /\ w.slots[i].call = x.slots[i].call
      BY <1>2
    <3>4. w.slots[i].started /\ Weak(w, i)
      BY <1>2 DEF Flushable
    <3>5. QED
      BY <3>1, <3>2, <3>3, <3>4 DEF SlotOK
  <2>2. StreamOK(w) /\ TypedStream(w)
    BY <1>2, <2>1 DEF StreamOK, Flushable
  <2>3. Grows(Stream, w)
    BY <1>2, GrowsBy
  <2>4. QED
    BY <1>4, <1>5, <2>2, <2>3
<1>6. CASE z = FlushSlot(w, i)
  <2>1. TypedStream(z) /\ StreamOK(z) /\ Flushed(w, z, i)
    BY <1>2, <1>6, FlushKeeps
  <2>2. Grows(Stream, z)
    BY <1>2, <1>3, <2>1, GrowsBy
  <2>3. Quiet(z)
    <3> SUFFICES ASSUME NEW j \in DOMAIN w.slots
                 PROVE  z.slots[j].exec = w.slots[j].exec /\ z.slots[j].call = w.slots[j].call
      BY <1>4, <2>1 DEF Quiet, Completed, Flushed
    <3>1. QED
      BY <2>1 DEF Flushed
  <2>4. QED
    BY <2>1, <2>2, <2>3
<1>7. QED
  BY <1>5, <1>6 DEF w

\* The ids of a call.
LEMMA IdsOf ==
    ASSUME NEW k \in UpstreamCalls
    PROVE  /\ <<"envelope", k>> \in Ids /\ <<"tool", k>> \in Ids /\ <<"drifted", k>> \in Ids
           /\ <<"tool", k>>[2] = k /\ <<"drifted", k>>[2] = k
BY DEF Ids

\* toolCallStarted keeps the invariant.
LEMMA StartKeeps ==
    ASSUME ToolInv, NEW k \in UpstreamCalls, CallStarted(k)
    PROVE  ToolInv'
<1>1. /\ FrameArrives /\ ~made[k].completed /\ made[k].exec = <<>>
      /\ made' = made /\ heldCalls' = heldCalls
  BY DEF CallStarted
<1>2. PICK id \in {<<"envelope", k>>, <<"tool", k>>} :
        LET ids == {<<"envelope", k>>, id}
            x   == WithSlot(Stream, ids)
            i   == SlotFor(Stream, ids)
        IN  Handled(IF x.bad THEN x
                    ELSE FlushSlot([x EXCEPT !.slots[i].started = TRUE], i))
  BY DEF CallStarted
<1> DEFINE ids == {<<"envelope", k>>, id}
           x   == WithSlot(Stream, ids)
           i   == SlotFor(Stream, ids)
           v   == [x.slots[i] EXCEPT !.started = TRUE]
           y   == [x EXCEPT !.slots[i].started = TRUE]
           z   == IF x.bad THEN x ELSE FlushSlot(y, i)
<1>3. ids \subseteq Ids
  BY <1>2, IdsOf
<1>4. Handled(z)
  BY <1>2
<1> HIDE DEF ids
<1>5. <<"envelope", k>> \in ids
  BY DEF ids
<1>6. TypedStream(z) /\ StreamOK(z) /\ Grows(Stream, z) /\ Quiet(z)
  <2>1. CASE Clash(Stream, ids)
    <3>1. TypedStream(x) /\ StreamOK(x) /\ Grows(Stream, x) /\ Quiet(x) /\ x.bad
      BY <1>1, <2>1, BadFrameIs
    <3>2. QED
      BY <3>1
  <2>2. CASE ~Clash(Stream, ids)
    <3>1. /\ Ready(x, i) /\ Grows(Stream, x) /\ Quiet(x)
          /\ <<"envelope", k>> \in DOMAIN x.aliases /\ x.aliases[<<"envelope", k>>] = i
      BY <1>1, <1>3, <1>5, <2>2, IdentifiedIs
    <3> HIDE DEF x, i
    <3>2. TypedStream(x) /\ i \in DOMAIN x.slots /\ ~x.bad
      BY <3>1 DEF Ready
    <3>3. x.slots[i] \in ToolSlot
      BY <3>2, SlotFields
    <3>4. /\ v \in ToolSlot /\ v.started /\ v.emitted = x.slots[i].emitted
          /\ v.emittedStart = x.slots[i].emittedStart
          /\ v.exec = x.slots[i].exec /\ v.call = x.slots[i].call
      BY <3>3 DEF ToolSlot
    <3>5. y = PutSlot(x, i, v)
      BY <3>2 DEF PutSlot, TypedStream
    <3>6. z = FlushSlot(PutSlot(x, i, v), i)
      BY <3>2, <3>5
    <3> HIDE DEF v, z
    <3>7. QED
      BY <1>1, <3>1, <3>4, <3>6, FragmentIs
  <2>3. QED
    BY <2>1, <2>2
<1> HIDE DEF z
<1>7. SaysMore /\ MadeType'
  BY <1>1 DEF SaysMore, ToolInv, MadeType
<1>8. QED
  BY <1>1, <1>4, <1>6, <1>7, QuietKeeps DEF Quiet

\* A piece of the upstream's text is a text.
LEMMA SnapshotIs ==
    ASSUME NEW o \in Openings, NEW w \in ArgValues, NEW m \in 1..2, NEW n \in 1..2
    PROVE  SubSeq(Text(o, w), m, n) \in ArgTexts
<1>1. Text(o, w) \in Seq(Openings \cup ArgValues) /\ Len(Text(o, w)) = 2
  BY DEF Text
<1>2. QED
  BY <1>1, SubSeqProperties DEF ArgTexts

\* partialToolCall keeps the invariant, with and without an identity.
LEMMA PartialKeeps ==
    ASSUME ToolInv, NEW k \in UpstreamCalls, PartialCall(k)
    PROVE  ToolInv'
<1>1. /\ FrameArrives /\ ~made[k].completed /\ made[k].exec = <<>> /\ made[k].said < 2
      /\ heldCalls' = heldCalls
  BY DEF PartialCall
<1>2. PICK upto \in (made[k].said + 1)..2, cumulative \in BOOLEAN, identified \in BOOLEAN :
         LET text     == Text(made[k].opening, made[k].value)
             snapshot == SubSeq(text, IF cumulative THEN 1 ELSE made[k].said + 1, upto)
             ids      == {<<"envelope", k>>, <<"tool", k>>}
             i == IF identified THEN SlotFor(Stream, ids)
                  ELSE Named(Stream, <<"envelope", k>>)
             x == IF identified THEN WithSlot(Stream, ids) ELSE Stream
             y == [x EXCEPT
                     !.slots[i].started = TRUE,
                     !.slots[i].arguments =
                         IF IsPrefix(@, snapshot) THEN snapshot ELSE @ \o snapshot]
         IN  /\ Handled(IF i = 0 \/ x.bad THEN x
                        ELSE IF x.slots[i].arguments = snapshot THEN y
                        ELSE FlushSlot(y, i))
             /\ made' = [made EXCEPT ![k].said = upto]
  BY DEF PartialCall
<1>3. made[k] \in [value : ArgValues, opening : Openings, said : 0..2, completed : BOOLEAN,
                   exec : Ids \cup {<<>>}]
  BY DEF ToolInv, MadeType
<1>4. /\ made' = [made EXCEPT ![k].said = upto]
      /\ upto \in 0..2 /\ upto \in 1..2 /\ 1 \in 1..2 /\ made[k].said + 1 \in 1..2
  <2>1. made' = [made EXCEPT ![k].said = upto]
    BY <1>2
  <2>2. \A m \in 0..2 : m < 2 => \A u \in (m + 1)..2 : u \in 0..2 /\ u \in 1..2 /\ m + 1 \in 1..2
    OBVIOUS
  <2>3. made[k].said \in 0..2 /\ made[k].said < 2 /\ upto \in (made[k].said + 1)..2
    BY <1>1, <1>2, <1>3
  <2>4. QED
    BY <2>1, <2>2, <2>3
<1> DEFINE text == Text(made[k].opening, made[k].value)
           snapshot == SubSeq(text, IF cumulative THEN 1 ELSE made[k].said + 1, upto)
           ids == {<<"envelope", k>>, <<"tool", k>>}
           i == IF identified THEN SlotFor(Stream, ids) ELSE Named(Stream, <<"envelope", k>>)
           x == IF identified THEN WithSlot(Stream, ids) ELSE Stream
           heard == IF IsPrefix(x.slots[i].arguments, snapshot) THEN snapshot
                    ELSE x.slots[i].arguments \o snapshot
           v == [x.slots[i] EXCEPT !.started = TRUE, !.arguments = heard]
           y == [x EXCEPT
                   !.slots[i].started = TRUE,
                   !.slots[i].arguments =
                       IF IsPrefix(@, snapshot) THEN snapshot ELSE @ \o snapshot]
           z == IF i = 0 \/ x.bad THEN x
                ELSE IF x.slots[i].arguments = snapshot THEN y ELSE FlushSlot(y, i)
<1>5. snapshot \in ArgTexts
  <2>1. made[k].opening \in Openings /\ made[k].value \in ArgValues /\ made[k].said \in 0..2
    BY <1>3
  <2>2. upto \in 1..2 /\ (IF cumulative THEN 1 ELSE made[k].said + 1) \in 1..2
    BY <1>4
  <2>3. QED
    BY <2>1, <2>2, SnapshotIs
<1>6. SaysMore /\ MadeType' /\ \A n \in UpstreamCalls : made'[n].exec = made[n].exec
  <2>1. made \in [UpstreamCalls ->
           [value : ArgValues, opening : Openings, said : 0..2, completed : BOOLEAN,
            exec : Ids \cup {<<>>}]]
    BY DEF ToolInv, MadeType
  <2>2. MadeType'
    BY <1>4, <2>1 DEF MadeType
  <2>3. \A n \in UpstreamCalls :
           /\ made'[n].exec = made[n].exec /\ made'[n].value = made[n].value
           /\ made'[n].completed = made[n].completed
    BY <1>4, <2>1
  <2>4. QED
    BY <2>2, <2>3 DEF SaysMore
<1>7. ids \subseteq Ids
  BY IdsOf
<1>8. Handled(z)
  BY <1>2
<1> HIDE DEF snapshot, ids
<1>9. <<"envelope", k>> \in ids
  BY DEF ids
<1>10. ASSUME Ready(x, i), Grows(Stream, x), Quiet(x), i # 0,
              <<"envelope", k>> \in DOMAIN x.aliases, x.aliases[<<"envelope", k>>] = i
       PROVE  TypedStream(z) /\ StreamOK(z) /\ Grows(Stream, z) /\ Quiet(z)
  <2> HIDE DEF x, i
  <2>1. TypedStream(x) /\ i \in DOMAIN x.slots /\ ~x.bad
    BY <1>10 DEF Ready
  <2>2. x.slots[i] \in ToolSlot /\ x.slots[i].arguments \in ArgTexts
    BY <2>1, SlotFields
  <2>3. heard \in Seq(Openings \cup ArgValues)
    BY <1>5, <2>2 DEF ArgTexts
  <2>4. y = PutSlot(x, i, v)
    BY <2>1 DEF PutSlot, TypedStream
  <2> HIDE DEF heard, y
  <2>5. /\ v \in ToolSlot /\ v.started /\ v.emitted = x.slots[i].emitted
        /\ v.emittedStart = x.slots[i].emittedStart
        /\ v.exec = x.slots[i].exec /\ v.call = x.slots[i].call
    BY <2>2, <2>3 DEF ToolSlot
  <2>6. z \in {PutSlot(x, i, v), FlushSlot(PutSlot(x, i, v), i)}
    BY <1>10, <2>1, <2>4
  <2> HIDE DEF v, z
  <2>7. QED
    BY <1>1, <1>10, <2>5, <2>6, FragmentIs
<1>11. TypedStream(z) /\ StreamOK(z) /\ Grows(Stream, z) /\ Quiet(z)
  <2>1. CASE identified /\ Clash(Stream, ids)
    <3>1. TypedStream(x) /\ StreamOK(x) /\ Grows(Stream, x) /\ Quiet(x) /\ x.bad
      BY <1>1, <2>1, BadFrameIs
    <3>2. QED
      BY <3>1
  <2>2. CASE identified /\ ~Clash(Stream, ids)
    <3>1. x = WithSlot(Stream, ids) /\ i = SlotFor(Stream, ids)
      BY <2>2
    <3> HIDE DEF x, i
    <3>2. /\ Ready(x, i) /\ Grows(Stream, x) /\ Quiet(x)
          /\ <<"envelope", k>> \in DOMAIN x.aliases /\ x.aliases[<<"envelope", k>>] = i
      BY <1>1, <1>7, <1>9, <2>2, <3>1, IdentifiedIs
    <3>3. i # 0
      BY <3>2 DEF Ready, TypedStream
    <3>4. QED
      BY <1>10, <3>2, <3>3 DEF x, i
  <2>3. CASE ~identified /\ i = 0
    <3>1. z = Stream
      BY <2>3
    <3>2. Quiet(Stream)
      BY StreamIs DEF Quiet
    <3> HIDE DEF z
    <3>3. QED
      BY <1>1, <3>1, <3>2, Arrived
  <2>4. CASE ~identified /\ i # 0
    <3>1. x = Stream /\ i = Named(Stream, <<"envelope", k>>)
      BY <2>4
    <3> HIDE DEF x, i
    <3>2. <<"envelope", k>> \in DOMAIN tools.aliases /\ tools.aliases[<<"envelope", k>>] = i
      BY <2>4, <3>1, StreamIs DEF Named
    <3>3. i \in DOMAIN tools.slots
      BY <3>2 DEF ToolInv, ToolTypeOK
    <3>4. Ready(x, i) /\ Quiet(x) /\ Grows(Stream, x)
      BY <1>1, <3>1, <3>3, StreamReady, Arrived
    <3>5. <<"envelope", k>> \in DOMAIN x.aliases /\ x.aliases[<<"envelope", k>>] = i
      BY <3>1, <3>2, StreamIs
    <3>6. QED
      BY <1>10, <2>4, <3>4, <3>5 DEF x, i
  <2>5. QED
    BY <2>1, <2>2, <2>3, <2>4
<1> HIDE DEF z
<1>12. QED
  BY <1>1, <1>6, <1>8, <1>11, QuietKeeps DEF Quiet

\* The arguments a call completes with.
LEMMA TextIs ==
    ASSUME NEW o \in Openings, NEW w \in ArgValues
    PROVE  Text(o, w) \in ArgTexts /\ Text(o, w) # NoText /\ Text(o, w)[2] = w
BY DEF Text, ArgTexts, NoText

\* The arguments of a completion are a text that carries the call's value.
LEMMA CanonicalIs ==
    ASSUME MadeType, NEW k \in UpstreamCalls
    PROVE  Canonical(k) \in ArgTexts /\ Canonical(k) # NoText /\ Canonical(k)[2] = made[k].value
<1>1. made[k].value \in ArgValues
  BY DEF MadeType
<1>2. "{" \in Openings
  BY DEF Openings
<1>3. QED
  BY <1>1, <1>2, TextIs DEF Canonical

\* toolCallCompleted keeps the invariant.
LEMMA CompletedKeeps ==
    ASSUME ToolInv, NEW k \in UpstreamCalls, CallCompleted(k)
    PROVE  ToolInv'
<1> DEFINE ids == {<<"envelope", k>>, <<"tool", k>>}
           i   == SlotFor(Stream, ids)
           x   == WithSlot(Stream, ids)
           z   == CompleteSlot(x, i, Canonical(k))
<1>1. /\ FrameArrives /\ Handled(z) /\ heldCalls' = heldCalls
      /\ made' = [made EXCEPT ![k].completed = TRUE]
  BY DEF CallCompleted
<1>2. SaysMore /\ MadeType' /\ \A n \in UpstreamCalls : made'[n].exec = made[n].exec
  <2>1. made \in [UpstreamCalls ->
           [value : ArgValues, opening : Openings, said : 0..2, completed : BOOLEAN,
            exec : Ids \cup {<<>>}]]
    BY DEF ToolInv, MadeType
  <2>2. MadeType'
    BY <1>1, <2>1 DEF MadeType
  <2>3. \A n \in UpstreamCalls :
           /\ made'[n].exec = made[n].exec /\ made'[n].value = made[n].value
           /\ made[n].completed => made'[n].completed
    BY <1>1, <2>1
  <2>4. QED
    BY <2>2, <2>3 DEF SaysMore
<1>3. made'[k].completed
  BY <1>1 DEF ToolInv, MadeType
<1>4. tools' = [slots |-> z.slots, aliases |-> z.aliases]
  BY <1>1 DEF Handled
<1>5. ids \subseteq Ids
  BY IdsOf
<1>6. MadeType
  BY DEF ToolInv
<1>7. <<"envelope", k>> \in ids /\ <<"tool", k>> \in ids
  OBVIOUS
<1> HIDE DEF ids
<1>8. CASE Clash(Stream, ids)
  <2>1. TypedStream(x) /\ StreamOK(x) /\ Grows(Stream, x) /\ Quiet(x) /\ x.bad
    BY <1>1, <1>8, BadFrameIs
  <2>2. z = x
    BY <2>1 DEF CompleteSlot
  <2> HIDE DEF z, x
  <2>3. QED
    BY <1>1, <1>2, <2>1, <2>2, QuietKeeps DEF Quiet
<1>9. CASE ~Clash(Stream, ids)
  <2>1. /\ Ready(x, i) /\ Grows(Stream, x) /\ Quiet(x)
        /\ \A a \in ids : a \in DOMAIN x.aliases /\ x.aliases[a] = i
    BY <1>1, <1>5, <1>9, IdentifiedIs
  <2>2. Canonical(k) \in ArgTexts /\ Canonical(k) # NoText
    BY <1>6, CanonicalIs
  <2> HIDE DEF x, i
  <2>3. TypedStream(z) /\ StreamOK(z) /\ Grows(x, z) /\ Keeps(x, z, i)
    BY <2>1, <2>2, CompleteKeeps
  <2> HIDE DEF z
  <2>4. Grows(Stream, z)
    BY <2>1, <2>3, GrowsBy
  <2>5. ASSUME NEW j \in DOMAIN z.slots
        PROVE  /\ z.slots[j].exec # <<>> =>
                    j \in DOMAIN tools.slots /\ z.slots[j].exec = tools.slots[j].exec
               /\ Completed(z.slots[j]) =>
                    \/ j \in DOMAIN tools.slots /\ Completed(tools.slots[j])
                    \/ j = i
    <3>1. j \in DOMAIN x.slots /\ z.slots[j].exec = x.slots[j].exec
      BY <2>3 DEF Keeps
    <3>2. j # i => z.slots[j].call = x.slots[j].call
      BY <2>3, <3>1 DEF Keeps
    <3>3. QED
      BY <2>1, <3>1, <3>2 DEF Quiet, Completed
  <2>6. ASSUME NEW j, j = i PROVE Finishes(k, j)'
    <3>1. z.aliases = x.aliases
      BY <2>3 DEF Keeps
    <3>2. /\ <<"envelope", k>> \in DOMAIN tools'.aliases /\ tools'.aliases[<<"envelope", k>>] = j
          /\ <<"tool", k>> \in DOMAIN tools'.aliases /\ tools'.aliases[<<"tool", k>>] = j
      BY <1>4, <1>7, <2>1, <2>6, <3>1
    <3>3. QED
      BY <1>3, <3>2 DEF Finishes, Named
  <2>7. \A j \in DOMAIN z.slots : Completed(z.slots[j]) =>
           \/ j \in DOMAIN tools.slots /\ Completed(tools.slots[j])
           \/ \E n \in UpstreamCalls : Finishes(n, j)'
    BY <2>5, <2>6
  <2>8. QED
    BY <1>1, <1>2, <2>3, <2>4, <2>5, <2>7, QuietKeeps
<1>10. QED
  BY <1>8, <1>9

\* An exec is matched with a slot there is, or with none.
LEMMA CompatibleIs ==
    ASSUME NEW x, NEW text
    PROVE  Compatible(x, text) = 0 \/ Compatible(x, text) \in DOMAIN x.slots
<1> DEFINE fits == {i \in DOMAIN x.slots :
                      \/ IsPrefix(x.slots[i].arguments, text)
                      \/ SameArguments(x.slots[i].arguments, text)}
<1>1. fits \subseteq DOMAIN x.slots
  OBVIOUS
<1>2. Compatible(x, text) = IF Cardinality(fits) = 1 THEN CHOOSE i \in fits : TRUE ELSE 0
  BY DEF Compatible
<1> HIDE DEF fits
<1>3. Cardinality(fits) = 1 => fits # {}
  <2>1. Cardinality({}) = 0
    BY FS_EmptySet
  <2>2. QED
    BY <2>1
<1>4. fits # {} => (CHOOSE i \in fits : TRUE) \in fits
  OBVIOUS
<1>5. QED
  BY <1>1, <1>2, <1>3, <1>4

\* The slot an exec speaks of, and the stream that knows it.
Like(id, text) ==
    IF Named(Stream, id) # 0 THEN Named(Stream, id) ELSE Compatible(Stream, text)

LikeStream(id, text) ==
    IF Like(id, text) = 0 THEN WithSlot(Stream, {id})
    ELSE Aliased(Stream, id, Like(id, text))

LikeSlot(id, text) ==
    IF Like(id, text) = 0 THEN SlotFor(Stream, {id}) ELSE Like(id, text)

WithExec(x, i, id) == [x EXCEPT !.slots[i].exec = ExecOf(x.slots[i], id)]

\* The slot an exec speaks of is ready, and the exec's id names it.
LEMMA ExecSlotIs ==
    ASSUME ToolInv, FrameArrives, NEW id \in Ids, NEW text
    PROVE  LET x == LikeStream(id, text)
               i == LikeSlot(id, text) IN
           /\ Ready(x, i) /\ Grows(Stream, x) /\ Quiet(x)
           /\ id \in DOMAIN x.aliases /\ x.aliases[id] = i
<1> DEFINE like == Like(id, text)
           x    == LikeStream(id, text)
           i    == LikeSlot(id, text)
<1>1. CASE like = 0
  <2> DEFINE ids == {id}
  <2>1. ids \subseteq Ids /\ ~Clash(Stream, ids) /\ id \in ids
    BY DEF Clash
  <2>2. x = WithSlot(Stream, ids) /\ i = SlotFor(Stream, ids)
    BY <1>1 DEF LikeStream, LikeSlot
  <2> HIDE DEF ids
  <2>3. QED
    BY <2>1, <2>2, IdentifiedIs
<1>2. CASE like # 0
  <2>1. \A a \in DOMAIN tools.aliases :
           tools.aliases[a] \in DOMAIN tools.slots /\ tools.aliases[a] # 0
    BY DEF ToolInv, ToolTypeOK
  <2>2. id \in DOMAIN Stream.aliases => Stream.aliases[id] = like
    BY <2>1, StreamIs DEF Named, Like
  <2>3. like \in DOMAIN Stream.slots
    <3>1. CASE Named(Stream, id) # 0
      BY <2>1, <3>1, StreamIs DEF Named, Like
    <3>2. CASE Named(Stream, id) = 0
      BY <1>2, <3>2, CompatibleIs DEF Like
    <3>3. QED
      BY <3>1, <3>2
  <2>4. x = Aliased(Stream, id, like) /\ i = like
    BY <1>2 DEF LikeStream, LikeSlot
  <2>5. /\ Ready(x, i) /\ Grows(Stream, x) /\ x.slots = Stream.slots
        /\ id \in DOMAIN x.aliases /\ x.aliases[id] = i
    <3>1. /\ TypedStream(Stream) /\ StreamOK(Stream) /\ ~Stream.bad
          /\ \A j \in told : j \in DOMAIN Stream.slots /\ Completed(Stream.slots[j])
      BY Arrived
    <3>2. LET w == Aliased(Stream, id, like) IN
          /\ Ready(w, like) /\ Grows(Stream, w) /\ w.slots = Stream.slots
          /\ id \in DOMAIN w.aliases /\ w.aliases[id] = like
      BY <2>2, <2>3, <3>1, AliasReady
    <3>3. QED
      BY <2>4, <3>2
  <2>6. Quiet(x)
    BY <2>5, StreamIs DEF Quiet
  <2>7. QED
    BY <2>5, <2>6
<1>3. QED
  BY <1>1, <1>2

\* What the stream is after an exec.
LEMMA ExecLeaves ==
    ASSUME ToolInv, FrameArrives, NEW x, NEW i, Ready(x, i), Grows(Stream, x), Quiet(x),
           NEW id \in Ids, NEW text \in ArgTexts, text # NoText,
           NEW z, z = CompleteSlot(WithExec(x, i, id), i, text)
    PROVE  /\ TypedStream(z) /\ StreamOK(z) /\ Grows(Stream, z)
           /\ i \in DOMAIN z.slots /\ DOMAIN z.slots = DOMAIN x.slots
           /\ z.aliases = x.aliases
           /\ z.slots[i].exec = ExecOf(x.slots[i], id)
           /\ \A j \in DOMAIN z.slots \ {i} :
                z.slots[j].exec = x.slots[j].exec /\ z.slots[j].call = x.slots[j].call
           /\ ~z.bad => Completed(z.slots[i]) /\ z.slots[i].call[2] = text[2]
<1> DEFINE y == WithExec(x, i, id)
<1>1. /\ Ready(y, i) /\ Grows(x, y) /\ y.aliases = x.aliases
      /\ DOMAIN y.slots = DOMAIN x.slots
      /\ \A j \in DOMAIN x.slots \ {i} : y.slots[j] = x.slots[j]
      /\ y.slots[i].exec = ExecOf(x.slots[i], id)
  BY ExecReady DEF WithExec
<1>2. z = CompleteSlot(y, i, text)
  OBVIOUS
<1> HIDE DEF y
<1>3. /\ TypedStream(z) /\ StreamOK(z) /\ Grows(y, z) /\ Keeps(y, z, i)
      /\ ~z.bad => Completed(z.slots[i]) /\ z.slots[i].call[2] = text[2]
  BY <1>1, <1>2, CompleteKeeps
<1>4. Grows(Stream, z)
  BY <1>1, <1>3, GrowsBy
<1>5. i \in DOMAIN x.slots
  BY DEF Ready
<1>6. QED
  BY <1>1, <1>3, <1>4, <1>5 DEF Keeps

\* mcpArgs keeps the invariant, whatever id the exec came under.
LEMMA ExecKeeps ==
    ASSUME ToolInv, NEW k \in UpstreamCalls, CallExec(k)
    PROVE  ToolInv'
<1>1. FrameArrives /\ made[k].exec = <<>>
  BY DEF CallExec
<1>2. PICK id \in {<<"tool", k>>, <<"drifted", k>>} :
         LET like == IF Named(Stream, id) # 0 THEN Named(Stream, id)
                     ELSE Compatible(Stream, Canonical(k))
             x == IF like = 0 THEN WithSlot(Stream, {id})
                  ELSE [Stream EXCEPT !.aliases = Bound(Stream, {id}, like)]
             i == IF like = 0 THEN SlotFor(Stream, {id}) ELSE like
             y == [x EXCEPT !.slots[i].exec = ExecOf(x.slots[i], id)]
             z == CompleteSlot(y, i, Canonical(k))
         IN  /\ Handled(z)
             /\ heldCalls' = IF z.bad THEN heldCalls ELSE heldCalls \cup {id}
             /\ made' = [made EXCEPT ![k].exec = id]
  BY DEF CallExec
<1> DEFINE t == Canonical(k)
           x == LikeStream(id, t)
           i == LikeSlot(id, t)
           z == CompleteSlot(WithExec(x, i, id), i, t)
<1>3. /\ Handled(z)
      /\ heldCalls' = IF z.bad THEN heldCalls ELSE heldCalls \cup {id}
      /\ made' = [made EXCEPT ![k].exec = id]
  BY <1>2 DEF LikeStream, LikeSlot, Like, Aliased, WithExec
<1> HIDE DEF t
<1>4. id \in Ids /\ id[2] = k /\ id # <<>>
  BY <1>2, IdsOf, IdIs
<1>5. /\ Ready(x, i) /\ Grows(Stream, x) /\ Quiet(x)
      /\ id \in DOMAIN x.aliases /\ x.aliases[id] = i
  BY <1>1, <1>4, ExecSlotIs
<1> HIDE DEF x, i
<1>6. /\ TypedStream(z) /\ StreamOK(z) /\ Grows(Stream, z)
      /\ i \in DOMAIN z.slots /\ DOMAIN z.slots = DOMAIN x.slots
      /\ z.aliases = x.aliases
      /\ z.slots[i].exec = ExecOf(x.slots[i], id)
      /\ \A j \in DOMAIN z.slots \ {i} :
           z.slots[j].exec = x.slots[j].exec /\ z.slots[j].call = x.slots[j].call
      /\ ~z.bad => Completed(z.slots[i]) /\ z.slots[i].call[2] = made[k].value
  <2>1. t \in ArgTexts /\ t # NoText /\ t[2] = made[k].value
    BY CanonicalIs DEF ToolInv, t
  <2>2. z = CompleteSlot(WithExec(x, i, id), i, t)
    OBVIOUS
  <2> HIDE DEF z
  <2>3. QED
    BY <1>1, <1>4, <1>5, <2>1, <2>2, ExecLeaves
<1> HIDE DEF z
<1>7. /\ made'[k].exec = id /\ made'[k].value = made[k].value
      /\ \A n \in UpstreamCalls \ {k} : made'[n] = made[n]
      /\ \A n \in UpstreamCalls : made'[n].value = made[n].value
  BY <1>3 DEF ToolInv, MadeType
<1>8. SaysMore /\ MadeType'
  <2>1. made \in [UpstreamCalls ->
           [value : ArgValues, opening : Openings, said : 0..2, completed : BOOLEAN,
            exec : Ids \cup {<<>>}]]
    BY DEF ToolInv, MadeType
  <2>2. MadeType'
    BY <1>3, <1>4, <2>1 DEF MadeType
  <2>3. made'[k].completed = made[k].completed
    BY <1>3, <2>1
  <2>4. QED
    BY <1>1, <1>7, <2>2, <2>3 DEF SaysMore
<1>9. /\ FrameInv' /\ tools'.slots = z.slots /\ tools'.aliases = z.aliases
      /\ (Live' <=> ~z.bad)
  BY <1>1, <1>3, <1>6, <1>8, FrameKeeps
<1>10. Live
  BY <1>1 DEF Live, FrameArrives
<1>11. ASSUME NEW e \in heldCalls
       PROVE  e \in Ids /\ e[2] \in UpstreamCalls /\ e[2] # k /\ made[e[2]].exec = e
  <2>1. e \in Ids /\ made[e[2]].exec = e
    BY DEF ToolInv, ToolTypeOK, HeldAreExecs
  <2>2. QED
    BY <1>1, <2>1, IdIs
<1>12. CallsMade'
  <2> SUFFICES ASSUME NEW n \in UpstreamCalls
               PROVE  made'[n].exec \in {<<>>, <<"tool", n>>, <<"drifted", n>>}
    BY DEF CallsMade
  <2>1. CASE n = k
    BY <1>2, <1>7, <2>1
  <2>2. CASE n # k
    BY <1>7, <2>2 DEF ToolInv, CallsMade
  <2>3. QED
    BY <2>1, <2>2
<1>13. HeldAreExecs' /\ heldCalls' \subseteq Ids
  <2> SUFFICES ASSUME NEW e \in heldCalls' PROVE made'[e[2]].exec = e /\ e \in Ids
    BY DEF HeldAreExecs
  <2>1. CASE e \in heldCalls
    BY <1>7, <1>11, <2>1
  <2>2. CASE e = id
    BY <1>4, <1>7, <2>2
  <2>3. QED
    BY <1>3, <2>1, <2>2
<1>14. SlotsAreFinished'
  <2>1. ASSUME NEW j, j = i PROVE Finishes(k, j)'
    <3>1. id \in DOMAIN tools'.aliases /\ tools'.aliases[id] = j
      BY <1>5, <1>6, <1>9, <2>1
    <3>2. QED
      BY <1>7, <3>1 DEF Finishes, Named
  <2>2. \A j \in DOMAIN z.slots : Completed(z.slots[j]) =>
           \/ j \in DOMAIN tools.slots /\ Completed(tools.slots[j])
           \/ \E n \in UpstreamCalls : Finishes(n, j)'
    <3> SUFFICES ASSUME NEW j \in DOMAIN z.slots, Completed(z.slots[j]), j # i
                 PROVE  j \in DOMAIN tools.slots /\ Completed(tools.slots[j])
      BY <2>1
    <3>1. j \in DOMAIN x.slots /\ Completed(x.slots[j])
      BY <1>6 DEF Completed
    <3>2. QED
      BY <1>5, <3>1 DEF Quiet
  <2>3. QED
    BY <1>6, <1>8, <1>9, <2>2, FinishedKeeps
<1>15. ASSUME NEW j \in DOMAIN x.slots, x.slots[j].exec # <<>>
       PROVE  LET e == x.slots[j].exec IN
              /\ j \in DOMAIN z.slots /\ e \in Ids
              /\ e[2] \in UpstreamCalls /\ e[2] # k /\ made[e[2]].exec = e
              /\ Completed(z.slots[j]) /\ z.slots[j].call[2] = made[e[2]].value
  <2> DEFINE e == x.slots[j].exec
  <2>1. j \in DOMAIN tools.slots /\ e = tools.slots[j].exec
    BY <1>5, <1>15 DEF Quiet
  <2>2. /\ e \in Ids /\ made[e[2]].exec = e
        /\ Completed(tools.slots[j]) /\ tools.slots[j].call[2] = made[e[2]].value
    BY <1>10, <1>15, <2>1 DEF ToolInv, ExecsOfSlots
  <2>3. e # <<>>
    BY <1>15
  <2> HIDE DEF e
  <2>4. e[2] \in UpstreamCalls /\ e[2] # k
    BY <1>1, <2>2, <2>3, IdIs
  <2>5. j \in DOMAIN z.slots /\ z.slots[j].call = tools.slots[j].call
    BY <1>6, <2>1, <2>2, StreamIs DEF Grows
  <2>6. QED
    BY <2>2, <2>4, <2>5 DEF Completed, e
<1>16. ExecsOfSlots'
  <2> SUFFICES ASSUME NEW j \in DOMAIN z.slots, z.slots[j].exec # <<>>
               PROVE  LET s == z.slots[j] IN
                      /\ s.exec \in Ids /\ made'[s.exec[2]].exec = s.exec
                      /\ Live' \/ s.exec \in heldCalls' =>
                           Completed(s) /\ s.call[2] = made'[s.exec[2]].value
    BY <1>9 DEF ExecsOfSlots
  <2>1. CASE x.slots[j].exec # <<>>
    <3>1. z.slots[j].exec = x.slots[j].exec
      BY <1>6, <2>1 DEF ExecOf
    <3>2. j \in DOMAIN x.slots
      BY <1>6
    <3>3. QED
      BY <1>7, <1>15, <2>1, <3>1, <3>2
  <2>2. CASE x.slots[j].exec = <<>>
    <3>1. j = i /\ z.slots[j].exec = id
      BY <1>6, <2>2 DEF ExecOf
    <3>2. Live' \/ id \in heldCalls' => ~z.bad
      BY <1>3, <1>4, <1>9, <1>11
    <3>3. QED
      BY <1>4, <1>6, <1>7, <3>1, <3>2
  <2>3. QED
    BY <2>1, <2>2
<1>17. ExecsHaveASlot'
  <2> SUFFICES ASSUME Live', NEW n \in UpstreamCalls, made'[n].exec \in heldCalls'
               PROVE  \/ \E j \in DOMAIN z.slots : z.slots[j].exec = made'[n].exec
                      \/ \E m \in UpstreamCalls \ {n} : made'[m].value = made'[n].value
    BY <1>9 DEF ExecsHaveASlot, Live
  <2>1. ~z.bad
    BY <1>9
  <2>2. CASE n = k
    <3>1. CASE x.slots[i].exec = <<>>
      <4>1. z.slots[i].exec = id
        BY <1>6, <3>1 DEF ExecOf
      <4>2. QED
        BY <1>6, <1>7, <2>2, <4>1
    <3>2. CASE x.slots[i].exec # <<>>
      <4> DEFINE m == x.slots[i].exec[2]
      <4>1. i \in DOMAIN x.slots
        BY <1>6
      <4>2. m \in UpstreamCalls /\ m # k /\ z.slots[i].call[2] = made[m].value
        BY <1>15, <3>2, <4>1
      <4> HIDE DEF m
      <4>3. made'[m].value = made'[k].value
        BY <1>6, <1>7, <2>1, <4>2
      <4>4. QED
        BY <2>2, <4>2, <4>3
    <3>3. QED
      BY <3>1, <3>2
  <2>3. CASE n # k
    <3>1. made'[n].exec = made[n].exec
      BY <1>7, <2>3
    <3>2. made[n].exec # id
      <4>1. made[n].exec \in {<<>>, <<"tool", n>>, <<"drifted", n>>}
        BY DEF ToolInv, CallsMade
      <4>2. QED
        BY <1>4, <2>3, <4>1
    <3>3. made[n].exec \in heldCalls /\ made[n].exec # <<>>
      <4>1. made[n].exec \in heldCalls
        BY <1>3, <3>1, <3>2
      <4>2. QED
        BY <4>1, <1>11, IdIs
    <3>4. \/ \E j \in DOMAIN tools.slots : tools.slots[j].exec = made[n].exec
          \/ \E m \in UpstreamCalls \ {n} : made[m].value = made[n].value
      BY <1>10, <3>3 DEF ToolInv, ExecsHaveASlot, Live
    <3>5. CASE \E j \in DOMAIN tools.slots : tools.slots[j].exec = made[n].exec
      BY <1>6, <3>1, <3>3, <3>5, StreamIs DEF Grows
    <3>6. CASE \E m \in UpstreamCalls \ {n} : made[m].value = made[n].value
      BY <1>7, <3>6
    <3>7. QED
      BY <3>4, <3>5, <3>6
  <2>4. QED
    BY <2>2, <2>3
<1>18. QED
  BY <1>8, <1>9, <1>12, <1>13, <1>14, <1>16, <1>17 DEF ToolInv, FrameInv, ToolTypeOK

-----------------------------------------------------------------------------
(* The response of a batch                                                 *)

\* A response that knows all it heard of the calls of a batch.
Agreeing(r, texts) ==
    /\ IsResponse(r) /\ DOMAIN r.client = DOMAIN r.calls
    /\ \A i \in DOMAIN texts :
         /\ texts[i] \in ArgTexts
         /\ i \in DOMAIN r.calls =>
              ~r.calls[i].done /\ r.calls[i].text = texts[i] /\ r.client[i] = texts[i]

\* The rest of a text that was heard, or was not begun.
LEMMA UnheardIs ==
    ASSUME NEW r, NEW texts, Agreeing(r, texts), NEW i \in DOMAIN texts
    PROVE  /\ ~Contradicts(r, i, texts[i])
           /\ Heard(r, i, SubSeq(texts[i], Len(Sofar(r, i)) + 1, Len(texts[i])))[i] = texts[i]
<1> DEFINE t == texts[i]
           rest == SubSeq(t, Len(Sofar(r, i)) + 1, Len(t))
<1>1. t \in ArgTexts /\ DOMAIN r.client = DOMAIN r.calls
  BY DEF Agreeing
<1>2. IsPrefix(t, t) /\ IsPrefix(NoText, t) /\ NoText \in ArgTexts
  BY <1>1, PrefixesOf
<1>3. CASE i \in DOMAIN r.calls
  <2>1. Sofar(r, i) = t /\ ~r.calls[i].done /\ r.client[i] = t
    BY <1>3 DEF Agreeing, Sofar, Started
  <2>2. Joined(t, rest) = t
    BY <1>1, <1>2, <2>1, PrefixJoin DEF Joined
  <2> HIDE DEF rest
  <2>3. Heard(r, i, rest)[i] = Joined(r.client[i], rest)
    BY <1>1, <1>3 DEF Heard, Joined
  <2>4. QED
    BY <1>2, <2>1, <2>2, <2>3 DEF Contradicts, rest
<1>4. CASE i \notin DOMAIN r.calls
  <2>1. Sofar(r, i) = NoText
    BY <1>4 DEF Sofar, Started
  <2>2. Len(NoText) = 0
    BY DEF NoText
  <2>3. rest = t
    <3>1. SubSeq(t, 1, Len(t)) = t
      BY <1>1, SubSeqFull DEF ArgTexts
    <3>2. Len(Sofar(r, i)) + 1 = 1
      BY <2>1, <2>2
    <3>3. QED
      BY <3>1, <3>2
  <2> HIDE DEF rest
  <2>4. Heard(r, i, rest)[i] = rest
    BY <1>1, <1>4 DEF Heard
  <2>5. QED
    BY <1>2, <1>4, <2>1, <2>3, <2>4 DEF Contradicts, Started, rest
<1>5. QED
  BY <1>3, <1>4

\* A batch leaves the client with its texts, and throws on a call left out.
LEMMA SurfacedIs ==
    ASSUME NEW r, NEW texts, Agreeing(r, texts)
    PROVE  LET q == AccFinish(AccComplete(r, texts)) IN
           /\ IsResponse(q)
           /\ DOMAIN q.calls = DOMAIN r.calls \cup DOMAIN texts
           /\ DOMAIN q.client = DOMAIN r.calls \cup DOMAIN texts
           /\ \A i \in DOMAIN texts : q.client[i] = texts[i]
           /\ \A i \in DOMAIN r.calls \ DOMAIN texts : q.client[i] = r.client[i]
           /\ q.broken => r.broken \/ \E i \in DOMAIN r.calls : i \notin DOMAIN texts
<1> DEFINE calls == [i \in DOMAIN r.calls \cup DOMAIN texts |->
                       IF i \in DOMAIN texts THEN [text |-> texts[i], done |-> TRUE]
                       ELSE r.calls[i]]
           piece(i) == SubSeq(texts[i], Len(Sofar(r, i)) + 1, Len(texts[i]))
           client == [i \in DOMAIN r.client \cup DOMAIN texts |->
                       IF i \in DOMAIN texts THEN Heard(r, i, piece(i))[i] ELSE r.client[i]]
           p == AccComplete(r, texts)
           q == AccFinish(p)
<1>1. r.broken \in BOOLEAN /\ DOMAIN r.client = DOMAIN r.calls
  BY DEF Agreeing, IsResponse
<1>2. \A i \in DOMAIN texts : ~Contradicts(r, i, texts[i]) /\ Heard(r, i, piece(i))[i] = texts[i]
  BY UnheardIs
<1>3. p = [calls |-> calls, client |-> client, broken |-> r.broken]
  BY <1>2 DEF AccComplete, Agreeing, IsResponse
<1>4. /\ DOMAIN calls = DOMAIN r.calls \cup DOMAIN texts
      /\ \A i \in DOMAIN texts : calls[i].done
  OBVIOUS
<1>5. /\ DOMAIN client = DOMAIN r.calls \cup DOMAIN texts
      /\ \A i \in DOMAIN texts : client[i] = texts[i]
      /\ \A i \in DOMAIN r.calls \ DOMAIN texts : client[i] = r.client[i]
  BY <1>1, <1>2
<1> HIDE DEF calls, client, p
<1>6. /\ p.calls = calls /\ p.client = client /\ p.broken = r.broken
  BY <1>3
<1> DEFINE b == r.broken \/ \E i \in DOMAIN calls : ~calls[i].done
<1>7. q = [calls |-> calls, client |-> client, broken |-> b]
  BY <1>3 DEF AccFinish
<1>8. b \in BOOLEAN /\ (b => r.broken \/ \E i \in DOMAIN r.calls : i \notin DOMAIN texts)
  BY <1>1, <1>4
<1> HIDE DEF b, q
<1>9. q.calls = calls /\ q.client = client /\ q.broken = b
  BY <1>7
<1>10. IsResponse(q)
  BY <1>7, <1>8, <1>9 DEF IsResponse
<1>11. QED
  BY <1>4, <1>5, <1>8, <1>9, <1>10 DEF q, p

-----------------------------------------------------------------------------
(* Surfacing and resuming                                                  *)

\* Every slot that a client may have heard of has been told to the end.
AllSaid ==
    \A j \in DOMAIN tools.slots :
        LET s == tools.slots[j] IN
        /\ s.started
        /\ s.emittedStart =>
             j \in VisibleSlots(tools) /\ Completed(s) /\ s.emitted = s.call
        /\ ~s.emittedStart => s.emitted = NoText

\* A step that hears nothing of the upstream.
Silent ==
    /\ tools' = tools /\ made' = made /\ serial' = serial
    /\ heldCalls' \subseteq heldCalls
    /\ Live' => Live

\* What a step without a frame keeps of calls and execs.
LEMMA SilentKeeps ==
    ASSUME ToolInv, Silent
    PROVE  /\ MadeType' /\ CallsMade' /\ HeldAreExecs' /\ heldCalls' \subseteq Ids
           /\ SlotsAreFinished' /\ ExecsOfSlots' /\ ExecsHaveASlot'
<1>1. MadeType' /\ CallsMade' /\ HeldAreExecs' /\ heldCalls' \subseteq Ids
  BY DEF ToolInv, ToolTypeOK, Silent, MadeType, CallsMade, HeldAreExecs
<1>2. SlotsAreFinished'
  BY DEF ToolInv, Silent, SlotsAreFinished, Finishes
<1>3. ExecsOfSlots'
  BY DEF ToolInv, Silent, ExecsOfSlots
<1>4. ExecsHaveASlot'
  <2>1. ExecsHaveASlot
    BY DEF ToolInv
  <2>2. QED
    BY <2>1 DEF Silent, ExecsHaveASlot, Live
<1>5. QED
  BY <1>1, <1>2, <1>3, <1>4

\* The stream once the response no longer counts.
LEMMA StreamSaid ==
    ASSUME ToolInv, Silent, AllSaid, IsResponse(response'),
           DOMAIN response'.client = DOMAIN response'.calls,
           response'.broken => Crossed /\ stage' # "running",
           stage' = "running" => DOMAIN response'.calls = {}
    PROVE  TypedStream(Stream)' /\ StreamOK(Stream)'
<1>1. Stream' = [slots |-> tools.slots, aliases |-> tools.aliases, response |-> response',
                 emit |-> (stage' = "running"), bad |-> FALSE]
  BY DEF Stream, Silent
<1>2. /\ Stream'.slots = tools.slots /\ Stream'.aliases = tools.aliases
      /\ Stream'.response = response' /\ Stream'.emit = (stage' = "running")
      /\ Stream'.bad = FALSE
  BY <1>1
<1>3. TypedStream(Stream)'
  <2>1. TypedStream(Stream)
    BY DEF ToolInv
  <2>2. /\ tools.slots \in Seq(ToolSlot) /\ DOMAIN tools.aliases \subseteq Ids
        /\ \A a \in DOMAIN tools.aliases : tools.aliases[a] \in DOMAIN tools.slots
    BY <2>1, StreamIs DEF TypedStream
  <2>3. IsResponse(Stream.response)'
    BY <1>2 DEF IsResponse
  <2>4. QED
    BY <1>1, <1>2, <2>2, <2>3 DEF TypedStream
<1>4. ASSUME NEW j \in DOMAIN tools.slots PROVE SlotOK(Stream, j)'
  <2>1. VisibleSlots(Stream)' = VisibleSlots(tools)
    BY <1>2 DEF VisibleSlots, Silent
  <2>2. LET s == tools.slots[j] IN
        /\ s.started
        /\ s.emittedStart =>
             j \in VisibleSlots(tools) /\ Completed(s) /\ s.emitted = s.call
        /\ ~s.emittedStart => s.emitted = NoText
    BY DEF AllSaid
  <2>3. Weak(Stream, j)'
    BY <1>2, <2>1, <2>2 DEF Weak
  <2>4. QED
    BY <1>2, <2>2, <2>3 DEF SlotOK
<1>5. StreamOK(Stream)'
  <2>1. response'.broken => CrossedIn(tools.aliases) /\ stage' # "running"
    BY DEF Crossed, CrossedIn
  <2>2. \A j \in DOMAIN Stream'.slots : SlotOK(Stream, j)'
    BY <1>2, <1>4
  <2>3. Stream'.emit => DOMAIN Stream'.response.calls = {}
    BY <1>2
  <2>4. QED
    BY <1>2, <2>1, <2>2, <2>3 DEF StreamOK
<1>6. QED
  BY <1>3, <1>5

\* The slots of a batch are complete, and not surfaced before.
LEMMA BatchIs ==
    ASSUME ToolInv
    PROVE  /\ \A i \in Batch(tools) : i \in DOMAIN tools.slots /\ Completed(tools.slots[i])
           /\ \A i \in DOMAIN tools.slots :
                Completed(tools.slots[i]) /\ i \in VisibleSlots(tools) =>
                  i \in told \/ i \in Batch(tools)
<1>1. tools.slots \in Seq(ToolSlot)
  BY DEF ToolInv, ToolTypeOK
<1>2. \A i, j \in DOMAIN tools.slots : i = 1 => i <= j
  BY <1>1
<1>3. \A i \in Batch(tools) : i \in Unseen(tools)
  BY DEF Batch, Least
<1>4. \A i \in Unseen(tools) : i \in DOMAIN tools.slots /\ Completed(tools.slots[i])
  BY DEF Unseen
<1>5. ASSUME NEW i \in DOMAIN tools.slots, Completed(tools.slots[i]),
             i \in VisibleSlots(tools), i \notin told
      PROVE  i \in Batch(tools)
  <2>1. i \in Unseen(tools)
    BY <1>5 DEF Unseen
  <2>2. serial => i = 1
    BY <1>5 DEF VisibleSlots
  <2>3. QED
    BY <1>2, <1>4, <2>1, <2>2 DEF Batch, Least
<1>6. QED
  BY <1>3, <1>4, <1>5

\* The hold that ends a response keeps the invariant.
LEMMA SurfaceKeeps ==
    ASSUME ToolInv, Surface
    PROVE  ToolInv'
<1> DEFINE texts == [i \in Batch(tools) |-> tools.slots[i].call]
           q == AccFinish(AccComplete(response, texts))
<1>1. /\ stage = "running" /\ Settled /\ response' = q
      /\ told' = told \cup Batch(tools) /\ stage' = "parked"
      /\ made' = made /\ serial' = serial /\ tools' = tools /\ heldCalls' = heldCalls
      /\ resultOf' = resultOf /\ rounds' = rounds /\ frames' = frames
  BY DEF Surface, SurfacedTo
<1>2. StreamOK(Stream) /\ TypedStream(Stream)
  BY <1>1 DEF ToolInv, Live
<1>3. /\ Stream.slots = tools.slots /\ Stream.aliases = tools.aliases
      /\ Stream.response = response /\ Stream.emit = TRUE /\ Stream.bad = FALSE
  BY <1>1, StreamIs
<1>4. ASSUME NEW j \in DOMAIN tools.slots
      PROVE  LET s == tools.slots[j] IN
             /\ s.started
             /\ s.emittedStart =>
                  j \in VisibleSlots(tools) /\ Completed(s) /\ s.emitted = s.call
             /\ ~s.emittedStart => s.emitted = NoText
  <2>1. SlotOK(Stream, j)
    BY <1>2, <1>3 DEF StreamOK
  <2>2. VisibleSlots(Stream) = VisibleSlots(tools)
    BY <1>3 DEF VisibleSlots
  <2>3. j \in VisibleSlots(tools) /\ tools.slots[j].started => Completed(tools.slots[j])
    BY <1>1 DEF Settled, Dangling
  <2>4. QED
    BY <1>3, <2>1, <2>2, <2>3 DEF SlotOK, Weak
<1>5. AllSaid
  BY <1>4 DEF AllSaid
<1>6. ASSUME NEW i \in DOMAIN response.calls
      PROVE  /\ i \in DOMAIN tools.slots /\ i \in VisibleSlots(tools)
             /\ ~response.calls[i].done
             /\ response.calls[i].text = tools.slots[i].call
             /\ response.client[i] = tools.slots[i].call
             /\ Completed(tools.slots[i])
             /\ i \in told => Crossed
  <2>1. CallOK(Stream, i)
    BY <1>2, <1>3 DEF StreamOK
  <2>2. /\ i \in DOMAIN tools.slots /\ tools.slots[i].emittedStart
        /\ ~response.calls[i].done
        /\ response.calls[i].text = tools.slots[i].emitted
        /\ response.client[i] = tools.slots[i].emitted
        /\ i \in told => Crossed
    BY <1>3, <2>1 DEF CallOK, Crossed, CrossedIn
  <2>3. QED
    BY <1>4, <2>2
<1>7. /\ IsResponse(response) /\ DOMAIN response.client = DOMAIN response.calls
      /\ ~response.broken
  BY <1>2, <1>3 DEF TypedStream, StreamOK
<1>8. /\ \A i \in Batch(tools) : i \in DOMAIN tools.slots /\ Completed(tools.slots[i])
      /\ \A i \in DOMAIN tools.slots :
           Completed(tools.slots[i]) /\ i \in VisibleSlots(tools) =>
             i \in told \/ i \in Batch(tools)
  BY BatchIs
<1>9. DOMAIN texts = Batch(tools) /\ \A i \in Batch(tools) : texts[i] = tools.slots[i].call
  OBVIOUS
<1> HIDE DEF texts
<1>10. Agreeing(response, texts)
  <2>1. \A i \in Batch(tools) : tools.slots[i].call \in ArgTexts
    BY <1>2, <1>3, <1>8, SlotFields
  <2>2. QED
    BY <1>6, <1>7, <1>9, <2>1 DEF Agreeing
<1>11. /\ IsResponse(q)
       /\ DOMAIN q.calls = DOMAIN response.calls \cup Batch(tools)
       /\ DOMAIN q.client = DOMAIN response.calls \cup Batch(tools)
       /\ \A i \in Batch(tools) : q.client[i] = tools.slots[i].call
       /\ \A i \in DOMAIN response.calls \ Batch(tools) : q.client[i] = response.client[i]
       /\ q.broken => response.broken \/ \E i \in DOMAIN response.calls : i \notin Batch(tools)
  <2>1. LET p == AccFinish(AccComplete(response, texts)) IN
        /\ IsResponse(p)
        /\ DOMAIN p.calls = DOMAIN response.calls \cup DOMAIN texts
        /\ DOMAIN p.client = DOMAIN response.calls \cup DOMAIN texts
        /\ \A i \in DOMAIN texts : p.client[i] = texts[i]
        /\ \A i \in DOMAIN response.calls \ DOMAIN texts : p.client[i] = response.client[i]
        /\ p.broken => response.broken \/ \E i \in DOMAIN response.calls : i \notin DOMAIN texts
    BY <1>10, SurfacedIs
  <2>2. QED
    BY <1>9, <2>1
<1> HIDE DEF q
<1>12. ASSUME NEW i \in DOMAIN response.calls, i \notin Batch(tools)
       PROVE  i \in told /\ Crossed
  BY <1>6, <1>8, <1>12
<1>13. q.broken => Crossed
  BY <1>7, <1>11, <1>12
<1>14. Silent /\ Live' /\ Live
  BY <1>1 DEF Silent, Live
<1>15. TypedStream(Stream)' /\ StreamOK(Stream)'
  <2>1. /\ IsResponse(response') /\ DOMAIN response'.client = DOMAIN response'.calls
        /\ response'.broken => Crossed /\ stage' # "running"
        /\ stage' = "running" => DOMAIN response'.calls = {}
    BY <1>1, <1>11, <1>13
  <2>2. QED
    BY <1>5, <1>14, <2>1, StreamSaid
<1>16. ClientHasTheCalls'
  <2> SUFFICES ASSUME NEW i \in DOMAIN q.client
               PROVE  i \in told' /\ q.client[i] = tools.slots[i].call
    BY <1>1 DEF ClientHasTheCalls
  <2>1. CASE i \in Batch(tools)
    BY <1>1, <1>11, <2>1
  <2>2. CASE i \notin Batch(tools)
    BY <1>1, <1>6, <1>11, <1>12, <2>2
  <2>3. QED
    BY <2>1, <2>2
<1>17. StreamNeverBreaks'
  BY <1>1, <1>13 DEF StreamNeverBreaks, Crossed
<1>18. ToldAreCompleted' /\ told' \subseteq DOMAIN tools'.slots
  BY <1>1, <1>8 DEF ToolInv, ToolTypeOK, ToldAreCompleted
<1>19. ResultsAreRight'
  BY <1>1 DEF ToolInv, ResultsAreRight
<1>20. ToolTypeOK'
  <2>1. heldCalls' \subseteq Ids
    BY <1>14, SilentKeeps
  <2>2. QED
    BY <1>1, <1>18, <2>1 DEF ToolInv, ToolTypeOK
<1>21. QED
  BY <1>14, <1>15, <1>16, <1>17, <1>18, <1>19, <1>20, SilentKeeps DEF ToolInv

\* The results that go out are those of the calls of their execs.
LEMMA AnswersAreRight ==
    ASSUME ToolInv, NEW i \in told, NEW e \in Answers(i)
    PROVE  /\ e \in Ids /\ made[e[2]].exec = e
           /\ i \in DOMAIN tools.slots /\ Completed(tools.slots[i])
           /\ tools.slots[i].call[2] = made[e[2]].value
<1>1. e = tools.slots[i].exec /\ e \in heldCalls
  BY DEF Answers
<1>2. i \in DOMAIN tools.slots /\ Completed(tools.slots[i])
  BY DEF ToolInv, ToolTypeOK, ToldAreCompleted
<1>3. e \in Ids /\ e # <<>>
  BY <1>1, IdIs DEF ToolInv, ToolTypeOK
<1>4. QED
  BY <1>1, <1>2, <1>3 DEF ToolInv, ExecsOfSlots

\* A resume keeps the invariant, with and without calls to surface.
LEMMA ResumeKeeps ==
    ASSUME ToolInv, ResumeWithResults
    PROVE  ToolInv'
<1>1. /\ stage \in {"parked", "ended"} /\ rounds < MaxResponses /\ rounds' = rounds + 1
      /\ heldCalls' \subseteq heldCalls
      /\ resultOf' = resultOf \cup UNION {Answers(i) \X {i} : i \in told}
      /\ made' = made /\ serial' = serial /\ tools' = tools /\ frames' = frames
  BY DEF ResumeWithResults
<1>2. /\ stage' \in {"parked", "ended", "done", "running", "failed"}
      /\ stage = "ended" => stage' \in {"ended", "done", "failed"}
      /\ stage' = "running" => response' = NoCalls
  BY <1>1 DEF ResumeWithResults
<1>3. Silent
  BY <1>1, <1>2 DEF Silent, Live
<1> DEFINE texts == [i \in Batch(tools) |-> tools.slots[i].call]
           q == AccFinish(AccComplete(NoCalls, texts))
<1>4. /\ \A i \in Batch(tools) : i \in DOMAIN tools.slots /\ Completed(tools.slots[i])
  BY BatchIs
<1>5. /\ DOMAIN NoCalls.calls = {} /\ DOMAIN NoCalls.client = {} /\ ~NoCalls.broken
      /\ IsResponse(NoCalls)
  BY DEF NoCalls, IsResponse
<1>6. /\ Stream.slots = tools.slots /\ TypedStream(Stream)
  BY StreamIs DEF ToolInv
<1>7. DOMAIN texts = Batch(tools) /\ \A i \in Batch(tools) : texts[i] = tools.slots[i].call
  OBVIOUS
<1> HIDE DEF texts
<1>8. Agreeing(NoCalls, texts)
  <2>1. \A i \in Batch(tools) : tools.slots[i].call \in ArgTexts
    BY <1>4, <1>6, SlotFields
  <2>2. QED
    BY <1>5, <1>7, <2>1 DEF Agreeing
<1>9. /\ IsResponse(q) /\ ~q.broken
      /\ DOMAIN q.calls = Batch(tools) /\ DOMAIN q.client = Batch(tools)
      /\ \A i \in Batch(tools) : q.client[i] = tools.slots[i].call
  <2>1. LET p == AccFinish(AccComplete(NoCalls, texts)) IN
        /\ IsResponse(p)
        /\ DOMAIN p.calls = DOMAIN NoCalls.calls \cup DOMAIN texts
        /\ DOMAIN p.client = DOMAIN NoCalls.calls \cup DOMAIN texts
        /\ \A i \in DOMAIN texts : p.client[i] = texts[i]
        /\ p.broken => NoCalls.broken \/ \E i \in DOMAIN NoCalls.calls : i \notin DOMAIN texts
    BY <1>8, SurfacedIs
  <2>2. QED
    BY <1>5, <1>7, <2>1
<1>10. \/ /\ response' = q /\ told' = told \cup Batch(tools)
          /\ stage' \in {stage, "done"}
       \/ /\ response' = NoCalls /\ told' = told
          /\ stage' \in {"failed", "running"}
  BY DEF ResumeWithResults, SurfacedTo, texts
<1> HIDE DEF q
<1>11. /\ IsResponse(response') /\ DOMAIN response'.client = DOMAIN response'.calls
       /\ ~response'.broken
       /\ stage' = "running" => DOMAIN response'.calls = {}
  <2>1. CASE response' = NoCalls
    BY <1>5, <2>1
  <2>2. CASE response' = q /\ stage' # "running"
    BY <1>9, <2>2
  <2>3. stage # "running"
    BY <1>1
  <2>4. QED
    BY <1>10, <2>1, <2>2, <2>3
<1>12. TypedStream(Stream)' /\ (Live' => StreamOK(Stream)')
  <2>1. CASE stage = "parked"
    <3>1. StreamOK(Stream) /\ Stream.emit = FALSE /\ Stream.bad = FALSE
      BY <2>1, StreamIs DEF ToolInv, Live
    <3>2. ASSUME NEW j \in DOMAIN tools.slots
          PROVE  LET s == tools.slots[j] IN
                 /\ s.started
                 /\ s.emittedStart =>
                      j \in VisibleSlots(tools) /\ Completed(s) /\ s.emitted = s.call
                 /\ ~s.emittedStart => s.emitted = NoText
      <4>1. SlotOK(Stream, j)
        BY <1>6, <3>1 DEF StreamOK
      <4>2. VisibleSlots(Stream) = VisibleSlots(tools)
        BY <1>6 DEF VisibleSlots
      <4>3. QED
        BY <1>6, <3>1, <4>1, <4>2 DEF SlotOK, Weak
    <3>3. AllSaid
      BY <3>2 DEF AllSaid
    <3>4. QED
      BY <1>3, <1>11, <3>3, StreamSaid
  <2>2. CASE stage = "ended"
    <3>1. ~Live'
      BY <1>2, <2>2 DEF Live
    <3>2. Stream' = [slots |-> tools.slots, aliases |-> tools.aliases, response |-> response',
                     emit |-> (stage' = "running"), bad |-> FALSE]
      BY <1>1 DEF Stream
    <3>3. /\ tools.slots \in Seq(ToolSlot) /\ DOMAIN tools.aliases \subseteq Ids
          /\ \A a \in DOMAIN tools.aliases : tools.aliases[a] \in DOMAIN tools.slots
      BY <1>6, StreamIs DEF TypedStream
    <3>4. /\ Stream'.slots = tools.slots /\ Stream'.aliases = tools.aliases
          /\ Stream'.response = response' /\ Stream'.emit = (stage' = "running")
          /\ Stream'.bad = FALSE
      BY <3>2
    <3>5. IsResponse(Stream.response)'
      BY <1>11, <3>4 DEF IsResponse
    <3>6. TypedStream(Stream)'
      BY <3>2, <3>3, <3>4, <3>5 DEF TypedStream
    <3>7. QED
      BY <3>1, <3>6
  <2>3. QED
    BY <1>1, <2>1, <2>2
<1>13. ClientHasTheCalls'
  <2> SUFFICES ASSUME stage' = "parked"
               PROVE  /\ DOMAIN response'.client \subseteq told'
                      /\ \A i \in DOMAIN response'.client :
                           response'.client[i] = tools.slots[i].call
    BY <1>1 DEF ClientHasTheCalls
  <2>1. response' = q /\ told' = told \cup Batch(tools)
    BY <1>10
  <2>2. QED
    BY <1>9, <2>1
<1>14. StreamNeverBreaks'
  BY <1>11 DEF StreamNeverBreaks
<1>15. ToldAreCompleted' /\ told' \subseteq DOMAIN tools'.slots
  <2>1. \A i \in told : i \in DOMAIN tools.slots /\ Completed(tools.slots[i])
    BY DEF ToolInv, ToolTypeOK, ToldAreCompleted
  <2>2. told' \subseteq told \cup Batch(tools)
    BY <1>10
  <2>3. \A i \in told' : i \in DOMAIN tools.slots /\ Completed(tools.slots[i])
    BY <1>4, <2>1, <2>2
  <2>4. QED
    BY <1>1, <2>3 DEF ToldAreCompleted
<1>16. ResultsAreRight'
  <2> SUFFICES ASSUME NEW p \in resultOf'
               PROVE  /\ p[1] \in Ids /\ made[p[1][2]].exec = p[1]
                      /\ p[2] \in DOMAIN tools.slots
                      /\ Completed(tools.slots[p[2]])
                      /\ tools.slots[p[2]].call[2] = made[p[1][2]].value
    BY <1>1 DEF ResultsAreRight
  <2>1. CASE p \in resultOf
    BY <2>1 DEF ToolInv, ResultsAreRight
  <2>2. CASE p \notin resultOf
    <3>1. PICK i \in told : p \in Answers(i) \X {i}
      BY <1>1, <2>2
    <3>2. p[1] \in Answers(i) /\ p[2] = i
      BY <3>1
    <3>3. QED
      BY <3>2, AnswersAreRight
  <2>3. QED
    BY <2>1, <2>2
<1>17. ToolTypeOK'
  <2>1. heldCalls' \subseteq Ids
    BY <1>3, SilentKeeps
  <2>2. rounds' \in 1..MaxResponses
    BY <1>1, ToolStreamAssumption DEF ToolInv, ToolTypeOK
  <2>3. QED
    BY <1>1, <1>2, <1>15, <2>1, <2>2 DEF ToolInv, ToolTypeOK
<1>18. QED
  BY <1>3, <1>12, <1>13, <1>14, <1>15, <1>16, <1>17, SilentKeeps DEF ToolInv

-----------------------------------------------------------------------------

\* A new Run is in order.
LEMMA ToolInitKeeps == ToolInit => ToolInv
<1> SUFFICES ASSUME ToolInit PROVE ToolInv
  OBVIOUS
<1>1. /\ tools.slots = <<>> /\ tools.aliases = <<>>
      /\ heldCalls = {} /\ resultOf = {} /\ told = {} /\ response = NoCalls
      /\ stage = "running" /\ rounds = 1 /\ frames = 0
  BY DEF ToolInit
<1>2. DOMAIN tools.slots = {} /\ DOMAIN tools.aliases = {} /\ tools.slots \in Seq(ToolSlot)
  BY <1>1
<1>3. /\ DOMAIN NoCalls.calls = {} /\ DOMAIN NoCalls.client = {} /\ ~NoCalls.broken
      /\ IsResponse(NoCalls)
  BY DEF NoCalls, IsResponse
<1>4. MadeType
  <2> DEFINE A == [value : ArgValues, opening : Openings, said : {0},
                   completed : {FALSE}, exec : {<<>>}]
             B == [value : ArgValues, opening : Openings, said : 0..2,
                   completed : BOOLEAN, exec : Ids \cup {<<>>}]
  <2>1. made \in [UpstreamCalls -> A]
    BY DEF ToolInit
  <2>2. ASSUME NEW m \in A PROVE m \in B
    <3>1. /\ m = [value |-> m.value, opening |-> m.opening, said |-> m.said,
                  completed |-> m.completed, exec |-> m.exec]
          /\ m.value \in ArgValues /\ m.opening \in Openings /\ m.said = 0
          /\ m.completed = FALSE /\ m.exec = <<>>
      OBVIOUS
    <3>2. 0 \in 0..2 /\ <<>> \in Ids \cup {<<>>} /\ FALSE \in BOOLEAN
      OBVIOUS
    <3>3. QED
      BY <3>1, <3>2
  <2> HIDE DEF A, B
  <2>3. made \in [UpstreamCalls -> B]
    BY <2>1, <2>2
  <2>4. QED
    BY <2>3 DEF MadeType, B
<1>5. \A k \in UpstreamCalls : made[k].exec = <<>>
  BY DEF ToolInit
<1>6. CallsMade
  BY <1>5 DEF CallsMade
<1>7. ToolTypeOK
  BY <1>1, <1>2, ToolStreamAssumption DEF ToolTypeOK
<1>8. HeldAreExecs /\ SlotsAreFinished /\ ToldAreCompleted /\ ExecsOfSlots /\ ResultsAreRight
  BY <1>1, <1>2 DEF HeldAreExecs, SlotsAreFinished, ToldAreCompleted, ExecsOfSlots, ResultsAreRight
<1>9. StreamNeverBreaks /\ ClientHasTheCalls /\ ExecsHaveASlot
  BY <1>1, <1>3 DEF StreamNeverBreaks, ClientHasTheCalls, ExecsHaveASlot
<1>10. /\ Stream.slots = tools.slots /\ Stream.aliases = tools.aliases
       /\ Stream.response = NoCalls /\ Stream.emit = TRUE /\ Stream.bad = FALSE
  BY <1>1, StreamIs
<1>11. TypedStream(Stream)
  <2>1. Stream = [slots |-> Stream.slots, aliases |-> Stream.aliases,
                  response |-> Stream.response, emit |-> Stream.emit, bad |-> Stream.bad]
    BY DEF Stream
  <2>2. QED
    BY <1>2, <1>3, <1>10, <2>1 DEF TypedStream
<1>12. StreamOK(Stream)
  BY <1>2, <1>3, <1>10 DEF StreamOK
<1>13. QED
  BY <1>4, <1>6, <1>7, <1>8, <1>9, <1>11, <1>12 DEF ToolInv

\* The invariant is about the variables of the Run.
LEMMA ToolStutterKeeps == ToolInv /\ UNCHANGED toolVars => ToolInv'
<1> SUFFICES ASSUME ToolInv, UNCHANGED toolVars PROVE ToolInv'
  OBVIOUS
<1>1. /\ made' = made /\ serial' = serial /\ tools' = tools /\ heldCalls' = heldCalls
      /\ resultOf' = resultOf /\ told' = told /\ response' = response /\ stage' = stage
      /\ rounds' = rounds /\ frames' = frames
  BY DEF toolVars
<1>2. Silent
  BY <1>1 DEF Silent, Live
<1>3. Stream' = Stream
  BY <1>1 DEF Stream
<1>4. TypedStream(Stream)'
  BY <1>3 DEF ToolInv, TypedStream, IsResponse
<1>5. \A j : SlotOK(Stream, j)' <=> SlotOK(Stream, j)
  BY <1>1, <1>3 DEF SlotOK, Weak, VisibleSlots
<1>6. \A j : CallOK(Stream, j)' <=> CallOK(Stream, j)
  BY <1>1, <1>3 DEF CallOK
<1>7. Live' => StreamOK(Stream)'
  BY <1>1, <1>3, <1>5, <1>6 DEF ToolInv, Live, StreamOK
<1>8. ToolTypeOK' /\ ToldAreCompleted' /\ ResultsAreRight'
  BY <1>1 DEF ToolInv, ToolTypeOK, ToldAreCompleted, ResultsAreRight
<1>9. StreamNeverBreaks' /\ ClientHasTheCalls'
  BY <1>1 DEF ToolInv, StreamNeverBreaks, Crossed, ClientHasTheCalls
<1>10. QED
  BY <1>2, <1>4, <1>7, <1>8, <1>9, SilentKeeps DEF ToolInv

\* Every step keeps the invariant.
LEMMA ToolStepKeeps == ToolInv /\ [ToolNext]_toolVars => ToolInv'
<1> SUFFICES ASSUME ToolInv, [ToolNext]_toolVars PROVE ToolInv'
  OBVIOUS
<1>1. ASSUME NEW k \in UpstreamCalls, CallStarted(k) PROVE ToolInv'
  BY <1>1, StartKeeps
<1>2. ASSUME NEW k \in UpstreamCalls, PartialCall(k) PROVE ToolInv'
  BY <1>2, PartialKeeps
<1>3. ASSUME NEW k \in UpstreamCalls, CallCompleted(k) PROVE ToolInv'
  BY <1>3, CompletedKeeps
<1>4. ASSUME NEW k \in UpstreamCalls, CallExec(k) PROVE ToolInv'
  BY <1>4, ExecKeeps
<1>5. CASE Surface
  BY <1>5, SurfaceKeeps
<1>6. CASE ResumeWithResults
  BY <1>6, ResumeKeeps
<1>7. CASE UNCHANGED toolVars
  BY <1>7, ToolStutterKeeps
<1>8. QED
  BY <1>1, <1>2, <1>3, <1>4, <1>5, <1>6, <1>7 DEF ToolNext

\* The invariant says what was promised.
LEMMA ToolInvIsSound == ToolInv => ToolStreamSound
<1> SUFFICES ASSUME ToolInv PROVE ToolStreamSound
  OBVIOUS
<1>1. ASSUME NEW p \in resultOf
      PROVE  \E k \in UpstreamCalls :
               made[k].exec = p[1] /\ made[k].value = tools.slots[p[2]].call[2]
  <2>1. /\ p[1] \in Ids /\ made[p[1][2]].exec = p[1]
        /\ tools.slots[p[2]].call[2] = made[p[1][2]].value
    BY DEF ToolInv, ResultsAreRight
  <2>2. p[1][2] \in UpstreamCalls
    BY <2>1, IdIs
  <2>3. QED
    BY <2>1, <2>2
<1>2. QED
  BY <1>1 DEF ToolInv, ToolStreamSound, ResultsGoToTheirExec

(* Over the responses of a Run, with frames that drift, interleave and     *)
(* arrive while it is parked: the deltas never break the response unless  *)
(* an exec was taken for another call, a client of a response that finished*)
(* has exactly its calls and their arguments, and every result goes to an  *)
(* exec that waits for those arguments (tool-stream.ts, validated-run.ts,  *)
(* openai-tool-stream.ts).                                                 *)
THEOREM NoCallIsLostOrMixedUp == ToolSpec => []ToolStreamSound
<1>1. ToolInit => ToolInv
  BY ToolInitKeeps
<1>2. ToolInv /\ [ToolNext]_toolVars => ToolInv'
  BY ToolStepKeeps
<1>3. ToolInv => ToolStreamSound
  BY ToolInvIsSound
<1>4. QED
  BY <1>1, <1>2, <1>3, PTL DEF ToolSpec
=============================================================================
