--------------------------- MODULE EditSpliceProofs ---------------------------
(***************************************************************************)
(* What applyEdits keeps true of any text and any edits of it: its types,  *)
(* that the edits it keeps are disjoint and none is kept twice, and, when  *)
(* they are tidy, that the text before every edit still to be spliced is   *)
(* HEAD's, so that no splice runs past the end of the buffer; that the     *)
(* text ends as HEAD's does; that a splice removes and adds just the       *)
(* tokens of its edit; and that in the end HEAD's text has every kept edit *)
(* carried out in its place.                                               *)
(*                                                                         *)
(* The offsets and the end of the text rest on two facts about newlines.   *)
(* A splice trims no more than the newlines that end the text before it,   *)
(* and a tidy range ends in something else: so the trimming stops at the   *)
(* nearest range before the splice, which is why its end is still the      *)
(* offset it was in HEAD.  The counts rest on what is trimmed and padded   *)
(* being newlines only.                                                    *)
(*                                                                         *)
(* Order is counting, too: a token stands before a place when a prefix     *)
(* that ends there has it.  So a text is described by its cuts, what its   *)
(* prefixes hold, which trimming and padding do not change.  A splice adds *)
(* cuts inside its text and keeps those before and after (Gathered,        *)
(* Progress).                                                              *)
(***************************************************************************)
EXTENDS EditSplice, SequenceTheorems, FiniteSetTheorems, FunctionTheorems,
        WellFoundedInduction, TLAPS

-----------------------------------------------------------------------------
(* Texts. *)

\* A set of naturals that has an element has a least one.
LEMMA LeastNat ==
  ASSUME NEW T, T \subseteq Nat, T # {}
  PROVE  \E x \in T : \A y \in T : x <= y
<1>1. PICK x \in T : \A y \in T : ~ (<<y, x>> \in OpToRel(<, Nat))
  BY NatLessThanWellFounded, WFMin, Zenon
<1>2. \A y \in T : ~ (y < x)
  BY <1>1 DEF OpToRel
<1> QED BY <1>2

\* s[:n] and s[n:] are texts, and hold what s holds.
LEMMA TakeText ==
  ASSUME NEW S, NEW s \in Seq(S), NEW n \in 0..Len(s)
  PROVE  /\ Take(s, n) \in Seq(S)
         /\ Len(Take(s, n)) = n
         /\ \A i \in 1..n : Take(s, n)[i] = s[i]
<1>1. \A i \in 1..n : s[i] \in S
  BY ElementOfSeq
<1> QED BY <1>1, SubSeqProperties DEF Take

LEMMA DropText ==
  ASSUME NEW S, NEW s \in Seq(S), NEW n \in 0..Len(s)
  PROVE  /\ Drop(s, n) \in Seq(S)
         /\ Len(Drop(s, n)) = Len(s) - n
<1>1. \A i \in (n + 1)..Len(s) : s[i] \in S
  BY ElementOfSeq
<1>2. n + 1 \in Int /\ Len(s) \in Int
  BY LenProperties
<1> QED BY <1>1, <1>2, SubSeqProperties DEF Drop

\* TrimmedLen is where the newlines that end s begin.
LEMMA TrimmedLenFact ==
  ASSUME NEW S, NEW s \in Seq(S)
  PROVE  /\ TrimmedLen(s) \in 0..Len(s)
         /\ \A i \in (TrimmedLen(s) + 1)..Len(s) : s[i] = NL
         /\ TrimmedLen(s) = 0 \/ s[TrimmedLen(s)] # NL
<1> DEFINE T == {n \in 0..Len(s) : \A i \in (n + 1)..Len(s) : s[i] = NL}
<1>1. Len(s) \in T /\ T \subseteq Nat
  BY LenProperties
<1>2. PICK n \in T : \A m \in T : n <= m
  BY <1>1, LeastNat, Zenon
<1>3. n = 0 \/ s[n] # NL
  <2>1. SUFFICES ASSUME n # 0, s[n] = NL PROVE FALSE
    OBVIOUS
  <2>2. n - 1 \in 0..Len(s) /\ \A i \in ((n - 1) + 1)..Len(s) : s[i] = NL
    BY <2>1, <1>1, LenProperties
  <2>3. n - 1 \in T
    BY <2>2
  <2>4. n <= n - 1
    BY <2>3, <1>2, Zenon
  <2> QED BY <2>4, LenProperties
<1>4. \E k \in 0..Len(s) : /\ \A i \in (k + 1)..Len(s) : s[i] = NL
                           /\ k = 0 \/ s[k] # NL
  BY <1>3
<1> QED BY <1>4 DEF TrimmedLen

\* BlankLen is where the newlines that begin s end.
LEMMA BlankLenFact ==
  ASSUME NEW S, NEW s \in Seq(S)
  PROVE  BlankLen(s) \in 0..Len(s) /\ \A i \in 1..BlankLen(s) : s[i] = NL
<1> DEFINE T == {n \in 0..Len(s) : n = Len(s) \/ s[n + 1] # NL}
<1>1. Len(s) \in T /\ T \subseteq Nat
  BY LenProperties
<1>2. PICK n \in T : \A m \in T : n <= m
  BY <1>1, LeastNat, Zenon
<1>3. ASSUME NEW i \in 1..n PROVE s[i] = NL
  <2>1. i - 1 \in 0..Len(s) /\ i - 1 < n /\ (i - 1) + 1 = i
    BY <1>1, LenProperties
  <2>2. i - 1 \in T => n <= i - 1
    BY <1>2, Zenon
  <2>3. i - 1 \notin T
    <3> HIDE DEF T
    <3> QED BY <2>1, <2>2, <1>1
  <2> QED BY <2>1, <2>3
<1>4. \E k \in 0..Len(s) : /\ \A i \in 1..k : s[i] = NL
                           /\ k = Len(s) \/ s[k + 1] # NL
  BY <1>2, <1>3
<1> QED BY <1>4 DEF BlankLen

\* A prefix of a text is a prefix of what follows it joined to it.
Agrees(s, t, n) == n <= Len(s) /\ n <= Len(t) /\ \A i \in 1..n : s[i] = t[i]

LEMMA TrimRightText ==
  ASSUME NEW S, NEW s \in Seq(S)
  PROVE  TrimRight(s) \in Seq(S)
  BY TrimmedLenFact, TakeText DEF TrimRight

LEMMA TrimLeftText ==
  ASSUME NEW S, NEW s \in Seq(S)
  PROVE  TrimLeft(s) \in Seq(S)
  BY BlankLenFact, DropText DEF TrimLeft

\* Trimming a text whose n-th token is no newline leaves its first n tokens.
LEMMA TrimRightAgrees ==
  ASSUME NEW S, NEW s \in Seq(S), NEW n \in 1..Len(s), s[n] # NL
  PROVE  Agrees(TrimRight(s), s, n)
<1>1. n <= TrimmedLen(s)
  BY TrimmedLenFact, LenProperties
<1>2. TrimmedLen(s) \in 0..Len(s) /\ TrimmedLen(s) \in Nat
  BY TrimmedLenFact, LenProperties
<1>3. /\ Len(TrimRight(s)) = TrimmedLen(s)
      /\ \A i \in 1..TrimmedLen(s) : TrimRight(s)[i] = s[i]
  BY <1>2, TakeText DEF TrimRight
<1> QED BY <1>1, <1>2, <1>3, LenProperties DEF Agrees

LEMMA NewlinesText ==
  ASSUME NEW n \in Nat
  PROVE  Newlines(n) \in Seq(Tokens)
<1>1. Newlines(n) \in [1..n -> Tokens]
  BY TokensAssumption DEF Newlines
<1> QED BY <1>1, SMT

\* What EndLike and JoinWithSeparator make of texts is a text.
LEMMA EndLikeText ==
  ASSUME NEW s \in Seq(Tokens), NEW t \in Seq(Tokens)
  PROVE  EndLike(s, t) \in Seq(Tokens)
  BY TrimRightText, AppendProperties, TokensAssumption DEF EndLike

LEMMA JoinText ==
  ASSUME NEW a \in Seq(Tokens), NEW b \in Seq(Tokens), NEW gap \in Nat
  PROVE  JoinWithSeparator(a, b, gap) \in Seq(Tokens)
<1>1. TrimRight(a) \in Seq(Tokens) /\ TrimLeft(b) \in Seq(Tokens)
  BY TrimRightText, TrimLeftText
<1>2. TrimRight(a) \o Newlines(gap) \in Seq(Tokens)
  BY <1>1, NewlinesText, ConcatProperties
<1>3. TrimRight(a) \o Newlines(gap) \o TrimLeft(b) \in Seq(Tokens)
  BY <1>1, <1>2, ConcatProperties
<1> QED BY <1>1, <1>3 DEF JoinWithSeparator

LEMMA WiderGapNat ==
  ASSUME NEW member \in BOOLEAN, NEW gap \in Nat
  PROVE  WiderGap(member, gap) \in Nat
  BY DEF WiderGap

\* Nor do they disturb the tokens before the newlines that end their first
\* text.
LEMMA EndLikeAgrees ==
  ASSUME NEW s \in Seq(Tokens), NEW t \in Seq(Tokens),
         NEW n \in 1..Len(s), s[n] # NL
  PROVE  Agrees(EndLike(s, t), s, n)
<1>1. Agrees(TrimRight(s), s, n) /\ TrimRight(s) \in Seq(Tokens)
  BY TrimRightAgrees, TrimRightText
<1>2. Agrees(Append(TrimRight(s), NL), s, n)
  BY <1>1, AppendProperties, TokensAssumption, LenProperties DEF Agrees
<1> QED BY <1>1, <1>2 DEF EndLike

LEMMA ConcatAgrees ==
  ASSUME NEW S, NEW x \in Seq(S), NEW y \in Seq(S), NEW s, NEW n \in Nat,
         Agrees(x, s, n)
  PROVE  Agrees(x \o y, s, n)
<1>1. /\ Len(x \o y) = Len(x) + Len(y)
      /\ \A i \in 1..(Len(x) + Len(y)) :
           (x \o y)[i] = IF i <= Len(x) THEN x[i] ELSE y[i - Len(x)]
  BY ConcatProperties
<1>2. Len(x) \in Nat /\ Len(y) \in Nat
  BY LenProperties
<1> QED BY <1>1, <1>2 DEF Agrees

LEMMA JoinAgrees ==
  ASSUME NEW a \in Seq(Tokens), NEW b \in Seq(Tokens), NEW gap \in Nat,
         NEW n \in 1..Len(a), a[n] # NL
  PROVE  Agrees(JoinWithSeparator(a, b, gap), a, n)
<1> DEFINE x == TrimRight(a)
           y == TrimLeft(b)
<1>1. Agrees(x, a, n) /\ x \in Seq(Tokens) /\ y \in Seq(Tokens)
  BY TrimRightAgrees, TrimRightText, TrimLeftText
<1>2. Len(x) # 0
  BY <1>1, LenProperties DEF Agrees
<1>3. Newlines(gap) \in Seq(Tokens) /\ x \o Newlines(gap) \in Seq(Tokens)
  BY <1>1, NewlinesText, ConcatProperties
<1>4. n \in Nat
  BY LenProperties
<1>5. Agrees(x \o Newlines(gap), a, n)
  BY <1>1, <1>3, <1>4, ConcatAgrees
<1>6. Agrees(x \o Newlines(gap) \o y, a, n)
  BY <1>1, <1>3, <1>4, <1>5, ConcatAgrees
<1> QED BY <1>1, <1>2, <1>6 DEF JoinWithSeparator

-----------------------------------------------------------------------------
(* The splices. *)

\* The fields of an edit of head have their types.
LEMMA OpFields ==
  ASSUME head \in Seq(Tokens), NEW o \in OpOf(head)
  PROVE  /\ o.kind \in Kinds
         /\ o.start \in Nat /\ o.end \in Nat
         /\ o.start <= Len(head) /\ o.end <= Len(head)
         /\ o.text \in Seq(Tokens)
         /\ o.member \in BOOLEAN /\ o.lead \in Nat /\ o.trail \in Nat
         /\ o.kind # "insert" => o.start < o.end
<1>1. 0..Len(head) \subseteq Nat
  BY LenProperties
<1> QED BY <1>1, LenProperties DEF OpOf

\* A splice within the buffer makes a text, and it leaves alone every token
\* before it and before the newlines it may trim.
LEMMA ReplaceFacts ==
  ASSUME NEW t \in Seq(Tokens), NEW o, o.text \in Seq(Tokens),
         o.start \in Nat, o.end \in Nat, o.start < o.end, o.end <= Len(t)
  PROVE  /\ SpliceReplace(t, o) \in Seq(Tokens)
         /\ \A n \in 1..o.start : Agrees(SpliceReplace(t, o), t, n)
<1>1. o.start \in 0..Len(t) /\ o.end \in 0..Len(t) /\ Len(t) \in Nat
  BY LenProperties
<1> DEFINE x == Take(t, o.start)
           y == Drop(t, o.end)
<1>2. /\ x \in Seq(Tokens) /\ y \in Seq(Tokens) /\ Len(x) = o.start
      /\ \A i \in 1..o.start : x[i] = t[i]
  BY <1>1, TakeText, DropText
<1>3. x \o o.text \in Seq(Tokens)
  BY <1>2, ConcatProperties
<1>4. x \o o.text \o y \in Seq(Tokens)
  BY <1>2, <1>3, ConcatProperties
<1>5. ASSUME NEW n \in 1..o.start PROVE Agrees(x \o o.text \o y, t, n)
  <2>1. Agrees(x, t, n) /\ n \in Nat
    BY <1>1, <1>2 DEF Agrees
  <2>2. Agrees(x \o o.text, t, n)
    BY <2>1, <1>2, ConcatAgrees
  <2> QED BY <2>1, <2>2, <1>2, <1>3, ConcatAgrees
<1> QED BY <1>4, <1>5 DEF SpliceReplace

LEMMA ExciseFacts ==
  ASSUME NEW t \in Seq(Tokens), NEW o,
         o.start \in Nat, o.end \in Nat, o.start < o.end, o.end <= Len(t)
  PROVE  /\ SpliceExcise(t, o) \in Seq(Tokens)
         /\ \A n \in 1..o.start : t[n] # NL => Agrees(SpliceExcise(t, o), t, n)
<1>1. o.start \in 0..Len(t) /\ o.end \in 0..Len(t) /\ Len(t) \in Nat
  BY LenProperties
<1> DEFINE prefix == Take(t, o.start)
           rest   == TrimLeft(Drop(t, o.end))
<1>2. /\ prefix \in Seq(Tokens) /\ Len(prefix) = o.start
      /\ \A i \in 1..o.start : prefix[i] = t[i]
  BY <1>1, TakeText
<1>3. rest \in Seq(Tokens)
  BY <1>1, DropText, TrimLeftText
<1>4. prefix \o rest \in Seq(Tokens)
  BY <1>2, <1>3, ConcatProperties
<1>5. EndLike(prefix, t) \in Seq(Tokens)
  BY <1>2, EndLikeText
<1>6. <<>> \in Seq(Tokens)
  BY EmptySeq
<1>7. ASSUME NEW n \in 1..o.start, t[n] # NL
      PROVE  Agrees(SpliceExcise(t, o), t, n)
  <2>1. Agrees(prefix, t, n) /\ n \in Nat
    BY <1>1, <1>2 DEF Agrees
  <2>2. Agrees(prefix \o rest, t, n)
    BY <2>1, <1>2, <1>3, ConcatAgrees
  <2>3. n \in 1..Len(prefix) /\ prefix[n] # NL
    BY <1>2, <1>7
  <2>4. Agrees(EndLike(prefix, t), t, n)
    <3>1. Agrees(EndLike(prefix, t), prefix, n)
      BY <2>3, <1>2, EndLikeAgrees
    <3> QED BY <3>1, <2>1 DEF Agrees
  <2>5. Len(TrimRight(prefix)) # 0
    <3>1. Agrees(TrimRight(prefix), prefix, n)
      BY <2>3, <1>2, TrimRightAgrees
    <3> QED BY <3>1 DEF Agrees
  <2> QED BY <2>2, <2>4, <2>5 DEF SpliceExcise
<1> QED BY <1>4, <1>5, <1>6, <1>7 DEF SpliceExcise

LEMMA InsertFacts ==
  ASSUME NEW t \in Seq(Tokens), NEW o, o.text \in Seq(Tokens),
         o.start \in Nat, o.member \in BOOLEAN, o.lead \in Nat, o.trail \in Nat
  PROVE  /\ SpliceInsert(t, o) \in Seq(Tokens)
         /\ \A n \in 1..o.start :
              n <= Len(t) /\ t[n] # NL => Agrees(SpliceInsert(t, o), t, n)
<1> DEFINE start == IF o.start < Len(t) THEN o.start ELSE Len(t)
           before == Take(t, start)
           rest  == Drop(t, start)
           lead  == WiderGap(o.member, o.lead)
           trail == WiderGap(o.member, o.trail)
           mid   == JoinWithSeparator(before, o.text, lead)
<1>1. start \in 0..Len(t) /\ Len(t) \in Nat
  BY LenProperties
<1>2. /\ before \in Seq(Tokens) /\ Len(before) = start
      /\ \A i \in 1..start : before[i] = t[i]
  BY <1>1, TakeText
<1>3. rest \in Seq(Tokens)
  BY <1>1, DropText
<1>4. lead \in Nat /\ trail \in Nat
  BY WiderGapNat
<1>5. mid \in Seq(Tokens)
  BY <1>2, <1>4, JoinText
<1>6. /\ EndLike(mid, t) \in Seq(Tokens)
      /\ JoinWithSeparator(mid, rest, trail) \in Seq(Tokens)
  BY <1>3, <1>4, <1>5, EndLikeText, JoinText
<1>7. ASSUME NEW n \in 1..o.start, n <= Len(t), t[n] # NL
      PROVE  Agrees(SpliceInsert(t, o), t, n)
  <2>1. n \in 1..Len(before) /\ before[n] # NL /\ Agrees(before, t, n)
    BY <1>1, <1>2, <1>7 DEF Agrees
  <2>2. Agrees(mid, before, n)
    BY <2>1, <1>2, <1>4, JoinAgrees
  <2>3. n \in 1..Len(mid) /\ mid[n] # NL
    BY <2>1, <2>2, <1>5, LenProperties DEF Agrees
  <2>4. Agrees(EndLike(mid, t), mid, n)
    BY <2>3, <1>5, EndLikeAgrees
  <2>5. Agrees(JoinWithSeparator(mid, rest, trail), mid, n)
    BY <2>3, <1>3, <1>4, <1>5, JoinAgrees
  <2>6. /\ Agrees(EndLike(mid, t), t, n)
        /\ Agrees(JoinWithSeparator(mid, rest, trail), t, n)
    BY <2>1, <2>2, <2>4, <2>5 DEF Agrees
  <2> QED BY <2>6 DEF SpliceInsert
<1> QED BY <1>6, <1>7 DEF SpliceInsert

LEMMA SplicedFacts ==
  ASSUME head \in Seq(Tokens), NEW t \in Seq(Tokens), NEW o \in OpOf(head),
         o.kind # "insert" => o.end <= Len(t)
  PROVE  /\ Spliced(t, o) \in Seq(Tokens)
         /\ \A n \in 1..o.start :
              n <= Len(t) /\ t[n] # NL => Agrees(Spliced(t, o), t, n)
<1>1. CASE o.kind = "replace"
  BY <1>1, OpFields, ReplaceFacts DEF Spliced
<1>2. CASE o.kind = "delete"
  BY <1>2, OpFields, ExciseFacts DEF Spliced
<1>3. CASE o.kind = "insert"
  BY <1>3, OpFields, InsertFacts DEF Spliced
<1> QED BY <1>1, <1>2, <1>3, OpFields DEF Kinds

-----------------------------------------------------------------------------
(* How a text ends.                                                        *)

LEMMA DropElements ==
  ASSUME NEW S, NEW s \in Seq(S), NEW n \in 0..Len(s)
  PROVE  \A i \in 1..(Len(s) - n) : Drop(s, n)[i] = s[n + i]
<1>1. \A i \in (n + 1)..Len(s) : s[i] \in S
  BY ElementOfSeq
<1>2. n + 1 \in Int /\ Len(s) \in Nat
  BY LenProperties
<1>3. \A i \in 1..(Len(s) - (n + 1) + 1) : Drop(s, n)[i] = s[(n + 1) + i - 1]
  BY <1>1, <1>2, SubSeqProperties DEF Drop
<1>4. Len(s) - (n + 1) + 1 = Len(s) - n /\ \A i \in Nat : (n + 1) + i - 1 = n + i
  BY <1>2
<1> QED BY <1>2, <1>3, <1>4

LEMMA DropEnds ==
  ASSUME NEW S, NEW s \in Seq(S), NEW n \in 0..Len(s), n < Len(s)
  PROVE  EndsInNL(Drop(s, n)) <=> EndsInNL(s)
<1>1. Len(s) \in Nat /\ Len(Drop(s, n)) = Len(s) - n
  BY DropText, LenProperties
<1>2. Drop(s, n)[Len(s) - n] = s[n + (Len(s) - n)]
  BY <1>1, DropElements
<1>3. n + (Len(s) - n) = Len(s)
  BY <1>1
<1> QED BY <1>1, <1>2, <1>3 DEF EndsInNL

LEMMA TrimLeftEnds ==
  ASSUME NEW S, NEW s \in Seq(S), Len(TrimLeft(s)) # 0
  PROVE  Len(s) # 0 /\ (EndsInNL(TrimLeft(s)) <=> EndsInNL(s))
<1>1. Len(s) \in Nat /\ BlankLen(s) \in 0..Len(s)
  BY BlankLenFact, LenProperties
<1>2. Len(TrimLeft(s)) = Len(s) - BlankLen(s)
  BY <1>1, DropText DEF TrimLeft
<1>3. BlankLen(s) < Len(s) /\ Len(s) # 0
  BY <1>1, <1>2
<1> QED BY <1>1, <1>3, DropEnds DEF TrimLeft

LEMMA ConcatEnds ==
  ASSUME NEW S, NEW x \in Seq(S), NEW y \in Seq(S), Len(y) # 0
  PROVE  Len(x \o y) # 0 /\ (EndsInNL(x \o y) <=> EndsInNL(y))
<1>1. Len(x) \in Nat /\ Len(y) \in Nat
  BY LenProperties
<1>2. /\ Len(x \o y) = Len(x) + Len(y)
      /\ \A i \in 1..(Len(x) + Len(y)) :
           (x \o y)[i] = IF i <= Len(x) THEN x[i] ELSE y[i - Len(x)]
  BY ConcatProperties
<1>3. (x \o y)[Len(x) + Len(y)] = y[Len(y)]
  BY <1>1, <1>2
<1> QED BY <1>1, <1>2, <1>3 DEF EndsInNL

\* TrimRight takes every newline the text ends in, and EndLike puts one back
\* where the other text has one.
LEMMA TrimRightEnds ==
  ASSUME NEW S, NEW s \in Seq(S)
  PROVE  ~EndsInNL(TrimRight(s))
<1>1. TrimmedLen(s) \in 0..Len(s) /\ (TrimmedLen(s) = 0 \/ s[TrimmedLen(s)] # NL)
  BY TrimmedLenFact
<1>2. /\ Len(TrimRight(s)) = TrimmedLen(s)
      /\ \A i \in 1..TrimmedLen(s) : TrimRight(s)[i] = s[i]
  BY <1>1, TakeText DEF TrimRight
<1> QED BY <1>1, <1>2, LenProperties DEF EndsInNL

LEMMA EndLikeEnds ==
  ASSUME NEW s \in Seq(Tokens), NEW t \in Seq(Tokens)
  PROVE  EndsInNL(EndLike(s, t)) <=> EndsInNL(t)
<1>1. TrimRight(s) \in Seq(Tokens) /\ ~EndsInNL(TrimRight(s))
  BY TrimRightText, TrimRightEnds
<1>2. EndsInNL(Append(TrimRight(s), NL))
  <2>1. Len(TrimRight(s)) \in Nat
    BY <1>1, LenProperties
  <2> QED BY <1>1, <2>1, AppendProperties, TokensAssumption DEF EndsInNL
<1> QED BY <1>1, <1>2 DEF EndLike

\* What is joined to a text that holds more than newlines ends as it does.
LEMMA JoinEnds ==
  ASSUME NEW a \in Seq(Tokens), NEW b \in Seq(Tokens), NEW gap \in Nat,
         Len(TrimLeft(b)) # 0
  PROVE  EndsInNL(JoinWithSeparator(a, b, gap)) <=> EndsInNL(b)
<1> DEFINE x == TrimRight(a)
           y == TrimLeft(b)
<1>1. x \in Seq(Tokens) /\ y \in Seq(Tokens) /\ Newlines(gap) \in Seq(Tokens)
  BY TrimRightText, TrimLeftText, NewlinesText
<1>2. x \o Newlines(gap) \in Seq(Tokens)
  BY <1>1, ConcatProperties
<1>3. EndsInNL(x \o Newlines(gap) \o y) <=> EndsInNL(y)
  BY <1>1, <1>2, ConcatEnds
<1>4. EndsInNL(y) <=> EndsInNL(b)
  BY TrimLeftEnds
<1> QED BY <1>1, <1>3, <1>4 DEF JoinWithSeparator

\* Each splice leaves the end of the text what it was: a replacement because
\* its own text ends like the range it replaces, a deletion because something
\* that is not a newline precedes it, an insertion always.
LEMMA ReplaceEnds ==
  ASSUME NEW t \in Seq(Tokens), NEW o, o.text \in Seq(Tokens),
         o.start \in Nat, o.end \in Nat, o.start < o.end, o.end <= Len(t),
         t[o.end] # NL, o.text # <<>>, ~EndsInNL(o.text)
  PROVE  EndsInNL(SpliceReplace(t, o)) <=> EndsInNL(t)
<1>1. o.start \in 0..Len(t) /\ o.end \in 0..Len(t) /\ Len(t) \in Nat
  BY LenProperties
<1> DEFINE x == Take(t, o.start)
           y == Drop(t, o.end)
<1>2. x \in Seq(Tokens) /\ y \in Seq(Tokens) /\ Len(y) = Len(t) - o.end
  BY <1>1, TakeText, DropText
<1>3. x \o o.text \in Seq(Tokens) /\ Len(o.text) # 0
  BY <1>2, ConcatProperties, EmptySeq
<1>4. ~EndsInNL(x \o o.text)
  BY <1>2, <1>3, ConcatEnds
<1>5. CASE o.end < Len(t)
  <2>1. EndsInNL(y) <=> EndsInNL(t)
    BY <1>1, <1>5, DropEnds
  <2>2. Len(y) # 0
    BY <1>1, <1>2, <1>5
  <2>3. EndsInNL(x \o o.text \o y) <=> EndsInNL(y)
    BY <1>2, <1>3, <2>2, ConcatEnds
  <2> QED BY <2>1, <2>3 DEF SpliceReplace
<1>6. CASE o.end = Len(t)
  <2>1. ~EndsInNL(t)
    BY <1>6 DEF EndsInNL
  <2>2. y = <<>>
    BY <1>1, <1>2, <1>6, EmptySeq
  <2>3. x \o o.text \o y = x \o o.text
    BY <1>3, <2>2, ConcatEmptySeq
  <2> QED BY <1>4, <2>1, <2>3 DEF SpliceReplace
<1> QED BY <1>1, <1>5, <1>6

LEMMA ExciseEnds ==
  ASSUME NEW t \in Seq(Tokens), NEW o,
         o.start \in Nat, o.end \in Nat, o.start < o.end, o.end <= Len(t)
  PROVE  IF Len(TrimRight(Take(t, o.start))) = 0 /\ Len(TrimLeft(Drop(t, o.end))) = 0
           THEN SpliceExcise(t, o) = <<>>
           ELSE EndsInNL(SpliceExcise(t, o)) <=> EndsInNL(t)
<1>1. o.start \in 0..Len(t) /\ o.end \in 0..Len(t) /\ Len(t) \in Nat
  BY LenProperties
<1> DEFINE prefix == Take(t, o.start)
           after  == Drop(t, o.end)
           rest   == TrimLeft(after)
<1>2. /\ prefix \in Seq(Tokens) /\ after \in Seq(Tokens) /\ rest \in Seq(Tokens)
      /\ Len(after) = Len(t) - o.end
  BY <1>1, TakeText, DropText, TrimLeftText
<1>3. CASE Len(rest) # 0
  <2>1. Len(after) # 0 /\ (EndsInNL(rest) <=> EndsInNL(after))
    BY <1>2, <1>3, TrimLeftEnds
  <2>2. EndsInNL(after) <=> EndsInNL(t)
    BY <1>1, <1>2, <2>1, DropEnds
  <2>3. EndsInNL(prefix \o rest) <=> EndsInNL(rest)
    BY <1>2, <1>3, ConcatEnds
  <2> QED BY <1>3, <2>1, <2>2, <2>3 DEF SpliceExcise
<1>4. CASE Len(rest) = 0
  BY <1>2, <1>4, EndLikeEnds DEF SpliceExcise
<1> QED BY <1>3, <1>4

LEMMA InsertEnds ==
  ASSUME NEW t \in Seq(Tokens), NEW o, o.text \in Seq(Tokens),
         o.start \in Nat, o.member \in BOOLEAN, o.lead \in Nat, o.trail \in Nat
  PROVE  EndsInNL(SpliceInsert(t, o)) <=> EndsInNL(t)
<1> DEFINE start == IF o.start < Len(t) THEN o.start ELSE Len(t)
           before == Take(t, start)
           rest  == Drop(t, start)
           lead  == WiderGap(o.member, o.lead)
           trail == WiderGap(o.member, o.trail)
           mid   == JoinWithSeparator(before, o.text, lead)
<1>1. start \in 0..Len(t) /\ Len(t) \in Nat
  BY LenProperties
<1>2. /\ before \in Seq(Tokens) /\ rest \in Seq(Tokens) /\ Len(rest) = Len(t) - start
      /\ lead \in Nat /\ trail \in Nat
  BY <1>1, TakeText, DropText, WiderGapNat
<1>3. mid \in Seq(Tokens)
  BY <1>2, JoinText
<1>4. CASE Len(TrimLeft(rest)) = 0
  BY <1>3, <1>4, EndLikeEnds DEF SpliceInsert
<1>5. CASE Len(TrimLeft(rest)) # 0
  <2>1. EndsInNL(JoinWithSeparator(mid, rest, trail)) <=> EndsInNL(rest)
    BY <1>2, <1>3, <1>5, JoinEnds
  <2>2. Len(rest) # 0
    BY <1>2, <1>5, TrimLeftEnds
  <2>3. EndsInNL(rest) <=> EndsInNL(t)
    BY <1>1, <1>2, <2>2, DropEnds
  <2> QED BY <1>5, <2>1, <2>3 DEF SpliceInsert
<1> QED BY <1>4, <1>5

-----------------------------------------------------------------------------
(* How often a token occurs.                                               *)

Places(s, a) == {i \in 1..Len(s) : s[i] = a}

LEMMA CountPlaces ==
  ASSUME NEW S, NEW s \in Seq(S), NEW a
  PROVE  /\ TokenCount(s, a) = Cardinality(Places(s, a))
         /\ IsFiniteSet(Places(s, a)) /\ TokenCount(s, a) \in Nat
<1>1. Len(s) \in Nat /\ DOMAIN s = 1..Len(s)
  BY LenProperties
<1>2. IsFiniteSet(1..Len(s))
  BY <1>1, FS_Interval
<1>3. Places(s, a) \in SUBSET (1..Len(s))
  BY DEF Places
<1>4. TokenCount(s, a) = Cardinality(Places(s, a))
  BY <1>1 DEF TokenCount, Places
<1>5. IsFiniteSet(Places(s, a))
  BY <1>2, <1>3, FS_Subset
<1> QED BY <1>4, <1>5, FS_CardinalityType

LEMMA CountConcat ==
  ASSUME NEW S, NEW x \in Seq(S), NEW y \in Seq(S), NEW a
  PROVE  TokenCount(x \o y, a) = TokenCount(x, a) + TokenCount(y, a)
<1> DEFINE m == Len(x)
           n == Len(y)
           moved == {i \in (m + 1)..(m + n) : y[i - m] = a}
           shift == [i \in Places(y, a) |-> m + i]
<1>1. /\ m \in Nat /\ n \in Nat
      /\ x \o y \in Seq(S) /\ Len(x \o y) = m + n
      /\ \A i \in 1..(m + n) : (x \o y)[i] = IF i <= m THEN x[i] ELSE y[i - m]
  BY ConcatProperties, LenProperties
<1>2. /\ TokenCount(x, a) = Cardinality(Places(x, a)) /\ IsFiniteSet(Places(x, a))
      /\ TokenCount(y, a) = Cardinality(Places(y, a)) /\ IsFiniteSet(Places(y, a))
      /\ TokenCount(x, a) \in Nat /\ TokenCount(y, a) \in Nat
      /\ TokenCount(x \o y, a) = Cardinality(Places(x \o y, a))
  BY <1>1, CountPlaces
<1> HIDE DEF m, n
<1>3. IsFiniteSet(moved) /\ Cardinality(moved) = Cardinality(Places(y, a))
  <2>1. shift \in [Places(y, a) -> moved]
    <3>1. ASSUME NEW i \in Places(y, a) PROVE m + i \in moved
      <4>1. i \in 1..n /\ y[i] = a
        BY DEF Places, n
      <4>2. m + i \in (m + 1)..(m + n) /\ (m + i) - m = i
        BY <1>1, <4>1
      <4> QED BY <4>1, <4>2
    <3> QED BY <3>1
  <2>2. \A i, j \in Places(y, a) : shift[i] = shift[j] => i = j
    BY <1>1 DEF Places, n
  <2>3. \A k \in moved : \E i \in Places(y, a) : shift[i] = k
    <3>1. ASSUME NEW k \in moved PROVE k - m \in Places(y, a) /\ shift[k - m] = k
      <4>1. k \in (m + 1)..(m + n) /\ y[k - m] = a
        OBVIOUS
      <4>2. k - m \in 1..n /\ m + (k - m) = k
        BY <1>1, <4>1
      <4> QED BY <4>1, <4>2 DEF Places, n
    <3> QED BY <3>1
  <2> HIDE DEF shift, moved
  <2>4. shift \in Bijection(Places(y, a), moved)
    BY <2>1, <2>2, <2>3, Fun_IsBij
  <2>5. ExistsBijection(Places(y, a), moved)
    BY <2>4, Fun_ExistsBij
  <2> QED BY <1>2, <2>5, FS_Bijection
<1>4. Places(x \o y, a) = Places(x, a) \cup moved
  <2>1. ASSUME NEW i \in 1..(m + n) PROVE i \in Places(x \o y, a) <=> i \in Places(x, a) \cup moved
    <3>1. CASE i <= m
      <4>1. i \in 1..m /\ i \notin (m + 1)..(m + n) /\ (x \o y)[i] = x[i]
        BY <1>1, <3>1
      <4> QED BY <1>1, <4>1 DEF Places, m
    <3>2. CASE i > m
      <4>1. i \notin 1..m /\ i \in (m + 1)..(m + n) /\ (x \o y)[i] = y[i - m]
        BY <1>1, <3>2
      <4> QED BY <1>1, <4>1 DEF Places, m
    <3> QED BY <1>1, <3>1, <3>2
  <2>2. Places(x \o y, a) \subseteq 1..(m + n)
    BY <1>1 DEF Places
  <2>3. Places(x, a) \subseteq 1..(m + n) /\ moved \subseteq 1..(m + n)
    BY <1>1 DEF Places, m
  <2> HIDE DEF moved
  <2> QED BY <2>1, <2>2, <2>3
<1>5. Places(x, a) \cap moved = {}
  BY <1>1 DEF Places, m
<1>6. Cardinality(Places(x, a) \cup moved)
        = Cardinality(Places(x, a)) + Cardinality(moved) - Cardinality({})
  <2> HIDE DEF moved
  <2> QED BY <1>2, <1>3, <1>5, FS_Union
<1> QED BY <1>2, <1>3, <1>4, <1>6, FS_EmptySet

\* A text of newlines holds no other token, and trimming takes only newlines.
LEMMA CountBlank ==
  ASSUME NEW S, NEW s \in Seq(S), NEW a, a # NL, \A i \in 1..Len(s) : s[i] = NL
  PROVE  TokenCount(s, a) = 0
<1>1. Places(s, a) = {}
  BY DEF Places
<1> QED BY <1>1, CountPlaces, FS_EmptySet

LEMMA CountSplit ==
  ASSUME NEW S, NEW s \in Seq(S), NEW n \in 0..Len(s), NEW a
  PROVE  TokenCount(s, a) = TokenCount(Take(s, n), a) + TokenCount(Drop(s, n), a)
<1>1. Len(s) \in Nat
  BY LenProperties
<1>2. Take(s, n) \in Seq(S) /\ Drop(s, n) \in Seq(S)
  BY TakeText, DropText
<1>3. Take(s, n) \o Drop(s, n) = s
  <2>1. 1 \in 1..(Len(s) + 1) /\ n \in (1 - 1)..Len(s) /\ Len(s) \in n..Len(s)
    BY <1>1
  <2>2. SubSeq(s, 1, n) \o SubSeq(s, n + 1, Len(s)) = SubSeq(s, 1, Len(s))
    BY <2>1, ConcatAdjacentSubSeq
  <2> QED BY <2>2, SubSeqFull DEF Take, Drop
<1>4. TokenCount(Take(s, n) \o Drop(s, n), a)
        = TokenCount(Take(s, n), a) + TokenCount(Drop(s, n), a)
  BY <1>2, CountConcat
<1> QED BY <1>3, <1>4

LEMMA CountTrimRight ==
  ASSUME NEW S, NEW s \in Seq(S), NEW a, a # NL
  PROVE  TokenCount(TrimRight(s), a) = TokenCount(s, a)
<1> DEFINE n == TrimmedLen(s)
<1>1. n \in 0..Len(s) /\ Len(s) \in Nat /\ \A i \in (n + 1)..Len(s) : s[i] = NL
  BY TrimmedLenFact, LenProperties
<1> HIDE DEF n
<1>2. /\ Take(s, n) \in Seq(S) /\ Drop(s, n) \in Seq(S) /\ Len(Drop(s, n)) = Len(s) - n
      /\ \A i \in 1..(Len(s) - n) : Drop(s, n)[i] = s[n + i]
  BY <1>1, TakeText, DropText, DropElements
<1>3. \A i \in 1..Len(Drop(s, n)) : Drop(s, n)[i] = NL
  BY <1>1, <1>2
<1>4. TokenCount(Drop(s, n), a) = 0
  BY <1>2, <1>3, CountBlank
<1>5. TokenCount(s, a) = TokenCount(Take(s, n), a) + TokenCount(Drop(s, n), a)
  BY <1>1, CountSplit
<1>6. TokenCount(Take(s, n), a) \in Nat
  BY <1>2, CountPlaces
<1> QED BY <1>4, <1>5, <1>6 DEF TrimRight, n

LEMMA CountTrimLeft ==
  ASSUME NEW S, NEW s \in Seq(S), NEW a, a # NL
  PROVE  TokenCount(TrimLeft(s), a) = TokenCount(s, a)
<1> DEFINE n == BlankLen(s)
<1>1. n \in 0..Len(s) /\ Len(s) \in Nat /\ \A i \in 1..n : s[i] = NL
  BY BlankLenFact, LenProperties
<1> HIDE DEF n
<1>2. /\ Take(s, n) \in Seq(S) /\ Drop(s, n) \in Seq(S) /\ Len(Take(s, n)) = n
      /\ \A i \in 1..n : Take(s, n)[i] = s[i]
  BY <1>1, TakeText, DropText
<1>3. TokenCount(Take(s, n), a) = 0
  <2>1. \A i \in 1..Len(Take(s, n)) : Take(s, n)[i] = NL
    BY <1>1, <1>2
  <2> QED BY <1>2, <2>1, CountBlank
<1>4. TokenCount(s, a) = TokenCount(Take(s, n), a) + TokenCount(Drop(s, n), a)
  BY <1>1, CountSplit
<1>5. TokenCount(Drop(s, n), a) \in Nat
  BY <1>2, CountPlaces
<1> QED BY <1>3, <1>4, <1>5 DEF TrimLeft, n

LEMMA CountEndLike ==
  ASSUME NEW s \in Seq(Tokens), NEW t \in Seq(Tokens), NEW a, a # NL
  PROVE  TokenCount(EndLike(s, t), a) = TokenCount(s, a)
<1> DEFINE x == TrimRight(s)
<1>1. x \in Seq(Tokens) /\ TokenCount(x, a) = TokenCount(s, a)
  BY TrimRightText, CountTrimRight
<1>2. Append(x, NL) = x \o <<NL>> /\ <<NL>> \in Seq(Tokens)
  BY <1>1, AppendIsConcat, TokensAssumption
<1>3. TokenCount(<<NL>>, a) = 0
  <2>1. \A i \in 1..Len(<<NL>>) : <<NL>>[i] = NL
    OBVIOUS
  <2> QED BY <1>2, <2>1, CountBlank
<1> HIDE DEF x
<1>4. TokenCount(x \o <<NL>>, a) = TokenCount(x, a) + TokenCount(<<NL>>, a)
  BY <1>1, <1>2, CountConcat
<1>5. TokenCount(x, a) \in Nat
  BY <1>1, CountPlaces
<1> QED BY <1>1, <1>2, <1>3, <1>4, <1>5 DEF EndLike, x

LEMMA CountJoin ==
  ASSUME NEW u \in Seq(Tokens), NEW v \in Seq(Tokens), NEW gap \in Nat, NEW a, a # NL
  PROVE  TokenCount(JoinWithSeparator(u, v, gap), a) = TokenCount(u, a) + TokenCount(v, a)
<1> DEFINE x == TrimRight(u)
           y == TrimLeft(v)
           nls == Newlines(gap)
<1>1. /\ x \in Seq(Tokens) /\ y \in Seq(Tokens) /\ nls \in Seq(Tokens)
      /\ x \o nls \in Seq(Tokens)
  BY TrimRightText, TrimLeftText, NewlinesText, ConcatProperties
<1>2. TokenCount(x, a) = TokenCount(u, a) /\ TokenCount(y, a) = TokenCount(v, a)
  BY CountTrimRight, CountTrimLeft
<1>3. TokenCount(nls, a) = 0
  <2>1. \A i \in 1..Len(nls) : nls[i] = NL
    BY DEF Newlines
  <2> HIDE DEF nls
  <2> QED BY <1>1, <2>1, CountBlank
<1>4. /\ TokenCount(x, a) \in Nat /\ TokenCount(y, a) \in Nat
      /\ Len(x) = 0 => TokenCount(x, a) = 0
      /\ Len(y) = 0 => TokenCount(y, a) = 0
  BY <1>1, CountPlaces, CountBlank, LenProperties
<1>5. /\ TokenCount(x \o nls, a) = TokenCount(x, a) + TokenCount(nls, a)
      /\ TokenCount((x \o nls) \o y, a) = TokenCount(x \o nls, a) + TokenCount(y, a)
  BY <1>1, CountConcat
<1> HIDE DEF x, y, nls
<1>6. JoinWithSeparator(u, v, gap) = IF Len(x) = 0 THEN y
                                     ELSE IF Len(y) = 0 THEN x ELSE (x \o nls) \o y
  BY DEF JoinWithSeparator, x, y, nls
<1> QED BY <1>2, <1>3, <1>4, <1>5, <1>6

\* s[b:e].
Slice(s, b, e) == SubSeq(s, b + 1, e)

\* What is counted in a range of t that is HEAD's own is HEAD's.
LEMMA CountRange ==
  ASSUME NEW t \in Seq(Tokens), NEW h \in Seq(Tokens), NEW b \in Nat, NEW e \in Nat,
         b < e, Agrees(t, h, e), NEW a
  PROVE  /\ TokenCount(t, a) = TokenCount(Take(t, b), a)
                                 + TokenCount(Slice(h, b, e), a)
                                 + TokenCount(Drop(t, e), a)
         /\ Take(t, b) \in Seq(Tokens) /\ Drop(t, e) \in Seq(Tokens)
         /\ Slice(h, b, e) \in Seq(Tokens)
<1>1. /\ Len(t) \in Nat /\ Len(h) \in Nat /\ b \in 0..Len(t) /\ e \in 0..Len(t)
      /\ e <= Len(h) /\ \A i \in 1..e : t[i] = h[i]
  BY LenProperties DEF Agrees
<1>2. /\ Take(t, b) \in Seq(Tokens) /\ Drop(t, e) \in Seq(Tokens)
      /\ Take(t, e) \in Seq(Tokens)
  BY <1>1, TakeText, DropText
<1>3. \A i \in (b + 1)..e : h[i] \in Tokens /\ t[i] \in Tokens
  BY <1>1, ElementOfSeq
<1>4. b + 1 \in Int /\ e \in Int
  OBVIOUS
<1>5. /\ SubSeq(h, b + 1, e) \in Seq(Tokens)
      /\ Len(SubSeq(h, b + 1, e)) = IF b + 1 <= e THEN e - (b + 1) + 1 ELSE 0
      /\ \A i \in 1..(e - (b + 1) + 1) : SubSeq(h, b + 1, e)[i] = h[(b + 1) + i - 1]
  BY <1>3, <1>4, SubSeqProperties
<1>6. /\ SubSeq(t, b + 1, e) \in Seq(Tokens)
      /\ Len(SubSeq(t, b + 1, e)) = IF b + 1 <= e THEN e - (b + 1) + 1 ELSE 0
      /\ \A i \in 1..(e - (b + 1) + 1) : SubSeq(t, b + 1, e)[i] = t[(b + 1) + i - 1]
  BY <1>3, <1>4, SubSeqProperties
<1>7. SubSeq(t, b + 1, e) = SubSeq(h, b + 1, e)
  <2> DEFINE r == SubSeq(t, b + 1, e)
             q == SubSeq(h, b + 1, e)
  <2>1. Len(r) = e - b /\ Len(q) = e - b
    BY <1>5, <1>6
  <2>2. ASSUME NEW i \in 1..(e - b) PROVE r[i] = q[i]
    <3>1. i \in 1..(e - (b + 1) + 1) /\ (b + 1) + i - 1 \in 1..e
      OBVIOUS
    <3> HIDE DEF r, q
    <3> QED BY <3>1, <1>1, <1>5, <1>6 DEF r, q
  <2>3. r \in Seq(Tokens) /\ q \in Seq(Tokens)
    BY <1>5, <1>6
  <2> HIDE DEF r, q
  <2>4. r = q
    BY <2>1, <2>2, <2>3, SeqEqual
  <2> QED BY <2>4 DEF r, q
<1>8. Take(t, e) = Take(t, b) \o SubSeq(t, b + 1, e)
  <2>1. 1 \in 1..(Len(t) + 1) /\ b \in (1 - 1)..Len(t) /\ e \in b..Len(t)
    BY <1>1
  <2> QED BY <2>1, ConcatAdjacentSubSeq DEF Take
<1>9. TokenCount(t, a) = TokenCount(Take(t, e), a) + TokenCount(Drop(t, e), a)
  BY <1>1, CountSplit
<1>10. TokenCount(Take(t, b) \o SubSeq(t, b + 1, e), a)
         = TokenCount(Take(t, b), a) + TokenCount(SubSeq(t, b + 1, e), a)
  BY <1>2, <1>6, CountConcat
<1> QED BY <1>2, <1>5, <1>7, <1>8, <1>9, <1>10 DEF Slice

\* A text that trimming empties holds nothing but newlines.
LEMMA CountTrimmedAway ==
  ASSUME NEW S, NEW s \in Seq(S), NEW a, a # NL,
         Len(TrimLeft(s)) = 0 \/ Len(TrimRight(s)) = 0
  PROVE  TokenCount(s, a) = 0
<1>1. ASSUME NEW w \in Seq(S), Len(w) = 0 PROVE TokenCount(w, a) = 0
  <2>1. \A i \in 1..Len(w) : w[i] = NL
    BY <1>1
  <2> QED BY <2>1, CountBlank
<1>2. TrimLeft(s) \in Seq(S) /\ TrimRight(s) \in Seq(S)
  BY TrimLeftText, TrimRightText
<1>3. /\ TokenCount(TrimLeft(s), a) = TokenCount(s, a)
      /\ TokenCount(TrimRight(s), a) = TokenCount(s, a)
  BY CountTrimLeft, CountTrimRight
<1> QED BY <1>1, <1>2, <1>3

\* The three splices, counted.
LEMMA CountReplace ==
  ASSUME NEW x \in Seq(Tokens), NEW v \in Seq(Tokens), NEW y \in Seq(Tokens), NEW a
  PROVE  TokenCount((x \o v) \o y, a)
           = TokenCount(x, a) + TokenCount(v, a) + TokenCount(y, a)
<1> DEFINE z == x \o v
<1>1. z \in Seq(Tokens) /\ TokenCount(z, a) = TokenCount(x, a) + TokenCount(v, a)
  BY CountConcat, ConcatProperties
<1> HIDE DEF z
<1>2. TokenCount(z \o y, a) = TokenCount(z, a) + TokenCount(y, a)
  BY <1>1, CountConcat
<1> QED BY <1>1, <1>2 DEF z

LEMMA CountExcise ==
  ASSUME NEW t \in Seq(Tokens), NEW o, NEW a, a # NL,
         o.start \in 0..Len(t), o.end \in 0..Len(t)
  PROVE  TokenCount(SpliceExcise(t, o), a)
           = TokenCount(Take(t, o.start), a) + TokenCount(Drop(t, o.end), a)
<1> DEFINE x == Take(t, o.start)
           y == Drop(t, o.end)
           z == TrimLeft(y)
<1>1. x \in Seq(Tokens) /\ y \in Seq(Tokens)
  BY TakeText, DropText
<1>2. SpliceExcise(t, o) = IF Len(z) # 0 THEN x \o z
                           ELSE IF Len(TrimRight(x)) = 0 THEN <<>> ELSE EndLike(x, t)
  BY DEF SpliceExcise
<1> HIDE DEF x, y
<1>3. z \in Seq(Tokens) /\ TokenCount(z, a) = TokenCount(y, a)
  BY <1>1, TrimLeftText, CountTrimLeft
<1>4. Len(z) = 0 => TokenCount(y, a) = 0
  BY <1>1, CountTrimmedAway
<1> HIDE DEF z
<1>5. TokenCount(x, a) \in Nat /\ TokenCount(y, a) \in Nat
  BY <1>1, CountPlaces
<1>6. TokenCount(x \o z, a) = TokenCount(x, a) + TokenCount(z, a)
  BY <1>1, <1>3, CountConcat
<1>7. Len(TrimRight(x)) = 0 => TokenCount(x, a) = 0
  BY <1>1, CountTrimmedAway
<1>8. TokenCount(EndLike(x, t), a) = TokenCount(x, a)
  BY <1>1, CountEndLike
<1>9. TokenCount(<<>>, a) = 0
  <2>1. <<>> \in Seq(Tokens) /\ \A i \in 1..Len(<<>>) : <<>>[i] = NL
    BY EmptySeq
  <2> QED BY <2>1, CountBlank
<1>10. TokenCount(SpliceExcise(t, o), a) = TokenCount(x, a) + TokenCount(y, a)
  BY <1>2, <1>3, <1>4, <1>5, <1>6, <1>7, <1>8, <1>9
<1> QED BY <1>10 DEF x, y

LEMMA CountInsert ==
  ASSUME NEW t \in Seq(Tokens), NEW o, NEW a, a # NL, o.start \in Nat,
         o.text \in Seq(Tokens), o.member \in BOOLEAN, o.lead \in Nat, o.trail \in Nat
  PROVE  TokenCount(SpliceInsert(t, o), a) = TokenCount(t, a) + TokenCount(o.text, a)
<1> DEFINE start == IF o.start < Len(t) THEN o.start ELSE Len(t)
           before == Take(t, start)
           rest  == Drop(t, start)
           lead  == WiderGap(o.member, o.lead)
           trail == WiderGap(o.member, o.trail)
           mid   == JoinWithSeparator(before, o.text, lead)
<1>1. start \in 0..Len(t)
  BY LenProperties
<1>2. SpliceInsert(t, o) = IF Len(TrimLeft(rest)) = 0 THEN EndLike(mid, t)
                           ELSE JoinWithSeparator(mid, rest, trail)
  BY DEF SpliceInsert
<1>3. lead \in Nat /\ trail \in Nat
  BY WiderGapNat
<1> HIDE DEF start, lead, trail
<1>4. before \in Seq(Tokens) /\ rest \in Seq(Tokens)
  BY <1>1, TakeText, DropText
<1>5. TokenCount(t, a) = TokenCount(before, a) + TokenCount(rest, a)
  BY <1>1, CountSplit
<1> HIDE DEF before, rest
<1>6. mid \in Seq(Tokens)
  BY <1>3, <1>4, JoinText
<1>7. TokenCount(mid, a) = TokenCount(before, a) + TokenCount(o.text, a)
  BY <1>3, <1>4, CountJoin
<1> HIDE DEF mid
<1>8. Len(TrimLeft(rest)) = 0 => TokenCount(rest, a) = 0
  BY <1>4, CountTrimmedAway
<1>9. TokenCount(EndLike(mid, t), a) = TokenCount(mid, a)
  BY <1>6, CountEndLike
<1>10. TokenCount(JoinWithSeparator(mid, rest, trail), a)
         = TokenCount(mid, a) + TokenCount(rest, a)
  BY <1>3, <1>4, <1>6, CountJoin
<1>11. /\ TokenCount(before, a) \in Nat /\ TokenCount(rest, a) \in Nat
       /\ TokenCount(o.text, a) \in Nat
  BY <1>4, CountPlaces
<1> QED BY <1>2, <1>5, <1>7, <1>8, <1>9, <1>10, <1>11

\* A splice removes what HEAD has in its range and adds its own text.
LEMMA SplicedCount ==
  ASSUME head \in Seq(Tokens), NEW t \in Seq(Tokens), NEW o \in OpOf(head),
         o.kind # "insert" => /\ o.end <= Len(t)
                              /\ \A i \in 1..o.end : t[i] = head[i],
         NEW a, a # NL
  PROVE  TokenCount(Spliced(t, o), a)
           = TokenCount(t, a) - TokenCount(Removed(o), a) + TokenCount(Added(o), a)
<1>1. /\ o.kind \in Kinds /\ o.start \in Nat /\ o.end \in Nat /\ o.text \in Seq(Tokens)
      /\ o.end <= Len(head) /\ o.member \in BOOLEAN /\ o.lead \in Nat /\ o.trail \in Nat
      /\ o.kind # "insert" => o.start < o.end
      /\ Len(t) \in Nat
  BY OpFields, LenProperties
<1>2. TokenCount(<<>>, a) = 0
  <2>1. <<>> \in Seq(Tokens) /\ \A i \in 1..Len(<<>>) : <<>>[i] = NL
    BY EmptySeq
  <2> QED BY <2>1, CountBlank
<1>3. TokenCount(t, a) \in Nat /\ TokenCount(o.text, a) \in Nat
  BY <1>1, CountPlaces
<1> DEFINE x == Take(t, o.start)
           y == Drop(t, o.end)
           r == SubSeq(head, o.start + 1, o.end)
<1>4. ASSUME o.kind # "insert"
      PROVE  /\ TokenCount(t, a) = TokenCount(x, a) + TokenCount(r, a) + TokenCount(y, a)
             /\ x \in Seq(Tokens) /\ y \in Seq(Tokens) /\ r \in Seq(Tokens)
             /\ Removed(o) = r
             /\ o.start \in 0..Len(t) /\ o.end \in 0..Len(t)
  <2>1. o.start < o.end /\ o.end <= Len(t) /\ \A i \in 1..o.end : t[i] = head[i]
    BY <1>1, <1>4
  <2>2. Removed(o) = r
    BY <1>4 DEF Removed
  <2>3. o.start \in 0..Len(t) /\ o.end \in 0..Len(t)
    BY <1>1, <2>1
  <2> HIDE DEF x, y, r
  <2>4. /\ TokenCount(t, a) = TokenCount(Take(t, o.start), a)
                                + TokenCount(Slice(head, o.start, o.end), a)
                                + TokenCount(Drop(t, o.end), a)
        /\ Take(t, o.start) \in Seq(Tokens) /\ Drop(t, o.end) \in Seq(Tokens)
        /\ Slice(head, o.start, o.end) \in Seq(Tokens)
    <3>1. Agrees(t, head, o.end)
      BY <1>1, <2>1 DEF Agrees
    <3> QED BY <1>1, <2>1, <3>1, CountRange
  <2> QED BY <2>2, <2>3, <2>4 DEF x, y, r, Slice
<1>5. o.kind # "insert" => /\ TokenCount(x, a) \in Nat /\ TokenCount(y, a) \in Nat
                           /\ TokenCount(r, a) \in Nat
  <2> HIDE DEF x, y, r
  <2> QED BY <1>4, CountPlaces
<1>6. CASE o.kind = "replace"
  <2>1. Spliced(t, o) = (x \o o.text) \o y /\ Added(o) = o.text
    BY <1>6 DEF Spliced, SpliceReplace, Added
  <2> HIDE DEF x, y, r
  <2>2. TokenCount((x \o o.text) \o y, a)
          = TokenCount(x, a) + TokenCount(o.text, a) + TokenCount(y, a)
    BY <1>1, <1>4, <1>6, CountReplace
  <2> QED BY <1>3, <1>4, <1>5, <1>6, <2>1, <2>2
<1>7. CASE o.kind = "delete"
  <2>1. Spliced(t, o) = SpliceExcise(t, o) /\ Added(o) = <<>>
    BY <1>7 DEF Spliced, Added
  <2>2. TokenCount(SpliceExcise(t, o), a) = TokenCount(x, a) + TokenCount(y, a)
    BY <1>4, <1>7, CountExcise
  <2> HIDE DEF x, y, r
  <2> QED BY <1>2, <1>3, <1>4, <1>5, <1>7, <2>1, <2>2
<1>8. CASE o.kind = "insert"
  <2>1. Spliced(t, o) = SpliceInsert(t, o) /\ Removed(o) = <<>> /\ Added(o) = o.text
    BY <1>8 DEF Spliced, Removed, Added
  <2>2. TokenCount(SpliceInsert(t, o), a) = TokenCount(t, a) + TokenCount(o.text, a)
    BY <1>1, CountInsert
  <2> QED BY <1>2, <1>3, <2>1, <2>2
<1> QED BY <1>1, <1>6, <1>7, <1>8 DEF Kinds

-----------------------------------------------------------------------------
(* The parts of the inductive invariant. *)

\* What is still to be looked at, and where the edits to splice came from: a
\* range is one that was kept, an insertion is made of some kept at its offset.
Sourced ==
  /\ pc = "coalesce" => todo \subseteq DOMAIN ops
  /\ pc = "merge" => todo \subseteq {i \in DOMAIN kept : kept[i].kind = "insert"}
  /\ pc \in {"merge", "splice"} =>
       \A p \in pending : \E i \in DOMAIN kept :
         IF p.kind = "insert" THEN kept[i].kind = "insert" /\ kept[i].start = p.start
         ELSE kept[i] = p

\* While the edits are spliced the text ends as HEAD's does; only the last
\* of them can leave nothing of it.
EndInv ==
  pc = "splice" /\ KeptTidy /\ KeptGrounded =>
    \/ EndsInNL(out) <=> EndsInNL(head)
    \/ out = <<>> /\ pending = {}

\* What is kept was planned; and as the wider edits are looked at first, once
\* an insertion is kept nothing but insertions is left.
Chosen ==
  /\ pc = "plan" => kept = <<>>
  /\ \A i \in DOMAIN kept : \E j \in DOMAIN ops : kept[i] = ops[j]
  /\ pc = "coalesce" =>
       \A i \in DOMAIN kept : kept[i].kind = "insert" =>
         \A j \in todo : ops[j].kind = "insert"

\* A merged insertion is still an edit of head.
LEMMA MergedOps ==
  ASSUME head \in Seq(Tokens), NEW o \in OpOf(head), o.kind = "insert"
  PROVE  /\ FirstOfGroup(o) \in OpOf(head)
         /\ FirstOfGroup(o).kind = "insert" /\ FirstOfGroup(o).start = o.start
         /\ \A p \in OpOf(head) : p.kind = "insert" =>
              /\ MergedOnto(p, o) \in OpOf(head)
              /\ MergedOnto(p, o).kind = "insert" /\ MergedOnto(p, o).start = p.start
<1>1. 0 \in 0..Len(head)
  BY LenProperties
<1>2. /\ FirstOfGroup(o) \in OpOf(head)
      /\ FirstOfGroup(o).kind = "insert" /\ FirstOfGroup(o).start = o.start
  BY <1>1 DEF FirstOfGroup, OpOf
<1>3. ASSUME NEW p \in OpOf(head), p.kind = "insert"
      PROVE  /\ MergedOnto(p, o) \in OpOf(head)
             /\ MergedOnto(p, o).kind = "insert" /\ MergedOnto(p, o).start = p.start
  <2>1. JoinWithSeparator(p.text, o.text, WiderGap(p.member, o.lead)) \in Seq(Tokens)
    BY OpFields, WiderGapNat, JoinText
  <2>2. o.trail \in Nat
    BY OpFields
  <2> QED BY <1>3, <2>1, <2>2 DEF MergedOnto, OpOf
<1> QED BY <1>2, <1>3

\* The steps of ApplyEdits, taken apart.
LEMMA Steps ==
  ASSUME SpliceNext
  PROVE  \/ Collect \/ Abandon \/ Begin \/ Deliver
         \/ \E i \in todo : Coalesce(i)
         \/ \E i \in todo : MergeTies(i)
         \/ Coalesced
         \/ Merged
         \/ \E p \in pending : Splice(p)
         \/ \E p \in pending : Panic(p)
         \/ AllSpliced
  BY DEF SpliceNext, ApplyEdits

LEMMA TypeStep ==
  ASSUME SpliceTypeOK, Sourced, [SpliceNext]_spliceVars
  PROVE  SpliceTypeOK'
<1> USE DEF SpliceTypeOK
<1>0. head' = head /\ OpOf(head') = OpOf(head)
  BY Steps DEF Collect, Abandon, Begin, Deliver, Coalesce, MergeTies, Coalesced,
     Merged, Splice, Panic, AllSpliced, spliceVars
<1>1. CASE Collect \/ Abandon
  BY <1>0, <1>1 DEF Collect, Abandon
<1>2. CASE Begin
  <2>1. ops' \in Seq(OpOf(head)) /\ todo' = DOMAIN ops'
    BY <1>2 DEF Begin
  <2>2. todo' \subseteq Nat
    BY <2>1, LenProperties
  <2> QED BY <1>0, <1>2, <2>1, <2>2 DEF Begin
<1>3. ASSUME NEW i \in todo, Coalesce(i) PROVE SpliceTypeOK'
  <2>1. ops[i] \in OpOf(head)
    BY <1>3, ElementOfSeq, LenProperties DEF Coalesce, Sourced
  <2>2. kept' \in Seq(OpOf(head))
    BY <1>3, <2>1, AppendProperties DEF Coalesce
  <2> QED BY <1>0, <1>3, <2>2 DEF Coalesce
<1>4. ASSUME NEW i \in todo, MergeTies(i) PROVE SpliceTypeOK'
  <2>1. kept[i] \in OpOf(head) /\ kept[i].kind = "insert"
    BY <1>4, ElementOfSeq, LenProperties DEF MergeTies, Sourced
  <2>2. ASSUME NEW p \in pending' PROVE p \in OpOf(head)
    <3>1. CASE p \in pending
      BY <3>1
    <3>2. CASE p = FirstOfGroup(kept[i])
      BY <2>1, <3>2, MergedOps
    <3>3. CASE \E q \in Tied(kept[i]) : p = MergedOnto(q, kept[i])
      <4>1. PICK q \in Tied(kept[i]) : p = MergedOnto(q, kept[i])
        BY <3>3
      <4>2. q \in OpOf(head) /\ q.kind = "insert"
        BY DEF Tied
      <4> QED BY <2>1, <4>1, <4>2, MergedOps
    <3> QED BY <1>4, <3>1, <3>2, <3>3 DEF MergeTies
  <2> QED BY <1>0, <1>4, <2>2 DEF MergeTies
<1>5. CASE Coalesced
  <2>1. DOMAIN kept \subseteq Nat /\ \A i \in DOMAIN kept : kept[i] \in OpOf(head)
    BY ElementOfSeq, LenProperties
  <2> QED BY <1>0, <1>5, <2>1 DEF Coalesced
<1>6. CASE Merged
  BY <1>0, <1>6 DEF Merged
<1>7. ASSUME NEW p \in pending, Splice(p) PROVE SpliceTypeOK'
  BY <1>0, <1>7, SplicedFacts DEF Splice, Fits
<1>8. ASSUME NEW p \in pending, Panic(p) PROVE SpliceTypeOK'
  BY <1>0, <1>8 DEF Panic
<1>9. CASE AllSpliced
  BY <1>0, <1>9 DEF AllSpliced
<1>10. CASE Deliver
  BY <1>0, <1>10, AppendProperties, TokensAssumption DEF Deliver
<1>11. CASE UNCHANGED spliceVars
  BY <1>11 DEF spliceVars
<1> QED
  BY <1>1, <1>2, <1>3, <1>4, <1>5, <1>6, <1>7, <1>8, <1>9, <1>10, <1>11, Steps

LEMMA SourcedStep ==
  ASSUME SpliceTypeOK, Sourced, [SpliceNext]_spliceVars
  PROVE  Sourced'
<1> USE DEF Sourced
<1>1. CASE Collect \/ Abandon \/ Deliver
  BY <1>1 DEF Collect, Abandon, Deliver
<1>2. CASE Begin
  BY <1>2 DEF Begin
<1>3. ASSUME NEW i \in todo, Coalesce(i) PROVE Sourced'
  BY <1>3 DEF Coalesce
<1>4. ASSUME NEW i \in todo, MergeTies(i) PROVE Sourced'
  <2>1. i \in DOMAIN kept /\ kept[i] \in OpOf(head) /\ kept[i].kind = "insert"
    BY <1>4, ElementOfSeq, LenProperties DEF MergeTies, SpliceTypeOK
  <2>2. ASSUME NEW p \in pending'
        PROVE  \E j \in DOMAIN kept :
                 IF p.kind = "insert"
                   THEN kept[j].kind = "insert" /\ kept[j].start = p.start
                   ELSE kept[j] = p
    <3>1. CASE p \in pending
      BY <1>4, <3>1 DEF MergeTies
    <3>2. CASE p = FirstOfGroup(kept[i])
      BY <2>1, <3>2, MergedOps DEF SpliceTypeOK
    <3>3. CASE \E q \in Tied(kept[i]) : p = MergedOnto(q, kept[i])
      <4>1. PICK q \in Tied(kept[i]) : p = MergedOnto(q, kept[i])
        BY <3>3
      <4>2. q \in pending /\ q.kind = "insert" /\ q.start = kept[i].start
        BY DEF Tied
      <4>3. p.kind = "insert" /\ p.start = kept[i].start
        BY <2>1, <4>1, <4>2, MergedOps DEF SpliceTypeOK
      <4> QED BY <2>1, <4>3
    <3> QED BY <1>4, <2>2, <3>1, <3>2, <3>3 DEF MergeTies
  <2> QED BY <1>4, <2>2 DEF MergeTies
<1>5. CASE Coalesced
  <2>1. /\ pc' = "merge" /\ kept' = kept
        /\ todo' = {i \in DOMAIN kept : kept[i].kind = "insert"}
        /\ pending' = {kept[i] : i \in {j \in DOMAIN kept : kept[j].kind # "insert"}}
    BY <1>5 DEF Coalesced
  <2> QED BY <2>1
<1>6. CASE Merged
  BY <1>6 DEF Merged
<1>7. ASSUME NEW p \in pending, Splice(p) PROVE Sourced'
  BY <1>7 DEF Splice
<1>8. ASSUME NEW p \in pending, Panic(p) PROVE Sourced'
  BY <1>8 DEF Panic
<1>9. CASE AllSpliced
  BY <1>9 DEF AllSpliced
<1>10. CASE UNCHANGED spliceVars
  BY <1>10 DEF spliceVars
<1> QED
  BY <1>1, <1>2, <1>3, <1>4, <1>5, <1>6, <1>7, <1>8, <1>9, <1>10, Steps

\* Coalescing keeps an edit only when it overlaps nothing that was kept.
LEMMA DisjointStep ==
  ASSUME SpliceTypeOK, Sourced, KeptDisjoint, [SpliceNext]_spliceVars
  PROVE  KeptDisjoint'
<1>1. ASSUME NEW n \in todo, Coalesce(n) PROVE KeptDisjoint'
  <2>1. CASE kept' = kept
    BY <2>1 DEF KeptDisjoint
  <2>2. CASE kept' = Append(kept, ops[n]) /\ ~SwallowedBy(kept, ops[n])
    <3> DEFINE o == ops[n]
    <3>1. o \in OpOf(head) /\ kept \in Seq(OpOf(head)) /\ head \in Seq(Tokens)
      BY <1>1, ElementOfSeq, LenProperties DEF Coalesce, Sourced, SpliceTypeOK
    <3>2. /\ DOMAIN kept' = 1..(Len(kept) + 1) /\ DOMAIN kept = 1..Len(kept)
          /\ Len(kept) \in Nat
          /\ \A i \in DOMAIN kept : kept'[i] = kept[i]
          /\ kept'[Len(kept) + 1] = o
      BY <2>2, <3>1, AppendProperties, LenProperties
    <3>3. ASSUME NEW i \in DOMAIN kept, kept[i].kind # "insert", o.kind # "insert"
          PROVE  kept[i].end <= o.start \/ o.end <= kept[i].start
      <4>1. ~Overlap(o, kept[i])
        BY <2>2, <3>3 DEF SwallowedBy, Swallows
      <4>2. kept[i] \in OpOf(head)
        BY <3>1, <3>2, ElementOfSeq
      <4>3. /\ o.start \in Nat /\ o.end \in Nat
            /\ kept[i].start \in Nat /\ kept[i].end \in Nat
        BY <3>1, <4>2, OpFields
      <4> QED BY <4>1, <4>3 DEF Overlap
    <3>4. ASSUME NEW i \in DOMAIN kept', NEW j \in DOMAIN kept', i # j,
                 kept'[i].kind # "insert", kept'[j].kind # "insert"
          PROVE  kept'[i].end <= kept'[j].start \/ kept'[j].end <= kept'[i].start
      <4>1. CASE i \in DOMAIN kept /\ j \in DOMAIN kept
        BY <3>2, <3>4, <4>1 DEF KeptDisjoint
      <4>2. CASE i \in DOMAIN kept /\ j = Len(kept) + 1
        BY <3>2, <3>3, <3>4, <4>2
      <4>3. CASE j \in DOMAIN kept /\ i = Len(kept) + 1
        BY <3>2, <3>3, <3>4, <4>3
      <4> QED BY <3>2, <3>4, <4>1, <4>2, <4>3
    <3> QED BY <3>4 DEF KeptDisjoint
  <2> QED BY <1>1, <2>1, <2>2 DEF Coalesce
<1>2. CASE kept' = kept
  BY <1>2 DEF KeptDisjoint
<1> QED
  BY <1>1, <1>2, Steps DEF Collect, Abandon, Begin, Deliver, MergeTies, Coalesced,
     Merged, Splice, Panic, AllSpliced, spliceVars

\* Before insertions all the ranges have been looked at.
LEMMA ChosenStep ==
  ASSUME SpliceTypeOK, Sourced, Chosen, [SpliceNext]_spliceVars
  PROVE  Chosen'
<1>1. ASSUME NEW n \in todo, Coalesce(n) PROVE Chosen'
  <2>1. /\ pc = "coalesce" /\ n \in DOMAIN ops /\ pc' = pc /\ ops' = ops
        /\ todo' = todo \ {n} /\ todo \subseteq DOMAIN ops
        /\ \A j \in todo' : RanksBefore(n, j)
    BY <1>1 DEF Coalesce, Sourced
  <2>2. CASE kept' = kept
    BY <2>1, <2>2 DEF Chosen
  <2>3. CASE kept' = Append(kept, ops[n])
    <3>1. /\ DOMAIN kept' = 1..(Len(kept) + 1) /\ DOMAIN kept = 1..Len(kept)
          /\ Len(kept) \in Nat
          /\ \A i \in DOMAIN kept : kept'[i] = kept[i]
          /\ kept'[Len(kept) + 1] = ops[n]
      BY <2>3, AppendProperties, LenProperties DEF SpliceTypeOK
    <3>2. ASSUME ops[n].kind = "insert", NEW j \in todo' PROVE ops[j].kind = "insert"
      <4>1. head \in Seq(Tokens) /\ ops[j] \in OpOf(head)
        BY <2>1, ElementOfSeq, LenProperties DEF SpliceTypeOK
      <4>3. Span(ops[n]) > Span(ops[j]) \/ Span(ops[n]) = Span(ops[j])
        BY <2>1, <3>2 DEF RanksBefore
      <4>2. /\ ops[j].start \in Nat /\ ops[j].end \in Nat
            /\ ops[j].kind # "insert" => ops[j].start < ops[j].end
        BY <4>1, OpFields DEF OpOf
      <4> QED BY <4>2, <4>3, <3>2 DEF Span
    <3>3. ASSUME NEW i \in DOMAIN kept' PROVE \E j \in DOMAIN ops' : kept'[i] = ops'[j]
      BY <2>1, <3>1 DEF Chosen
    <3>4. ASSUME NEW i \in DOMAIN kept', kept'[i].kind = "insert", NEW j \in todo'
          PROVE  ops'[j].kind = "insert"
      <4>1. CASE i \in DOMAIN kept
        BY <2>1, <3>1, <3>4, <4>1 DEF Chosen
      <4>2. CASE i = Len(kept) + 1
        BY <2>1, <3>1, <3>2, <3>4, <4>2
      <4> QED BY <3>1, <3>4, <4>1, <4>2
    <3> QED BY <2>1, <3>3, <3>4 DEF Chosen
  <2> QED BY <1>1, <2>2, <2>3 DEF Coalesce
<1>2. CASE Collect \/ Begin
  BY <1>2 DEF Collect, Begin, Chosen
<1>3. CASE UNCHANGED <<kept, ops>> /\ (pc' \in {"plan", "coalesce"} => UNCHANGED <<pc, todo>>)
  BY <1>3 DEF Chosen
<1> QED
  BY <1>1, <1>2, <1>3, Steps DEF Abandon, Deliver, MergeTies, Coalesced,
     Merged, Splice, Panic, AllSpliced, spliceVars

\* So a replacement that holds an insertion's text is there when it is looked at.
LEMMA OnceStep ==
  ASSUME SpliceTypeOK, Sourced, Chosen, KeptOnce, [SpliceNext]_spliceVars
  PROVE  KeptOnce'
<1>1. ASSUME NEW n \in todo, Coalesce(n) PROVE KeptOnce'
  <2>1. CASE kept' = kept
    BY <2>1 DEF KeptOnce, CarriedBy, SameInsertion
  <2>2. CASE kept' = Append(kept, ops[n]) /\ ~SwallowedBy(kept, ops[n])
    <3> DEFINE o == ops[n]
               Apart(x, y) == x.kind = "insert" =>
                                /\ ~CarriedBy(x, y)
                                /\ y.kind = "insert" => ~SameInsertion(x, y)
    <3>1. /\ DOMAIN kept' = 1..(Len(kept) + 1) /\ DOMAIN kept = 1..Len(kept)
          /\ Len(kept) \in Nat
          /\ \A i \in DOMAIN kept : kept'[i] = kept[i]
          /\ kept'[Len(kept) + 1] = o
      BY <2>2, AppendProperties, LenProperties DEF SpliceTypeOK
    <3>2. ASSUME NEW i \in DOMAIN kept PROVE Apart(o, kept[i]) /\ Apart(kept[i], o)
      <4>1. ~Swallows(kept[i], o)
        BY <2>2 DEF SwallowedBy
      <4>2. kept[i].kind = "insert" => o.kind = "insert"
        BY <1>1 DEF Chosen, Coalesce
      <4> QED BY <4>1, <4>2 DEF Swallows, CarriedBy, SameInsertion
    <3>3. ASSUME NEW i \in DOMAIN kept, NEW j \in DOMAIN kept, i # j
          PROVE  Apart(kept[i], kept[j])
      BY <3>3 DEF KeptOnce
    <3> HIDE DEF o, Apart
    <3>4. ASSUME NEW i \in DOMAIN kept', NEW j \in DOMAIN kept', i # j
          PROVE  Apart(kept'[i], kept'[j])
      <4>1. CASE i \in DOMAIN kept /\ j \in DOMAIN kept
        BY <3>1, <3>3, <3>4, <4>1
      <4>2. CASE i \in DOMAIN kept /\ j = Len(kept) + 1
        BY <3>1, <3>2, <4>2
      <4>3. CASE j \in DOMAIN kept /\ i = Len(kept) + 1
        BY <3>1, <3>2, <4>3
      <4> QED BY <3>1, <3>4, <4>1, <4>2, <4>3
    <3> QED BY <3>4 DEF KeptOnce, Apart, CarriedBy, SameInsertion
  <2> QED BY <1>1, <2>1, <2>2 DEF Coalesce
<1>2. CASE kept' = kept
  BY <1>2 DEF KeptOnce, CarriedBy, SameInsertion
<1> QED
  BY <1>1, <1>2, Steps DEF Collect, Abandon, Begin, Deliver, MergeTies, Coalesced,
     Merged, Splice, Panic, AllSpliced, spliceVars

\* A range still to be spliced ends before whatever is spliced first.
LEMMA EndsBefore ==
  ASSUME SpliceTypeOK, Sourced, KeptDisjoint, KeptTidy, pc = "splice",
         NEW p \in pending, Foremost(p),
         NEW q \in pending \ {p}, q.kind # "insert"
  PROVE  q.end \in 1..p.start /\ head[q.end] # NL
<1>1. p \in OpOf(head) /\ q \in OpOf(head) /\ head \in Seq(Tokens)
  BY DEF SpliceTypeOK
<1>2. /\ p.start \in Nat /\ p.end \in Nat
      /\ p.kind # "insert" => p.start < p.end
      /\ q.start \in Nat /\ q.end \in Nat /\ q.start < q.end
  BY <1>1, OpFields
<1>3. p.start > q.start
  BY DEF Foremost, SplicesBefore
<1>4. PICK j \in DOMAIN kept : kept[j] = q
  BY DEF Sourced
<1>5. head[q.end] # NL
  BY <1>4 DEF KeptTidy
<1>6. CASE p.kind = "insert"
  <2>1. PICK i \in DOMAIN kept : kept[i].kind = "insert" /\ kept[i].start = p.start
    BY <1>6 DEF Sourced
  <2>2. p.start <= q.start \/ q.end <= p.start
    BY <1>4, <2>1 DEF KeptTidy
  <2> QED BY <1>2, <1>3, <1>5, <2>2
<1>7. CASE p.kind # "insert"
  <2>1. PICK i \in DOMAIN kept : kept[i] = p
    BY <1>7 DEF Sourced
  <2>2. p.end <= q.start \/ q.end <= p.start
    BY <1>4, <1>7, <2>1 DEF KeptDisjoint
  <2> QED BY <1>2, <1>3, <1>5, <1>7, <2>2
<1> QED BY <1>6, <1>7

\* So no splice reaches what the others have still to be spliced into.
LEMMA PrefixStep ==
  ASSUME SpliceTypeOK, Sourced, KeptDisjoint, PrefixIntact, [SpliceNext]_spliceVars
  PROVE  PrefixIntact'
<1>1. CASE Merged
  <2>1. /\ head' = head /\ out' = head /\ pending' = pending
        /\ head \in Seq(Tokens) /\ pending \subseteq OpOf(head)
    BY <1>1 DEF Merged, SpliceTypeOK
  <2>2. \A p \in pending : p.end <= Len(head)
    BY <2>1, OpFields
  <2> QED BY <2>1, <2>2 DEF PrefixIntact
<1>2. ASSUME NEW p \in pending, Splice(p) PROVE PrefixIntact'
  <2>1. /\ pc = "splice" /\ Foremost(p) /\ Fits(p)
        /\ out' = Spliced(out, p) /\ pending' = pending \ {p}
        /\ head' = head /\ kept' = kept
    BY <1>2 DEF Splice
  <2>2. /\ head \in Seq(Tokens) /\ out \in Seq(Tokens) /\ p \in OpOf(head)
        /\ Len(out) \in Nat
    BY LenProperties DEF SpliceTypeOK
  <2>3. SUFFICES ASSUME KeptTidy, NEW q \in pending \ {p}, q.kind # "insert"
                 PROVE  q.end <= Len(out') /\ \A i \in 1..q.end : out'[i] = head[i]
    BY <2>1 DEF PrefixIntact, KeptTidy
  <2>4. q.end \in 1..p.start /\ head[q.end] # NL
    BY <2>1, <2>3, EndsBefore
  <2>5. q.end <= Len(out) /\ \A i \in 1..q.end : out[i] = head[i]
    BY <2>1, <2>3 DEF PrefixIntact
  <2>6. out[q.end] # NL
    BY <2>4, <2>5, OpFields, <2>2
  <2>7. Agrees(Spliced(out, p), out, q.end)
    BY <2>1, <2>2, <2>4, <2>5, <2>6, SplicedFacts DEF Fits
  <2> QED BY <2>1, <2>5, <2>7 DEF Agrees
<1>3. CASE pc' # "splice"
  BY <1>3 DEF PrefixIntact
<1>4. CASE UNCHANGED spliceVars
  BY <1>4 DEF PrefixIntact, KeptTidy, spliceVars
<1> QED
  BY <1>1, <1>2, <1>3, <1>4, Steps DEF Collect, Abandon, Begin, Deliver, Coalesce, MergeTies,
     Coalesced, Panic, AllSpliced

\* So when its edits are tidy applyEdits never slices past the end of the
\* buffer that its own deletions have shortened (synth.go:260-291).
TidyNeverPanics == KeptTidy => pc # "panic"

\* The one spliced next ends within the buffer.
LEMMA PanicStep ==
  ASSUME SpliceTypeOK, PrefixIntact, TidyNeverPanics, [SpliceNext]_spliceVars
  PROVE  TidyNeverPanics'
<1>1. ASSUME NEW p \in pending, Panic(p) PROVE ~KeptTidy'
  <2>1. pc = "splice" /\ head' = head /\ kept' = kept
    BY <1>1 DEF Panic
  <2>2. p.kind # "insert" /\ ~(p.end <= Len(out))
    BY <1>1 DEF Panic, Fits
  <2>3. ~KeptTidy
    BY <2>1, <2>2 DEF PrefixIntact
  <2> QED BY <2>1, <2>3 DEF KeptTidy
<1>2. CASE pc' # "panic"
  BY <1>2 DEF TidyNeverPanics
<1>3. CASE UNCHANGED spliceVars
  BY <1>3 DEF TidyNeverPanics, KeptTidy, spliceVars
<1> QED
  BY <1>1, <1>2, <1>3, Steps DEF Collect, Abandon, Begin, Deliver, Coalesce, MergeTies, Coalesced,
     Merged, Splice, AllSpliced, TidyNeverPanics

\* A deletion that leaves nothing is the last splice: what is still to be
\* spliced would have left a token of HEAD's before it.
LEMMA LastOfAll ==
  ASSUME SpliceTypeOK, Sourced, KeptDisjoint, PrefixIntact, KeptTidy, KeptGrounded,
         pc = "splice", NEW p \in pending, Foremost(p), p.kind = "delete",
         Len(TrimRight(Take(out, p.start))) = 0
  PROVE  pending \ {p} = {}
<1>1. /\ head \in Seq(Tokens) /\ out \in Seq(Tokens) /\ pending \subseteq OpOf(head)
      /\ Len(out) \in Nat
  BY LenProperties DEF SpliceTypeOK
<1>2. /\ p.start \in Nat /\ p.end \in Nat /\ p.start < p.end
      /\ p.end <= Len(out) /\ \A i \in 1..p.end : out[i] = head[i]
  BY <1>1, OpFields DEF PrefixIntact
<1>3. /\ Take(out, p.start) \in Seq(Tokens) /\ Len(Take(out, p.start)) = p.start
      /\ \A i \in 1..p.start : Take(out, p.start)[i] = head[i]
  <2>1. p.start \in 0..Len(out)
    BY <1>1, <1>2
  <2>2. /\ Take(out, p.start) \in Seq(Tokens) /\ Len(Take(out, p.start)) = p.start
        /\ \A i \in 1..p.start : Take(out, p.start)[i] = out[i]
    BY <1>1, <2>1, TakeText
  <2> QED BY <1>2, <2>2
<1>4. ASSUME NEW n \in 1..p.start, head[n] # NL PROVE FALSE
  <2>1. n \in 1..Len(Take(out, p.start)) /\ Take(out, p.start)[n] # NL
    BY <1>3, <1>4
  <2>2. Agrees(TrimRight(Take(out, p.start)), Take(out, p.start), n)
    BY <1>3, <2>1, TrimRightAgrees
  <2> QED BY <2>2 DEF Agrees
<1>5. ASSUME NEW q \in pending \ {p} PROVE FALSE
  <2>1. CASE q.kind # "insert"
    <3>1. q.end \in 1..p.start /\ head[q.end] # NL
      BY <1>5, <2>1, EndsBefore
    <3> QED BY <1>4, <3>1
  <2>2. CASE q.kind = "insert"
    <3>1. q.start \in Nat /\ q.start <= p.start
      BY <1>1, <1>2, <2>2, OpFields DEF Foremost, SplicesBefore
    <3>2. PICK j \in DOMAIN kept : kept[j].kind = "insert" /\ kept[j].start = q.start
      BY <2>2 DEF Sourced
    <3>3. PICK i \in DOMAIN kept : kept[i] = p
      BY DEF Sourced
    <3>4. \E n \in 1..p.start : head[n] # NL
      BY <3>1, <3>2, <3>3 DEF KeptGrounded
    <3> QED BY <1>4, <3>4
  <2> QED BY <2>1, <2>2
<1> QED BY <1>5

LEMMA EndStep ==
  ASSUME SpliceTypeOK, Sourced, KeptDisjoint, PrefixIntact, EndInv,
         [SpliceNext]_spliceVars
  PROVE  EndInv'
<1>1. ASSUME NEW p \in pending, Splice(p) PROVE EndInv'
  <2>1. /\ pc = "splice" /\ Foremost(p) /\ Fits(p)
        /\ out' = Spliced(out, p) /\ pending' = pending \ {p}
        /\ head' = head /\ kept' = kept
    BY <1>1 DEF Splice
  <2>2. SUFFICES ASSUME KeptTidy, KeptGrounded
                 PROVE  \/ EndsInNL(out') <=> EndsInNL(head)
                        \/ out' = <<>> /\ pending \ {p} = {}
    BY <2>1 DEF EndInv, KeptTidy, KeptGrounded
  <2>3. EndsInNL(out) <=> EndsInNL(head)
    BY <2>1, <2>2 DEF EndInv
  <2>4. head \in Seq(Tokens) /\ out \in Seq(Tokens) /\ p \in OpOf(head)
    BY DEF SpliceTypeOK
  <2>5. /\ p.kind \in Kinds /\ p.start \in Nat /\ p.end \in Nat
        /\ p.text \in Seq(Tokens) /\ p.member \in BOOLEAN /\ p.lead \in Nat
        /\ p.trail \in Nat /\ (p.kind # "insert" => p.start < p.end /\ p.end <= Len(out))
    BY <2>1, <2>4, OpFields DEF Fits
  <2>6. CASE p.kind = "replace"
    <3>1. PICK i \in DOMAIN kept : kept[i] = p
      BY <2>1, <2>6 DEF Sourced
    <3>2. head[p.end] # NL /\ p.text # <<>> /\ ~EndsInNL(p.text)
      BY <2>2, <2>6, <3>1 DEF KeptTidy, KeptGrounded
    <3>3. out[p.end] # NL
      BY <2>1, <2>2, <2>5, <2>6, <3>2 DEF PrefixIntact
    <3>4. EndsInNL(SpliceReplace(out, p)) <=> EndsInNL(out)
      BY <2>4, <2>5, <2>6, <3>2, <3>3, ReplaceEnds
    <3> QED BY <2>1, <2>3, <2>6, <3>4 DEF Spliced
  <2>7. CASE p.kind = "delete"
    <3>1. Spliced(out, p) = SpliceExcise(out, p)
      BY <2>7 DEF Spliced
    <3>2. CASE Len(TrimRight(Take(out, p.start))) = 0
               /\ Len(TrimLeft(Drop(out, p.end))) = 0
      <4>1. SpliceExcise(out, p) = <<>>
        BY <2>4, <2>5, <2>7, <3>2, ExciseEnds
      <4>2. pending \ {p} = {}
        BY <2>1, <2>2, <2>7, <3>2, LastOfAll
      <4> QED BY <2>1, <3>1, <4>1, <4>2
    <3>3. CASE ~(Len(TrimRight(Take(out, p.start))) = 0
                 /\ Len(TrimLeft(Drop(out, p.end))) = 0)
      <4>1. EndsInNL(SpliceExcise(out, p)) <=> EndsInNL(out)
        BY <2>4, <2>5, <2>7, <3>3, ExciseEnds
      <4> QED BY <2>1, <2>3, <3>1, <4>1
    <3> QED BY <3>2, <3>3
  <2>8. CASE p.kind = "insert"
    <3>1. EndsInNL(SpliceInsert(out, p)) <=> EndsInNL(out)
      BY <2>4, <2>5, InsertEnds
    <3> QED BY <2>1, <2>3, <2>8, <3>1 DEF Spliced
  <2> QED BY <2>5, <2>6, <2>7, <2>8 DEF Kinds
<1>2. CASE Merged
  BY <1>2 DEF Merged, EndInv
<1>3. CASE pc' # "splice"
  BY <1>3 DEF EndInv
<1>4. CASE UNCHANGED spliceVars
  BY <1>4 DEF EndInv, KeptTidy, KeptGrounded, spliceVars
<1> QED
  BY <1>1, <1>2, <1>3, <1>4, Steps DEF Collect, Abandon, Begin, Deliver, Coalesce, MergeTies,
     Coalesced, Panic, AllSpliced

LEMMA EndStays ==
  ASSUME EndInv, EndInherited, [SpliceNext]_spliceVars
  PROVE  EndInherited'
<1>1. CASE AllSpliced
  BY <1>1 DEF AllSpliced, EndInv, EndInherited, KeptTidy, KeptGrounded
<1>2. CASE pc' # "spliced"
  BY <1>2 DEF EndInherited
<1>3. CASE UNCHANGED spliceVars
  BY <1>3 DEF EndInherited, KeptTidy, KeptGrounded, spliceVars
<1> QED
  BY <1>1, <1>2, <1>3, Steps DEF Collect, Abandon, Begin, Deliver, Coalesce, MergeTies,
     Coalesced, Merged, Splice, Panic

-----------------------------------------------------------------------------
(* Cuts.  A text has a cut f when some prefix of it holds every token as   *)
(* often as f says; what trims and pads a text leaves its cuts.            *)

CutOf(s, f) ==
  \E m \in 0..Len(s) : \A x \in Solids : TokenCount(Take(s, m), x) = f[x]

LEMMA TakeOfConcat ==
  ASSUME NEW x \in Seq(Tokens), NEW y \in Seq(Tokens)
  PROVE  /\ \A m \in 0..Len(x) : m \in 0..Len(x \o y) /\ Take(x \o y, m) = Take(x, m)
         /\ \A m \in 0..Len(y) : /\ Len(x) + m \in 0..Len(x \o y)
                                 /\ Take(x \o y, Len(x) + m) = x \o Take(y, m)
<1> DEFINE z == x \o y
<1>1. /\ Len(x) \in Nat /\ Len(y) \in Nat /\ z \in Seq(Tokens)
      /\ Len(z) = Len(x) + Len(y)
      /\ \A i \in 1..(Len(x) + Len(y)) : z[i] = IF i <= Len(x) THEN x[i] ELSE y[i - Len(x)]
  BY ConcatProperties, LenProperties
<1> HIDE DEF z
<1>2. ASSUME NEW m \in 0..Len(x) PROVE m \in 0..Len(z) /\ Take(z, m) = Take(x, m)
  <2>1. m \in 0..Len(z)
    BY <1>1
  <2>2. /\ Take(z, m) \in Seq(Tokens) /\ Len(Take(z, m)) = m
        /\ \A i \in 1..m : Take(z, m)[i] = z[i]
        /\ Take(x, m) \in Seq(Tokens) /\ Len(Take(x, m)) = m
        /\ \A i \in 1..m : Take(x, m)[i] = x[i]
    BY <1>1, <2>1, TakeText
  <2>3. ASSUME NEW i \in 1..m PROVE z[i] = x[i]
    <3>1. i \in 1..(Len(x) + Len(y)) /\ i <= Len(x)
      BY <1>1
    <3> QED BY <1>1, <3>1
  <2> QED BY <2>1, <2>2, <2>3, SeqEqual
<1>3. ASSUME NEW m \in 0..Len(y)
      PROVE  Len(x) + m \in 0..Len(z) /\ Take(z, Len(x) + m) = x \o Take(y, m)
  <2> DEFINE n == Len(x) + m
             w == x \o Take(y, m)
  <2>1. n \in 0..Len(z) /\ m \in Nat
    BY <1>1
  <2>2. /\ Take(z, n) \in Seq(Tokens) /\ Len(Take(z, n)) = n
        /\ \A i \in 1..n : Take(z, n)[i] = z[i]
        /\ Take(y, m) \in Seq(Tokens) /\ Len(Take(y, m)) = m
        /\ \A i \in 1..m : Take(y, m)[i] = y[i]
    BY <1>1, <2>1, TakeText
  <2>3. /\ w \in Seq(Tokens) /\ Len(w) = n
        /\ \A i \in 1..n : w[i] = IF i <= Len(x) THEN x[i] ELSE Take(y, m)[i - Len(x)]
    BY <2>2, ConcatProperties
  <2>4. ASSUME NEW i \in 1..n PROVE Take(z, n)[i] = w[i]
    <3>1. CASE i <= Len(x)
      BY <1>1, <2>1, <2>2, <2>3, <3>1
    <3>2. CASE ~(i <= Len(x))
      <4>1. i - Len(x) \in 1..m /\ i \in 1..(Len(x) + Len(y))
        BY <1>1, <2>1, <3>2
      <4>2. Take(z, n)[i] = y[i - Len(x)]
        BY <1>1, <2>2, <3>2, <4>1
      <4>3. w[i] = y[i - Len(x)]
        BY <2>2, <2>3, <3>2, <4>1
      <4> QED BY <4>2, <4>3
    <3> QED BY <3>1, <3>2
  <2> HIDE DEF n, w
  <2>5. Take(z, n) = w
    BY <2>2, <2>3, <2>4, SeqEqual
  <2> QED BY <2>1, <2>5 DEF n, w
<1> QED BY <1>2, <1>3 DEF z

LEMMA CutLeft ==
  ASSUME NEW x \in Seq(Tokens), NEW y \in Seq(Tokens), NEW f, CutOf(x, f)
  PROVE  CutOf(x \o y, f)
<1>1. PICK m \in 0..Len(x) : \A a \in Solids : TokenCount(Take(x, m), a) = f[a]
  BY DEF CutOf
<1>2. m \in 0..Len(x \o y) /\ Take(x \o y, m) = Take(x, m)
  BY TakeOfConcat
<1> QED BY <1>1, <1>2 DEF CutOf

LEMMA CutRight ==
  ASSUME NEW x \in Seq(Tokens), NEW y \in Seq(Tokens), NEW f, CutOf(y, f),
         NEW g, \A a \in Solids : g[a] = TokenCount(x, a) + f[a]
  PROVE  CutOf(x \o y, g)
<1>1. PICK m \in 0..Len(y) : \A a \in Solids : TokenCount(Take(y, m), a) = f[a]
  BY DEF CutOf
<1>2. Len(x) + m \in 0..Len(x \o y) /\ Take(x \o y, Len(x) + m) = x \o Take(y, m)
  BY TakeOfConcat
<1>3. Take(y, m) \in Seq(Tokens)
  BY TakeText
<1>4. \A a \in Solids : TokenCount(x \o Take(y, m), a) = g[a]
  BY <1>1, <1>3, CountConcat
<1> QED BY <1>2, <1>4 DEF CutOf

\* The whole of a text, and nothing of it, are cuts.
LEMMA CutWhole ==
  ASSUME NEW s \in Seq(Tokens), NEW f, \A a \in Solids : f[a] = TokenCount(s, a)
  PROVE  CutOf(s, f)
<1>1. Len(s) \in 0..Len(s) /\ Take(s, Len(s)) = s
  BY LenProperties, SubSeqFull DEF Take
<1> QED BY <1>1 DEF CutOf

\* Two cuts of one text that are as far apart as the newlines between them
\* are one.
LEMMA CutThrough ==
  ASSUME NEW s \in Seq(Tokens), NEW m \in 0..Len(s), NEW n \in m..Len(s),
         \A i \in (m + 1)..n : s[i] = NL, NEW a \in Solids
  PROVE  TokenCount(Take(s, m), a) = TokenCount(Take(s, n), a)
<1>1. /\ Len(s) \in Nat /\ m \in Nat /\ n \in Nat /\ n \in 0..Len(s) /\ m \in 0..n /\ a # NL
  BY LenProperties DEF Solids
<1> DEFINE t == Take(s, n)
<1>2. /\ t \in Seq(Tokens) /\ Len(t) = n /\ \A i \in 1..n : t[i] = s[i]
      /\ Take(s, m) \in Seq(Tokens) /\ Len(Take(s, m)) = m
      /\ \A i \in 1..m : Take(s, m)[i] = s[i]
  BY <1>1, TakeText
<1> HIDE DEF t
<1>3. /\ Take(t, m) \in Seq(Tokens) /\ Len(Take(t, m)) = m
      /\ \A i \in 1..m : Take(t, m)[i] = t[i]
      /\ Drop(t, m) \in Seq(Tokens) /\ Len(Drop(t, m)) = n - m
      /\ \A i \in 1..(n - m) : Drop(t, m)[i] = t[m + i]
  BY <1>1, <1>2, TakeText, DropText, DropElements
<1>4. Take(t, m) = Take(s, m)
  <2>1. \A i \in 1..m : Take(t, m)[i] = Take(s, m)[i]
    BY <1>1, <1>2, <1>3
  <2> QED BY <1>2, <1>3, <2>1, SeqEqual
<1>5. TokenCount(Drop(t, m), a) = 0
  <2>1. ASSUME NEW i \in 1..(n - m) PROVE Drop(t, m)[i] = NL
    <3>1. m + i \in (m + 1)..n /\ m + i \in 1..n
      BY <1>1
    <3> QED BY <1>2, <1>3, <3>1
  <2> QED BY <1>1, <1>3, <2>1, CountBlank
<1>6. TokenCount(t, a) = TokenCount(Take(t, m), a) + TokenCount(Drop(t, m), a)
  BY <1>1, <1>2, CountSplit
<1>7. TokenCount(Take(t, m), a) \in Nat
  BY <1>3, CountPlaces
<1> QED BY <1>4, <1>5, <1>6, <1>7 DEF t

LEMMA CutTrimRight ==
  ASSUME NEW s \in Seq(Tokens), NEW f, CutOf(s, f)
  PROVE  CutOf(TrimRight(s), f)
<1> DEFINE n == TrimmedLen(s)
<1>1. n \in 0..Len(s) /\ Len(s) \in Nat /\ \A i \in (n + 1)..Len(s) : s[i] = NL
  BY TrimmedLenFact, LenProperties
<1>2. PICK m \in 0..Len(s) : \A a \in Solids : TokenCount(Take(s, m), a) = f[a]
  BY DEF CutOf
<1> DEFINE k == IF m <= n THEN m ELSE n
<1>3. k \in 0..n /\ k \in 0..Len(s) /\ \A a \in Solids : TokenCount(Take(s, k), a) = f[a]
  <2>1. CASE m <= n
    BY <1>1, <1>2, <2>1
  <2>2. CASE ~(m <= n)
    <3>1. m \in n..Len(s) /\ \A i \in (n + 1)..m : s[i] = NL
      BY <1>1, <2>2
    <3>2. \A a \in Solids : TokenCount(Take(s, n), a) = TokenCount(Take(s, m), a)
      BY <1>1, <3>1, CutThrough
    <3> QED BY <1>1, <1>2, <2>2, <3>2
  <2> QED BY <2>1, <2>2
<1> HIDE DEF k, n
<1>4. /\ TrimRight(s) = Take(s, n) /\ TrimRight(s) \in Seq(Tokens) /\ Len(TrimRight(s)) = n
      /\ \A i \in 1..n : TrimRight(s)[i] = s[i]
  BY <1>1, TakeText DEF TrimRight, n
<1>5. Take(TrimRight(s), k) = Take(s, k)
  <2>1. /\ Take(TrimRight(s), k) \in Seq(Tokens) /\ Len(Take(TrimRight(s), k)) = k
        /\ \A i \in 1..k : Take(TrimRight(s), k)[i] = TrimRight(s)[i]
        /\ Take(s, k) \in Seq(Tokens) /\ Len(Take(s, k)) = k
        /\ \A i \in 1..k : Take(s, k)[i] = s[i]
    BY <1>3, <1>4, TakeText
  <2>2. \A i \in 1..k : Take(TrimRight(s), k)[i] = Take(s, k)[i]
    BY <1>1, <1>3, <1>4, <2>1
  <2> QED BY <2>1, <2>2, SeqEqual
<1> QED BY <1>3, <1>4, <1>5 DEF CutOf

LEMMA CutTrimLeft ==
  ASSUME NEW s \in Seq(Tokens), NEW f, CutOf(s, f)
  PROVE  CutOf(TrimLeft(s), f)
<1> DEFINE n == BlankLen(s)
           x == Take(s, n)
           y == Drop(s, n)
<1>1. n \in 0..Len(s) /\ Len(s) \in Nat /\ \A i \in 1..n : s[i] = NL
  BY BlankLenFact, LenProperties
<1>2. PICK m \in 0..Len(s) : \A a \in Solids : TokenCount(Take(s, m), a) = f[a]
  BY DEF CutOf
<1> HIDE DEF n
<1>3. /\ x \in Seq(Tokens) /\ Len(x) = n /\ y \in Seq(Tokens) /\ Len(y) = Len(s) - n
      /\ \A i \in 1..n : x[i] = s[i]
  BY <1>1, TakeText, DropText
<1>4. s = x \o y
  <2>1. 1 \in 1..(Len(s) + 1) /\ n \in (1 - 1)..Len(s) /\ Len(s) \in n..Len(s)
    BY <1>1
  <2>2. SubSeq(s, 1, n) \o SubSeq(s, n + 1, Len(s)) = SubSeq(s, 1, Len(s))
    BY <2>1, ConcatAdjacentSubSeq
  <2> QED BY <2>2, SubSeqFull DEF Take, Drop
<1> DEFINE k == IF m <= n THEN 0 ELSE m - n
<1>5. k \in 0..Len(y)
  BY <1>1, <1>3
<1>6. \A a \in Solids : TokenCount(x, a) = 0
  BY <1>1, <1>3, CountBlank DEF Solids
<1> HIDE DEF x, y
<1>7. ASSUME NEW a \in Solids PROVE TokenCount(Take(y, k), a) = f[a]
  <2>1. Len(x) + k \in 0..Len(s) /\ Take(s, Len(x) + k) = x \o Take(y, k)
    BY <1>3, <1>4, <1>5, TakeOfConcat
  <2>2. Take(y, k) \in Seq(Tokens) /\ TokenCount(Take(y, k), a) \in Nat
    BY <1>3, <1>5, TakeText, CountPlaces
  <2>3. TokenCount(Take(s, Len(x) + k), a) = TokenCount(Take(y, k), a)
    <3>1. TokenCount(x \o Take(y, k), a) = TokenCount(x, a) + TokenCount(Take(y, k), a)
      BY <1>3, <2>2, CountConcat
    <3>2. TokenCount(x, a) = 0
      BY <1>6
    <3>3. TokenCount(Take(s, Len(x) + k), a) = TokenCount(x \o Take(y, k), a)
      BY <2>1
    <3> HIDE DEF k
    <3> QED BY <2>2, <3>1, <3>2, <3>3
  <2>4. TokenCount(Take(s, Len(x) + k), a) = TokenCount(Take(s, m), a)
    <3>1. CASE m <= n
      <4>1. Len(x) + k = n /\ n \in m..Len(s) /\ \A i \in (m + 1)..n : s[i] = NL
        BY <1>1, <1>3, <3>1
      <4> QED BY <4>1, CutThrough
    <3>2. CASE ~(m <= n)
      BY <1>1, <1>3, <3>2
    <3> QED BY <3>1, <3>2
  <2> QED BY <1>2, <2>3, <2>4
<1>8. TrimLeft(s) = y
  BY DEF TrimLeft, y, n
<1> HIDE DEF k
<1> QED BY <1>5, <1>7, <1>8 DEF CutOf

LEMMA CutEndLike ==
  ASSUME NEW s \in Seq(Tokens), NEW t \in Seq(Tokens), NEW f, CutOf(s, f)
  PROVE  CutOf(EndLike(s, t), f)
<1>1. CutOf(TrimRight(s), f) /\ TrimRight(s) \in Seq(Tokens)
  BY CutTrimRight, TrimRightText
<1>2. CutOf(TrimRight(s) \o <<NL>>, f)
  <2>1. <<NL>> \in Seq(Tokens)
    BY TokensAssumption
  <2> QED BY <1>1, <2>1, CutLeft
<1>3. Append(TrimRight(s), NL) = TrimRight(s) \o <<NL>>
  BY <1>1, TokensAssumption, AppendIsConcat
<1> QED BY <1>1, <1>2, <1>3 DEF EndLike

\* A text without solid tokens has one cut, and every text has that one.
LEMMA CutOfNothing ==
  ASSUME NEW s \in Seq(Tokens), NEW f, CutOf(s, f),
         \A a \in Solids : TokenCount(s, a) = 0
  PROVE  \A a \in Solids : f[a] = 0
<1>1. PICK m \in 0..Len(s) : \A a \in Solids : TokenCount(Take(s, m), a) = f[a]
  BY DEF CutOf
<1>2. Take(s, m) \in Seq(Tokens) /\ Drop(s, m) \in Seq(Tokens)
  BY TakeText, DropText
<1> TAKE a \in Solids
<1>3. TokenCount(s, a) = TokenCount(Take(s, m), a) + TokenCount(Drop(s, m), a)
  BY CountSplit
<1>4. TokenCount(Take(s, m), a) \in Nat /\ TokenCount(Drop(s, m), a) \in Nat
  BY <1>2, CountPlaces
<1> QED BY <1>1, <1>3, <1>4

LEMMA CutNone ==
  ASSUME NEW s \in Seq(Tokens), NEW f, \A a \in Solids : f[a] = 0
  PROVE  CutOf(s, f)
<1>1. 0 \in 0..Len(s) /\ Take(s, 0) \in Seq(Tokens) /\ Len(Take(s, 0)) = 0
  BY LenProperties, TakeText
<1>2. \A a \in Solids : TokenCount(Take(s, 0), a) = 0
  BY <1>1, CountBlank DEF Solids
<1> QED BY <1>1, <1>2 DEF CutOf

\* s is x, v and y one after the other, up to newlines: it has the cuts of
\* each, after what the ones before it hold.
Assembles(s, x, v, y) ==
  /\ \A f : CutOf(x, f) => CutOf(s, f)
  /\ \A f, g : /\ CutOf(v, f)
               /\ \A a \in Solids : g[a] = TokenCount(x, a) + f[a]
               => CutOf(s, g)
  /\ \A f, g : /\ CutOf(y, f)
               /\ \A a \in Solids : g[a] = TokenCount(x, a) + TokenCount(v, a) + f[a]
               => CutOf(s, g)

LEMMA CutJoin ==
  ASSUME NEW u \in Seq(Tokens), NEW v \in Seq(Tokens), NEW gap \in Nat
  PROVE  LET s == JoinWithSeparator(u, v, gap) IN
         /\ \A f : CutOf(u, f) => CutOf(s, f)
         /\ \A f, g : /\ CutOf(v, f)
                      /\ \A a \in Solids : g[a] = TokenCount(u, a) + f[a]
                      => CutOf(s, g)
<1> DEFINE x == TrimRight(u)
           y == TrimLeft(v)
           s == JoinWithSeparator(u, v, gap)
<1>1. x \in Seq(Tokens) /\ y \in Seq(Tokens) /\ s \in Seq(Tokens)
  BY TrimRightText, TrimLeftText, JoinText
<1>2. \A a \in Solids : /\ TokenCount(x, a) = TokenCount(u, a)
                        /\ TokenCount(y, a) = TokenCount(v, a)
                        /\ TokenCount(u, a) \in Nat /\ TokenCount(v, a) \in Nat
  BY CountTrimRight, CountTrimLeft, CountPlaces DEF Solids
<1>3. /\ Len(x) = 0 => \A a \in Solids : TokenCount(x, a) = 0
      /\ Len(y) = 0 => \A a \in Solids : TokenCount(y, a) = 0
  <2>1. Len(x) = 0 => \A i \in 1..Len(x) : x[i] = NL
    OBVIOUS
  <2>2. Len(y) = 0 => \A i \in 1..Len(y) : y[i] = NL
    OBVIOUS
  <2> QED BY <1>1, <2>1, <2>2, CountBlank DEF Solids
<1>4. s = IF Len(x) = 0 THEN y ELSE IF Len(y) = 0 THEN x ELSE x \o Newlines(gap) \o y
  BY DEF JoinWithSeparator
<1>5. Newlines(gap) \in Seq(Tokens) /\ x \o Newlines(gap) \in Seq(Tokens)
  BY <1>1, NewlinesText, ConcatProperties
<1>6. \A a \in Solids : TokenCount(x \o Newlines(gap), a) = TokenCount(u, a)
  <2>1. \A i \in 1..Len(Newlines(gap)) : Newlines(gap)[i] = NL
    BY LenProperties DEF Newlines
  <2>2. \A a \in Solids : TokenCount(Newlines(gap), a) = 0
    BY <1>5, <2>1, CountBlank DEF Solids
  <2>3. \A a : TokenCount(x \o Newlines(gap), a) = TokenCount(x, a) + TokenCount(Newlines(gap), a)
    BY <1>1, <1>5, CountConcat
  <2> QED BY <1>2, <2>2, <2>3
<1>7. ASSUME NEW f, CutOf(u, f) PROVE CutOf(s, f)
  <2>1. CutOf(x, f)
    BY <1>7, CutTrimRight
  <2> HIDE DEF x, y, s
  <2>2. CASE Len(x) = 0
    BY <1>1, <1>3, <1>4, <2>1, <2>2, CutOfNothing, CutNone
  <2>3. CASE Len(x) # 0 /\ Len(y) = 0
    BY <1>4, <2>1, <2>3
  <2>4. CASE Len(x) # 0 /\ Len(y) # 0
    BY <1>1, <1>4, <1>5, <2>1, <2>4, CutLeft
  <2> QED BY <2>2, <2>3, <2>4
<1>8. ASSUME NEW f, NEW g, CutOf(v, f), \A a \in Solids : g[a] = TokenCount(u, a) + f[a]
      PROVE  CutOf(s, g)
  <2>1. CutOf(y, f)
    BY <1>8, CutTrimLeft
  <2> HIDE DEF x, y, s
  <2>2. CASE Len(x) = 0
    <3>1. PICK m \in 0..Len(y) : \A a \in Solids : TokenCount(Take(y, m), a) = f[a]
      BY <2>1 DEF CutOf
    <3>2. Take(y, m) \in Seq(Tokens)
      BY <1>1, TakeText
    <3>3. \A a \in Solids : TokenCount(Take(y, m), a) \in Nat
      BY <3>2, CountPlaces
    <3>4. \A a \in Solids : g[a] = f[a]
      BY <1>2, <1>3, <1>8, <2>2, <3>1, <3>3
    <3> QED BY <1>4, <2>2, <3>1, <3>4 DEF CutOf
  <2>3. CASE Len(x) # 0 /\ Len(y) = 0
    <3>1. \A a \in Solids : f[a] = 0
      BY <1>1, <1>3, <2>1, <2>3, CutOfNothing
    <3>2. \A a \in Solids : g[a] = TokenCount(x, a)
      BY <1>2, <1>8, <3>1
    <3> QED BY <1>1, <1>4, <2>3, <3>2, CutWhole
  <2>4. CASE Len(x) # 0 /\ Len(y) # 0
    <3>1. \A a \in Solids : g[a] = TokenCount(x \o Newlines(gap), a) + f[a]
      BY <1>6, <1>8
    <3> DEFINE w == x \o Newlines(gap)
    <3>2. w \in Seq(Tokens) /\ \A a \in Solids : g[a] = TokenCount(w, a) + f[a]
      BY <1>5, <3>1
    <3>3. s = w \o y
      BY <1>4, <2>4
    <3> HIDE DEF w
    <3> QED BY <1>1, <2>1, <3>2, <3>3, CutRight
  <2> QED BY <2>2, <2>3, <2>4
<1> HIDE DEF s
<1>9. QED BY <1>7, <1>8 DEF s

\* Each splice puts the text of its edit between what is before it and what
\* is after it.
LEMMA ReplaceAssembles ==
  ASSUME NEW x \in Seq(Tokens), NEW v \in Seq(Tokens), NEW y \in Seq(Tokens)
  PROVE  Assembles((x \o v) \o y, x, v, y)
<1>1. x \o v \in Seq(Tokens) /\ \A a : TokenCount(x \o v, a) = TokenCount(x, a) + TokenCount(v, a)
  BY ConcatProperties, CountConcat
<1> DEFINE w == x \o v
<1>2. ASSUME NEW f, CutOf(x, f) PROVE CutOf(w \o y, f)
  <2>1. CutOf(w, f)
    BY <1>2, CutLeft
  <2> HIDE DEF w
  <2> QED BY <1>1, <2>1, CutLeft DEF w
<1>3. ASSUME NEW f, NEW g, CutOf(v, f), \A a \in Solids : g[a] = TokenCount(x, a) + f[a]
      PROVE  CutOf(w \o y, g)
  <2>1. CutOf(w, g)
    BY <1>3, CutRight
  <2> HIDE DEF w
  <2> QED BY <1>1, <2>1, CutLeft DEF w
<1>4. ASSUME NEW f, NEW g, CutOf(y, f),
             \A a \in Solids : g[a] = TokenCount(x, a) + TokenCount(v, a) + f[a]
      PROVE  CutOf(w \o y, g)
  <2>1. \A a \in Solids : g[a] = TokenCount(w, a) + f[a]
    BY <1>1, <1>4
  <2>2. w \in Seq(Tokens)
    BY <1>1
  <2> HIDE DEF w
  <2> QED BY <1>4, <2>1, <2>2, CutRight
<1> HIDE DEF w
<1> QED BY <1>2, <1>3, <1>4 DEF Assembles, w

LEMMA ExciseAssembles ==
  ASSUME NEW t \in Seq(Tokens), NEW o, o.start \in 0..Len(t), o.end \in 0..Len(t)
  PROVE  Assembles(SpliceExcise(t, o), Take(t, o.start), <<>>, Drop(t, o.end))
<1> DEFINE x == Take(t, o.start)
           y == Drop(t, o.end)
           s == SpliceExcise(t, o)
<1>1. /\ x \in Seq(Tokens) /\ y \in Seq(Tokens) /\ TrimLeft(y) \in Seq(Tokens)
      /\ TrimRight(x) \in Seq(Tokens)
  BY TakeText, DropText, TrimLeftText, TrimRightText
<1>2. s = IF Len(TrimLeft(y)) # 0 THEN x \o TrimLeft(y)
          ELSE IF Len(TrimRight(x)) = 0 THEN <<>> ELSE EndLike(x, t)
  BY DEF SpliceExcise
<1> HIDE DEF x, y, s
<1>3. /\ \A a \in Solids : TokenCount(x, a) \in Nat
      /\ Len(TrimLeft(y)) = 0 => \A a \in Solids : TokenCount(y, a) = 0
      /\ Len(TrimRight(x)) = 0 => \A a \in Solids : TokenCount(x, a) = 0
  BY <1>1, CountPlaces, CountTrimmedAway DEF Solids
<1>4. \A a : TokenCount(<<>>, a) = 0
  <2>1. \A a : {i \in DOMAIN <<>> : <<>>[i] = a} = {}
    OBVIOUS
  <2> QED BY <2>1, FS_EmptySet DEF TokenCount
<1>5. ASSUME NEW f, CutOf(x, f) PROVE CutOf(s, f)
  <2>1. CASE Len(TrimLeft(y)) # 0
    BY <1>1, <1>2, <1>5, <2>1, CutLeft
  <2>2. CASE Len(TrimLeft(y)) = 0 /\ Len(TrimRight(x)) = 0
    <3>1. <<>> \in Seq(Tokens) /\ s = <<>>
      BY <1>2, <2>2
    <3>2. \A a \in Solids : f[a] = 0
      BY <1>1, <1>3, <1>5, <2>2, CutOfNothing
    <3> QED BY <3>1, <3>2, CutNone
  <2>3. CASE Len(TrimLeft(y)) = 0 /\ Len(TrimRight(x)) # 0
    BY <1>1, <1>2, <1>5, <2>3, CutEndLike
  <2> QED BY <2>1, <2>2, <2>3
<1>6. ASSUME NEW f, NEW g, CutOf(y, f), \A a \in Solids : g[a] = TokenCount(x, a) + f[a]
      PROVE  CutOf(s, g)
  <2>1. CASE Len(TrimLeft(y)) # 0
    <3>1. CutOf(TrimLeft(y), f)
      BY <1>1, <1>6, CutTrimLeft
    <3> QED BY <1>1, <1>2, <1>6, <2>1, <3>1, CutRight
  <2>2. CASE Len(TrimLeft(y)) = 0
    <3>1. \A a \in Solids : f[a] = 0
      BY <1>1, <1>3, <1>6, <2>2, CutOfNothing
    <3>2. \A a \in Solids : g[a] = TokenCount(x, a)
      BY <1>3, <1>6, <3>1
    <3> QED BY <1>1, <1>5, <3>2, CutWhole
  <2> QED BY <2>1, <2>2
<1>7. ASSUME NEW f, NEW g, CutOf(<<>>, f), \A a \in Solids : g[a] = TokenCount(x, a) + f[a]
      PROVE  CutOf(s, g)
  <2>1. \A a \in Solids : f[a] = 0
    <3>1. <<>> \in Seq(Tokens)
      OBVIOUS
    <3>2. \A a \in Solids : TokenCount(<<>>, a) = 0
      BY <1>4
    <3> DEFINE n == <<>>
    <3> HIDE DEF n
    <3>3. n \in Seq(Tokens) /\ CutOf(n, f) /\ \A a \in Solids : TokenCount(n, a) = 0
      BY <1>7, <3>1, <3>2 DEF n
    <3> QED BY <3>3, CutOfNothing
  <2>2. CutOf(y, f)
    BY <1>1, <2>1, CutNone
  <2> QED BY <1>6, <1>7, <2>2
<1>8. ASSUME NEW f, NEW g, CutOf(y, f),
             \A a \in Solids : g[a] = TokenCount(x, a) + TokenCount(<<>>, a) + f[a]
      PROVE  CutOf(s, g)
  <2>1. \A a \in Solids : g[a] = TokenCount(x, a) + f[a]
    BY <1>3, <1>4, <1>8
  <2> QED BY <1>6, <1>8, <2>1
<1>9. Assembles(s, x, <<>>, y)
  BY <1>5, <1>7, <1>8 DEF Assembles
<1> QED BY <1>9 DEF s, x, y

LEMMA InsertAssembles ==
  ASSUME NEW t \in Seq(Tokens), NEW o, o.text \in Seq(Tokens), NEW b \in 0..Len(t),
         b = (IF o.start < Len(t) THEN o.start ELSE Len(t)),
         o.member \in BOOLEAN, o.lead \in Nat, o.trail \in Nat
  PROVE  Assembles(SpliceInsert(t, o), Take(t, b), o.text, Drop(t, b))
<1> DEFINE x == Take(t, b)
           y == Drop(t, b)
           v == o.text
           w == JoinWithSeparator(x, v, WiderGap(o.member, o.lead))
           s == SpliceInsert(t, o)
<1>1. /\ x \in Seq(Tokens) /\ y \in Seq(Tokens) /\ v \in Seq(Tokens)
      /\ WiderGap(o.member, o.lead) \in Nat /\ WiderGap(o.member, o.trail) \in Nat
  BY TakeText, DropText, WiderGapNat
<1>2. s = IF Len(TrimLeft(y)) = 0 THEN EndLike(w, t)
          ELSE JoinWithSeparator(w, y, WiderGap(o.member, o.trail))
  BY DEF SpliceInsert
<1> HIDE DEF x, y, v, s
<1>3. /\ w \in Seq(Tokens)
      /\ \A a \in Solids : TokenCount(w, a) = TokenCount(x, a) + TokenCount(v, a)
  <2>1. w \in Seq(Tokens)
    BY <1>1, JoinText
  <2>2. ASSUME NEW a \in Solids
        PROVE  TokenCount(w, a) = TokenCount(x, a) + TokenCount(v, a)
    <3>1. a # NL
      BY DEF Solids
    <3> QED BY <1>1, <3>1, CountJoin
  <2> QED BY <2>1, <2>2
<1>4. /\ \A f : CutOf(x, f) => CutOf(w, f)
      /\ \A f, g : /\ CutOf(v, f)
                   /\ \A a \in Solids : g[a] = TokenCount(x, a) + f[a]
                   => CutOf(w, g)
  BY <1>1, CutJoin
<1> HIDE DEF w
<1>5. ASSUME NEW f, CutOf(w, f) PROVE CutOf(s, f)
  <2>1. CASE Len(TrimLeft(y)) = 0
    BY <1>2, <1>3, <1>5, <2>1, CutEndLike
  <2>2. CASE Len(TrimLeft(y)) # 0
    BY <1>1, <1>2, <1>3, <1>5, <2>2, CutJoin
  <2> QED BY <2>1, <2>2
<1>6. ASSUME NEW f, NEW g, CutOf(y, f), \A a \in Solids : g[a] = TokenCount(w, a) + f[a]
      PROVE  CutOf(s, g)
  <2>1. CASE Len(TrimLeft(y)) = 0
    <3>1. \A a \in Solids : TokenCount(y, a) = 0 /\ TokenCount(w, a) \in Nat
      BY <1>1, <1>3, <2>1, CountTrimmedAway, CountPlaces DEF Solids
    <3>2. \A a \in Solids : f[a] = 0
      BY <1>1, <1>6, <3>1, CutOfNothing
    <3>3. \A a \in Solids : g[a] = TokenCount(w, a)
      BY <1>6, <3>1, <3>2
    <3> QED BY <1>3, <1>5, <3>3, CutWhole
  <2>2. CASE Len(TrimLeft(y)) # 0
    BY <1>1, <1>2, <1>3, <1>6, <2>2, CutJoin
  <2> QED BY <2>1, <2>2
<1>7. ASSUME NEW f, NEW g, CutOf(y, f),
             \A a \in Solids : g[a] = TokenCount(x, a) + TokenCount(v, a) + f[a]
      PROVE  CutOf(s, g)
  <2>1. \A a \in Solids : g[a] = TokenCount(w, a) + f[a]
    BY <1>3, <1>7
  <2> QED BY <1>6, <1>7, <2>1
<1>8. Assembles(s, x, v, y)
  BY <1>4, <1>5, <1>7 DEF Assembles
<1> QED BY <1>8 DEF s, x, y, v

\* What is left of a cut when a prefix that the cut holds is dropped.
LEMMA CutDrop ==
  ASSUME NEW s \in Seq(Tokens), NEW f, NEW g, CutOf(s, f), NEW e \in 0..Len(s),
         \A a \in Solids : /\ g[a] \in Nat
                           /\ f[a] = TokenCount(Take(s, e), a) + g[a]
  PROVE  CutOf(Drop(s, e), g)
<1>1. PICK m \in 0..Len(s) : \A a \in Solids : TokenCount(Take(s, m), a) = f[a]
  BY DEF CutOf
<1>2. /\ Len(s) \in Nat /\ e \in Nat /\ m \in Nat
      /\ Take(s, e) \in Seq(Tokens) /\ Len(Take(s, e)) = e
      /\ Drop(s, e) \in Seq(Tokens) /\ Len(Drop(s, e)) = Len(s) - e
  BY TakeText, DropText, LenProperties
<1>3. s = Take(s, e) \o Drop(s, e)
  <2>1. 1 \in 1..(Len(s) + 1) /\ e \in (1 - 1)..Len(s) /\ Len(s) \in e..Len(s)
    BY <1>2
  <2>2. SubSeq(s, 1, e) \o SubSeq(s, e + 1, Len(s)) = SubSeq(s, 1, Len(s))
    BY <2>1, ConcatAdjacentSubSeq
  <2> QED BY <2>2, SubSeqFull DEF Take, Drop
<1>4. \A a \in Solids : TokenCount(Take(s, e), a) \in Nat
  BY <1>2, CountPlaces
<1>5. CASE e <= m
  <2> DEFINE k == m - e
             x == Take(s, e)
             y == Drop(s, e)
  <2>1. k \in 0..Len(y)
    BY <1>2, <1>5
  <2>2. /\ x \in Seq(Tokens) /\ y \in Seq(Tokens) /\ s = x \o y /\ Len(x) = e
        /\ e + k = m
    <3>1. e + (m - e) = m
      BY <1>2
    <3> QED BY <1>2, <1>3, <3>1
  <2> HIDE DEF x, y, k
  <2>3. Take(s, m) = x \o Take(y, k) /\ Take(y, k) \in Seq(Tokens)
    BY <2>1, <2>2, TakeOfConcat, TakeText
  <2>4. ASSUME NEW a \in Solids PROVE TokenCount(Take(y, k), a) = g[a]
    <3>1. TokenCount(x \o Take(y, k), a) = TokenCount(x, a) + TokenCount(Take(y, k), a)
      BY <2>2, <2>3, CountConcat
    <3>2. TokenCount(x, a) \in Nat /\ TokenCount(Take(y, k), a) \in Nat
      BY <2>2, <2>3, CountPlaces
    <3>3. TokenCount(x \o Take(y, k), a) = f[a]
      BY <1>1, <2>3
    <3>4. f[a] = TokenCount(x, a) + g[a] /\ g[a] \in Nat
      BY DEF x
    <3> QED BY <3>1, <3>2, <3>3, <3>4
  <2>5. CutOf(y, g)
    BY <2>1, <2>4 DEF CutOf
  <2> QED BY <2>5 DEF y
<1>6. CASE m < e
  <2>1. \A a \in Solids : g[a] = 0
    <3> TAKE a \in Solids
    <3> DEFINE t == Take(s, e)
    <3>1. /\ t \in Seq(Tokens) /\ Len(t) = e /\ \A i \in 1..e : t[i] = s[i]
          /\ Take(s, m) \in Seq(Tokens) /\ Len(Take(s, m)) = m
          /\ \A i \in 1..m : Take(s, m)[i] = s[i]
      BY TakeText
    <3> HIDE DEF t
    <3>0. m \in 0..Len(t)
      BY <1>2, <1>6, <3>1
    <3>2. /\ Take(t, m) \in Seq(Tokens) /\ Len(Take(t, m)) = m
          /\ \A i \in 1..m : Take(t, m)[i] = t[i]
          /\ Drop(t, m) \in Seq(Tokens)
      BY <3>0, <3>1, TakeText, DropText
    <3>3. Take(t, m) = Take(s, m)
      <4>1. \A i \in 1..m : Take(t, m)[i] = Take(s, m)[i]
        BY <1>2, <1>6, <3>1, <3>2
      <4> QED BY <3>1, <3>2, <4>1, SeqEqual
    <3>4. TokenCount(t, a) = TokenCount(Take(t, m), a) + TokenCount(Drop(t, m), a)
      BY <3>0, <3>1, CountSplit
    <3>5. TokenCount(Take(t, m), a) \in Nat /\ TokenCount(Drop(t, m), a) \in Nat
      BY <3>2, CountPlaces
    <3>6. TokenCount(Take(t, m), a) = f[a] /\ f[a] = TokenCount(t, a) + g[a] /\ g[a] \in Nat
      BY <1>1, <3>3 DEF t
    <3> QED BY <3>4, <3>5, <3>6
  <2> QED BY <1>2, <2>1, CutNone
<1> QED BY <1>2, <1>5, <1>6

-----------------------------------------------------------------------------
(* Ledgers: how often a token is in HEAD outside some ranges and in the    *)
(* texts of some edits.                                                    *)

LEMMA KeptFinite ==
  ASSUME SpliceTypeOK
  PROVE  /\ IsFiniteSet(DOMAIN kept)
         /\ \A i \in DOMAIN kept : kept[i] \in OpOf(head) /\ Added(kept[i]) \in Seq(Tokens)
<1>1. DOMAIN kept = 1..Len(kept) /\ Len(kept) \in Nat
  BY LenProperties DEF SpliceTypeOK
<1>2. IsFiniteSet(1..Len(kept))
  BY <1>1, FS_Interval
<1>3. \A i \in DOMAIN kept : kept[i] \in OpOf(head)
  BY <1>1, ElementOfSeq DEF SpliceTypeOK
<1>4. \A i \in DOMAIN kept : kept[i].text \in Seq(Tokens)
  BY <1>3 DEF OpOf
<1>5. <<>> \in Seq(Tokens)
  OBVIOUS
<1> QED BY <1>1, <1>2, <1>3, <1>4, <1>5 DEF Added

LEMMA DisjointCount ==
  ASSUME NEW S, NEW T, IsFiniteSet(S), IsFiniteSet(T), S \cap T = {}
  PROVE  Cardinality(S \cup T) = Cardinality(S) + Cardinality(T)
<1>1. Cardinality(S \cup T) = Cardinality(S) + Cardinality(T) - Cardinality(S \cap T)
  BY FS_Union
<1>2. Cardinality(S \cap T) = 0
  BY FS_EmptySet
<1>3. Cardinality(S) \in Nat /\ Cardinality(T) \in Nat
  BY FS_CardinalityType
<1> QED BY <1>1, <1>2, <1>3

LEMMA BringsOne ==
  ASSUME SpliceTypeOK, NEW i \in DOMAIN kept, NEW x
  PROVE  /\ IsFiniteSet(Brings({i}, x))
         /\ Cardinality(Brings({i}, x)) = TokenCount(Added(kept[i]), x)
<1> DEFINE S == {l \in DOMAIN Added(kept[i]) : Added(kept[i])[l] = x}
<1>1. Added(kept[i]) \in Seq(Tokens)
  BY KeptFinite
<1>2. IsFiniteSet(S) /\ Cardinality(S) = TokenCount(Added(kept[i]), x) /\ Cardinality(S) \in Nat
  <2>1. DOMAIN Added(kept[i]) = 1..Len(Added(kept[i]))
    BY <1>1, LenProperties
  <2> QED BY <1>1, <2>1, CountPlaces, FS_CardinalityType DEF TokenCount, Places
<1>3. Brings({i}, x) = {i} \X S
  <2>1. {{j} \X {l \in DOMAIN Added(kept[j]) : Added(kept[j])[l] = x} : j \in {i}} = {{i} \X S}
    BY Zenon
  <2>2. UNION {{i} \X S} = {i} \X S
    BY Zenon
  <2> HIDE DEF S
  <2> QED BY <2>1, <2>2, Zenon DEF Brings
<1> HIDE DEF S
<1>4. IsFiniteSet({i}) /\ Cardinality({i}) = 1
  BY FS_Singleton
<1>5. IsFiniteSet({i} \X S) /\ Cardinality({i} \X S) = Cardinality({i}) * Cardinality(S)
  BY <1>2, <1>4, FS_Product
<1> QED BY <1>2, <1>3, <1>4, <1>5

LEMMA BringsFinite ==
  ASSUME SpliceTypeOK, NEW E \in SUBSET DOMAIN kept, NEW x
  PROVE  IsFiniteSet(Brings(E, x)) /\ Cardinality(Brings(E, x)) \in Nat
<1> DEFINE f == [i \in E |-> {i} \X {l \in DOMAIN Added(kept[i]) : Added(kept[i])[l] = x}]
           T == {f[i] : i \in E}
<1>1. IsFiniteSet(E)
  BY KeptFinite, FS_Subset
<1>2. IsFiniteSet(T)
  <2>1. f \in Surjection(E, T)
    BY DEF Surjection
  <2> QED BY <1>1, <2>1, FS_Surjection
<1>3. \A U \in T : IsFiniteSet(U)
  <2> TAKE U \in T
  <2>1. PICK i \in E : U = f[i]
    OBVIOUS
  <2>2. f[i] = {i} \X {l \in DOMAIN Added(kept[i]) : Added(kept[i])[l] = x}
    OBVIOUS
  <2>3. f[i] = Brings({i}, x)
    <3>1. {{j} \X {l \in DOMAIN Added(kept[j]) : Added(kept[j])[l] = x} : j \in {i}} = {f[i]}
      BY <2>2
    <3>2. UNION {f[i]} = f[i]
      BY Zenon
    <3> HIDE DEF f
    <3> QED BY <3>1, <3>2, Zenon DEF Brings
  <2> QED BY <2>1, <2>3, BringsOne
<1>4. Brings(E, x) = UNION T
  <2>1. T = {{i} \X {l \in DOMAIN Added(kept[i]) : Added(kept[i])[l] = x} : i \in E}
    OBVIOUS
  <2> QED BY <2>1 DEF Brings
<1> HIDE DEF T
<1> QED BY <1>2, <1>3, <1>4, FS_UNION, FS_CardinalityType

LEMMA BringsNone ==
  \A x : Brings({}, x) = {} /\ Cardinality(Brings({}, x)) = 0
<1>1. \A x : Brings({}, x) = {}
  BY DEF Brings
<1> QED BY <1>1, FS_EmptySet

LEMMA BringsBoth ==
  ASSUME SpliceTypeOK, NEW E \in SUBSET DOMAIN kept, NEW G \in SUBSET DOMAIN kept,
         E \cap G = {}, NEW x
  PROVE  Cardinality(Brings(E \cup G, x)) = Cardinality(Brings(E, x)) + Cardinality(Brings(G, x))
<1>1. IsFiniteSet(Brings(E, x)) /\ IsFiniteSet(Brings(G, x))
      /\ Cardinality(Brings(E, x)) \in Nat /\ Cardinality(Brings(G, x)) \in Nat
  BY BringsFinite
<1> DEFINE Of(i) == {i} \X {l \in DOMAIN Added(kept[i]) : Added(kept[i])[l] = x}
<1>2. \A S : \A z : z \in Brings(S, x) <=> \E i \in S : z \in Of(i)
  BY DEF Brings
<1>3. \A i : \A z \in Of(i) : z[1] = i
  OBVIOUS
<1> HIDE DEF Of
<1>4. Brings(E \cup G, x) = Brings(E, x) \cup Brings(G, x)
  BY <1>2
<1>5. Brings(E, x) \cap Brings(G, x) = {}
  BY <1>2, <1>3
<1> QED BY <1>1, <1>4, <1>5, DisjointCount

\* How often HEAD has a token before an offset.
HeadCount(n, x) == TokenCount(Take(head, n), x)

LEMMA HeadPlaces ==
  ASSUME head \in Seq(Tokens), NEW n \in 0..Len(head), NEW x
  PROVE  /\ HeadCount(n, x) = Cardinality({l \in 1..n : head[l] = x})
         /\ HeadCount(n, x) \in Nat
<1>1. Take(head, n) \in Seq(Tokens) /\ Len(Take(head, n)) = n
      /\ \A i \in 1..n : Take(head, n)[i] = head[i]
  BY TakeText
<1>2. Places(Take(head, n), x) = {l \in 1..n : head[l] = x}
  BY <1>1 DEF Places
<1> QED BY <1>1, <1>2, CountPlaces DEF HeadCount

\* Where the text of an edit goes on in HEAD.
Reach(o) == IF o.kind = "insert" THEN o.start ELSE o.end

LEMMA KeptFields ==
  ASSUME SpliceTypeOK, NEW i \in DOMAIN kept
  PROVE  /\ kept[i].start \in Nat /\ kept[i].end \in Nat
         /\ kept[i].start <= Len(head) /\ kept[i].end <= Len(head)
         /\ kept[i].kind # "insert" => kept[i].start < kept[i].end
         /\ kept[i].kind \in Kinds
<1>1. kept[i] \in OpOf(head) /\ head \in Seq(Tokens)
  BY KeptFinite DEF SpliceTypeOK
<1> QED BY <1>1, OpFields

\* Before the ranges of D a ledger is HEAD's.
LEMMA RemainingBefore ==
  ASSUME SpliceTypeOK, NEW D \in SUBSET DOMAIN kept, NEW n \in 0..Len(head), NEW x,
         \A i \in D : kept[i].kind # "insert" => n <= kept[i].start
  PROVE  Cardinality(Remaining(D, n, x)) = HeadCount(n, x)
<1>1. \A i \in D : kept[i].kind # "insert" => \A l \in 1..n : l <= kept[i].start \/ kept[i].end < l
  <2> TAKE i \in D
  <2> HAVE kept[i].kind # "insert"
  <2>1. n <= kept[i].start /\ kept[i].start \in Nat
    BY KeptFields
  <2> QED BY <2>1
<1>2. Remaining(D, n, x) = {l \in 1..n : head[l] = x}
  BY <1>1 DEF Remaining
<1> QED BY <1>2, HeadPlaces DEF SpliceTypeOK

\* D are edits that lie behind p, and G the ones p stands for.
Behind(D, p) == D \in SUBSET DOMAIN kept /\ \A i \in D : Reach(p) <= kept[i].start

Slotted(G, p) ==
  /\ G \in SUBSET DOMAIN kept /\ G # {}
  /\ \A i \in G : /\ kept[i].start = p.start
                  /\ kept[i].kind = "insert" <=> p.kind = "insert"
                  /\ kept[i].kind # "insert" => kept[i].end = p.end

\* The edits spliced so far come after p, and G is p's: across p's range
\* the ledger stands still, and after it the ledger lacks what HEAD has there.
LEMMA RemainingAcross ==
  ASSUME SpliceTypeOK, NEW p \in OpOf(head),
         NEW D, Behind(D, p), NEW G, Slotted(G, p), NEW n \in 0..Len(head), p.start <= n, n <= Reach(p), NEW x
  PROVE  Cardinality(Remaining(D \cup G, n, x)) = HeadCount(p.start, x)
<1> USE DEF Behind, Slotted
<1>1. /\ p.start \in Nat /\ p.end \in Nat /\ p.start <= Len(head) /\ n \in Nat
      /\ p.kind # "insert" => p.start < p.end
  BY OpFields DEF SpliceTypeOK
<1>2. CASE p.kind = "insert"
  <2>1. n = p.start
    BY <1>1, <1>2 DEF Reach
  <2>2. \A i \in D \cup G : kept[i].kind # "insert" => n <= kept[i].start
    BY <1>2, <2>1 DEF Reach
  <2> QED BY <2>1, <2>2, RemainingBefore
<1>3. CASE p.kind # "insert"
  <2>1. \A i \in D : kept[i].kind # "insert" => \A l \in 1..n : l <= kept[i].start
    <3> TAKE i \in D
    <3>1. n <= kept[i].start /\ kept[i].start \in Nat
      BY <1>1, <1>3, KeptFields DEF Reach
    <3> QED BY <3>1
  <2>2. PICK g \in G : TRUE
    OBVIOUS
  <2>3. kept[g].kind # "insert" /\ kept[g].start = p.start /\ kept[g].end = p.end
    BY <1>3, <2>2
  <2>4. \A i \in G : kept[i].start = p.start /\ kept[i].end = p.end
    BY <1>3
  <2>5. ASSUME NEW l \in 1..n
        PROVE  (\A i \in D \cup G : kept[i].kind # "insert" =>
                  l <= kept[i].start \/ kept[i].end < l) <=> l \in 1..p.start
    <3>1. CASE l <= p.start
      <4>1. \A i \in D \cup G : kept[i].kind # "insert" => l <= kept[i].start
        BY <2>1, <2>4, <3>1
      <4> QED BY <1>1, <3>1, <4>1
    <3>2. CASE ~(l <= p.start)
      <4>1. l <= p.end /\ l \in Nat
        BY <1>1, <1>3 DEF Reach
      <4>2. ~(l <= kept[g].start \/ kept[g].end < l)
        BY <1>1, <2>3, <3>2, <4>1
      <4> QED BY <1>1, <2>2, <2>3, <3>2, <4>2
    <3> QED BY <3>1, <3>2
  <2>6. Remaining(D \cup G, n, x) = {l \in 1..p.start : head[l] = x}
    <3>1. \A l \in 1..p.start : l \in 1..n
      BY <1>1
    <3>2. Remaining(D \cup G, n, x) = {l \in 1..n : head[l] = x /\ l \in 1..p.start}
      BY <2>5 DEF Remaining
    <3> QED BY <3>1, <3>2
  <2>7. p.start \in 0..Len(head)
    BY <1>1
  <2>8. HeadCount(p.start, x) = Cardinality({l \in 1..p.start : head[l] = x})
    BY <2>7, HeadPlaces DEF SpliceTypeOK
  <2> QED BY <2>6, <2>8
<1> QED BY <1>2, <1>3

LEMMA RemainingAfter ==
  ASSUME SpliceTypeOK, NEW p \in OpOf(head),
         NEW D, Behind(D, p), NEW G, Slotted(G, p), NEW n \in 0..Len(head), Reach(p) <= n, NEW x
  PROVE  \E rest \in Nat :
           /\ Cardinality(Remaining(D, n, x)) = HeadCount(Reach(p), x) + rest
           /\ Cardinality(Remaining(D \cup G, n, x)) = HeadCount(p.start, x) + rest
<1> USE DEF Behind, Slotted
<1> DEFINE e == Reach(p)
           R == {l \in Remaining(D, n, x) : e < l}
           A == {l \in 1..e : head[l] = x}
           B == {l \in 1..p.start : head[l] = x}
<1>1. /\ p.start \in Nat /\ p.end \in Nat /\ p.start <= Len(head) /\ n \in Nat
      /\ p.kind # "insert" => p.start < p.end
      /\ e \in Nat /\ e <= n /\ p.start <= e /\ n <= Len(head) /\ Len(head) \in Nat
  BY OpFields, LenProperties DEF SpliceTypeOK, Reach
<1>2. \A i \in D : kept[i].kind # "insert" => kept[i].start \in Nat /\ e <= kept[i].start
  BY KeptFields
<1>3. \A i \in G : kept[i].kind # "insert" => kept[i].start = p.start /\ kept[i].end = e
  BY DEF Reach
<1>4. \A i \in G : kept[i].kind = "insert" => e = p.start
  BY DEF Reach
<1> HIDE DEF e
<1>5. Remaining(D, n, x) = A \cup R
  <2>1. ASSUME NEW l \in A PROVE l \in Remaining(D, n, x)
    <3>1. l \in 1..n /\ head[l] = x
      BY <1>1
    <3>2. \A i \in D : kept[i].kind # "insert" => l <= kept[i].start
      BY <1>1, <1>2
    <3> QED BY <3>1, <3>2 DEF Remaining
  <2>2. ASSUME NEW l \in Remaining(D, n, x), ~(e < l) PROVE l \in A
    <3>1. l \in 1..n /\ head[l] = x
      BY DEF Remaining
    <3> QED BY <1>1, <2>2, <3>1
  <2> QED BY <2>1, <2>2
<1>6. Remaining(D \cup G, n, x) = B \cup R
  <2>1. ASSUME NEW l \in B PROVE l \in Remaining(D \cup G, n, x)
    <3>1. l \in 1..n /\ head[l] = x /\ l <= p.start /\ l <= e
      BY <1>1
    <3>2. \A i \in D \cup G : kept[i].kind # "insert" => l <= kept[i].start
      BY <1>1, <1>2, <1>3, <3>1
    <3> QED BY <3>1, <3>2 DEF Remaining
  <2>2. ASSUME NEW l \in R PROVE l \in Remaining(D \cup G, n, x)
    <3>1. l \in 1..n /\ head[l] = x /\ e < l
      BY DEF Remaining
    <3>2. \A i \in D : kept[i].kind # "insert" => l <= kept[i].start \/ kept[i].end < l
      BY DEF Remaining
    <3>3. \A i \in G : kept[i].kind # "insert" => kept[i].end < l
      BY <1>3, <3>1
    <3> QED BY <3>1, <3>2, <3>3 DEF Remaining
  <2>3. ASSUME NEW l \in Remaining(D \cup G, n, x), l \notin R PROVE l \in B
    <3>1. /\ l \in 1..n /\ head[l] = x
          /\ \A i \in D \cup G : kept[i].kind # "insert" => l <= kept[i].start \/ kept[i].end < l
      BY DEF Remaining
    <3>2. l \in Remaining(D, n, x)
      BY <3>1 DEF Remaining
    <3>3. l <= e
      BY <1>1, <2>3, <3>1, <3>2
    <3>4. PICK g \in G : TRUE
      OBVIOUS
    <3>5. CASE kept[g].kind = "insert"
      BY <1>1, <1>4, <3>1, <3>3, <3>4, <3>5
    <3>6. CASE kept[g].kind # "insert"
      <4>1. l <= p.start \/ e < l
        BY <1>3, <3>1, <3>4, <3>6
      <4> QED BY <1>1, <3>1, <3>3, <4>1
    <3> QED BY <3>5, <3>6
  <2> QED BY <2>1, <2>2, <2>3
<1>7. /\ IsFiniteSet(A) /\ IsFiniteSet(B) /\ IsFiniteSet(R)
      /\ Cardinality(A) = HeadCount(e, x) /\ Cardinality(B) = HeadCount(p.start, x)
      /\ Cardinality(A) \in Nat /\ Cardinality(B) \in Nat /\ Cardinality(R) \in Nat
  <2>1. A \in SUBSET (1..n) /\ B \in SUBSET (1..n) /\ R \in SUBSET (1..n)
    BY <1>1 DEF Remaining
  <2>2. IsFiniteSet(1..n)
    BY <1>1, FS_Interval
  <2>3. IsFiniteSet(A) /\ IsFiniteSet(B) /\ IsFiniteSet(R)
    <3> HIDE DEF A, B, R
    <3> QED BY <2>1, <2>2, FS_Subset
  <2>4. e \in 0..Len(head) /\ p.start \in 0..Len(head)
    BY <1>1
  <2>5. Cardinality(A) = HeadCount(e, x) /\ Cardinality(B) = HeadCount(p.start, x)
    BY <2>4, HeadPlaces DEF SpliceTypeOK
  <2> HIDE DEF A, B, R
  <2> QED BY <2>3, <2>5, FS_CardinalityType
<1>8. A \cap R = {} /\ B \cap R = {}
  <2>1. \A l \in R : l \in Nat /\ e < l
    BY <1>1 DEF Remaining
  <2> HIDE DEF R
  <2> QED BY <1>1, <2>1
<1> HIDE DEF A, B, R
<1>9. /\ Cardinality(A \cup R) = Cardinality(A) + Cardinality(R)
      /\ Cardinality(B \cup R) = Cardinality(B) + Cardinality(R)
  BY <1>7, <1>8, DisjointCount
<1> QED BY <1>5, <1>6, <1>7, <1>9 DEF e

-----------------------------------------------------------------------------
(* The splice of an edit, as cuts. *)

\* A text that starts as another one starts as that one.
LEMMA TakeAgrees ==
  ASSUME NEW S, NEW s \in Seq(S), NEW t \in Seq(S), NEW n \in Nat, Agrees(s, t, n)
  PROVE  n \in 0..Len(s) /\ n \in 0..Len(t) /\ Take(s, n) = Take(t, n)
<1>1. n \in 0..Len(s) /\ n \in 0..Len(t)
  BY LenProperties DEF Agrees
<1>2. /\ Take(s, n) \in Seq(S) /\ Len(Take(s, n)) = n /\ \A i \in 1..n : Take(s, n)[i] = s[i]
      /\ Take(t, n) \in Seq(S) /\ Len(Take(t, n)) = n /\ \A i \in 1..n : Take(t, n)[i] = t[i]
  BY <1>1, TakeText
<1>3. \A i \in 1..n : Take(s, n)[i] = Take(t, n)[i]
  BY <1>2 DEF Agrees
<1> QED BY <1>1, <1>2, <1>3, SeqEqual

LEMMA TakeTake ==
  ASSUME NEW S, NEW s \in Seq(S), NEW n \in 0..Len(s), NEW m \in 0..n
  PROVE  /\ m \in 0..Len(s) /\ m \in 0..Len(Take(s, n))
         /\ Take(Take(s, n), m) = Take(s, m)
<1>1. Take(s, n) \in Seq(S) /\ Len(Take(s, n)) = n /\ \A i \in 1..n : Take(s, n)[i] = s[i]
  BY TakeText
<1>2. Len(s) \in Nat /\ m \in Nat /\ n \in Nat /\ m <= Len(s)
  BY LenProperties
<1>3. Agrees(Take(s, n), s, m)
  BY <1>1, <1>2 DEF Agrees
<1> QED BY <1>1, <1>2, <1>3, TakeAgrees

\* s starts as HEAD does up to the newlines before offset n, and has only
\* newlines from there to n.
Near(s, n) ==
  LET k == TrimmedLen(Take(head, n)) IN
  /\ Agrees(s, head, k)
  /\ \A i \in (k + 1)..n : i <= Len(s) => s[i] = NL

LEMMA NearFact ==
  ASSUME head \in Seq(Tokens), NEW n \in 0..Len(head)
  PROVE  LET k == TrimmedLen(Take(head, n)) IN
         /\ k \in 0..n
         /\ \A i \in (k + 1)..n : head[i] = NL
         /\ k = 0 \/ head[k] # NL
<1> DEFINE t == Take(head, n)
           k == TrimmedLen(t)
<1>1. t \in Seq(Tokens) /\ Len(t) = n /\ \A i \in 1..n : t[i] = head[i]
  BY TakeText
<1> HIDE DEF t
<1>2. k \in 0..n /\ (\A i \in (k + 1)..n : t[i] = NL) /\ (k = 0 \/ t[k] # NL)
  BY <1>1, TrimmedLenFact
<1>3. \A i \in (k + 1)..n : i \in 1..n
  BY <1>2
<1>4. k # 0 => k \in 1..n
  BY <1>2
<1> HIDE DEF k
<1>5. k \in 0..n /\ (\A i \in (k + 1)..n : head[i] = NL) /\ (k = 0 \/ head[k] # NL)
  BY <1>1, <1>2, <1>3, <1>4
<1> QED BY <1>5 DEF k, t

LEMMA NearAgrees ==
  ASSUME head \in Seq(Tokens), NEW s \in Seq(Tokens), NEW n \in 0..Len(head),
         NEW m \in Nat, n <= m, Agrees(s, head, m)
  PROVE  Near(s, n)
<1> DEFINE k == TrimmedLen(Take(head, n))
<1>1. k \in 0..n /\ \A i \in (k + 1)..n : head[i] = NL
  BY NearFact
<1> HIDE DEF k
<1>2. Agrees(s, head, k)
  BY <1>1 DEF Agrees
<1>3. \A i \in (k + 1)..n : i \in 1..m
  BY <1>1
<1>4. \A i \in (k + 1)..n : s[i] = NL
  BY <1>1, <1>3 DEF Agrees
<1> QED BY <1>2, <1>4 DEF Near, k

\* Then the two have the same tokens up to there, and s has HEAD's cuts.
LEMMA NearCounts ==
  ASSUME head \in Seq(Tokens), NEW s \in Seq(Tokens), NEW n \in 0..Len(head), Near(s, n),
         NEW b \in 0..Len(s), b = (IF n < Len(s) THEN n ELSE Len(s))
  PROVE  /\ \A x \in Solids : TokenCount(Take(s, b), x) = HeadCount(n, x)
         /\ \A m \in 0..n : CutOf(Take(s, b), [x \in Solids |-> HeadCount(m, x)])
<1> DEFINE k == TrimmedLen(Take(head, n))
<1>1. k \in 0..n /\ \A i \in (k + 1)..n : head[i] = NL
  BY NearFact
<1>2. Agrees(s, head, k) /\ \A i \in (k + 1)..n : i <= Len(s) => s[i] = NL
  BY DEF Near
<1> HIDE DEF k
<1>3. /\ Len(s) \in Nat /\ Len(head) \in Nat /\ n \in Nat /\ k \in Nat
      /\ k \in 0..Len(s) /\ k \in 0..Len(head) /\ k \in 0..b
      /\ b \in k..Len(s) /\ n \in k..Len(head)
      /\ \A i \in (k + 1)..b : i \in (k + 1)..n /\ i <= Len(s)
  BY <1>1, <1>2, LenProperties DEF Agrees
<1>4. ASSUME NEW x \in Solids
      PROVE  /\ TokenCount(Take(s, b), x) = HeadCount(k, x)
             /\ HeadCount(n, x) = HeadCount(k, x)
  <2>1. Take(s, k) = Take(head, k)
    BY <1>2, <1>3, TakeAgrees
  <2>2. \A i \in (k + 1)..b : s[i] = NL
    BY <1>2, <1>3
  <2>3. TokenCount(Take(s, k), x) = TokenCount(Take(s, b), x)
    BY <1>3, <2>2, CutThrough
  <2>4. TokenCount(Take(head, k), x) = TokenCount(Take(head, n), x)
    BY <1>1, <1>3, CutThrough
  <2> QED BY <2>1, <2>3, <2>4 DEF HeadCount
<1>5. ASSUME NEW m \in 0..n
      PROVE  CutOf(Take(s, b), [x \in Solids |-> HeadCount(m, x)])
  <2> DEFINE l == IF m <= k THEN m ELSE k
  <2>1. l \in 0..k /\ l \in 0..b /\ l \in Nat
    BY <1>3
  <2>2. \A x \in Solids : HeadCount(m, x) = HeadCount(l, x)
    <3>1. CASE m <= k
      BY <3>1
    <3>2. CASE ~(m <= k)
      <4>1. m \in k..Len(head) /\ \A i \in (k + 1)..m : head[i] = NL
        BY <1>1, <1>3, <3>2
      <4>2. \A x \in Solids : TokenCount(Take(head, k), x) = TokenCount(Take(head, m), x)
        BY <1>3, <4>1, CutThrough
      <4> QED BY <3>2, <4>2 DEF HeadCount
    <3> QED BY <3>1, <3>2
  <2> HIDE DEF l
  <2>3. Agrees(s, head, l)
    BY <1>2, <1>3, <2>1 DEF Agrees
  <2>4. Take(s, l) = Take(head, l)
    BY <2>1, <2>3, TakeAgrees
  <2>5. l \in 0..Len(Take(s, b)) /\ Take(Take(s, b), l) = Take(s, l)
    BY <2>1, TakeTake
  <2>6. \A x \in Solids : TokenCount(Take(Take(s, b), l), x) = HeadCount(m, x)
    BY <2>2, <2>4, <2>5 DEF HeadCount
  <2> QED BY <2>5, <2>6 DEF CutOf
<1> QED BY <1>4, <1>5

\* Where an edit finds its start and its end in the text being built.
Here(p)  == IF p.start < Len(out) THEN p.start ELSE Len(out)
There(p) == IF p.kind = "insert" THEN Here(p) ELSE p.end

LEMMA SplicedAssembles ==
  ASSUME SpliceTypeOK, NEW p \in pending, Fits(p)
  PROVE  /\ Here(p) \in 0..Len(out) /\ There(p) \in 0..Len(out)
         /\ Take(out, Here(p)) \in Seq(Tokens) /\ Drop(out, There(p)) \in Seq(Tokens)
         /\ Added(p) \in Seq(Tokens)
         /\ Assembles(Spliced(out, p), Take(out, Here(p)), Added(p), Drop(out, There(p)))
<1>1. /\ p \in OpOf(head) /\ head \in Seq(Tokens) /\ out \in Seq(Tokens) /\ Len(out) \in Nat
      /\ p.kind \in Kinds /\ p.start \in Nat /\ p.end \in Nat /\ p.text \in Seq(Tokens)
      /\ p.member \in BOOLEAN /\ p.lead \in Nat /\ p.trail \in Nat
      /\ p.kind # "insert" => p.start < p.end
  BY OpFields, LenProperties DEF SpliceTypeOK
<1>2. /\ Here(p) \in 0..Len(out) /\ There(p) \in 0..Len(out)
      /\ p.kind # "insert" => /\ Here(p) = p.start /\ There(p) = p.end
                              /\ p.start \in 0..Len(out) /\ p.end \in 0..Len(out)
  BY <1>1 DEF Here, There, Fits
<1>3. /\ Take(out, Here(p)) \in Seq(Tokens) /\ Drop(out, There(p)) \in Seq(Tokens)
      /\ Added(p) \in Seq(Tokens)
  BY <1>1, <1>2, TakeText, DropText DEF Added
<1>4. CASE p.kind = "replace"
  <2>1. Spliced(out, p) = (Take(out, p.start) \o p.text) \o Drop(out, p.end) /\ Added(p) = p.text
    BY <1>4 DEF Spliced, SpliceReplace, Added
  <2> QED BY <1>1, <1>2, <1>3, <1>4, <2>1, ReplaceAssembles
<1>5. CASE p.kind = "delete"
  <2>1. Spliced(out, p) = SpliceExcise(out, p) /\ Added(p) = <<>>
    BY <1>5 DEF Spliced, Added
  <2>2. Assembles(SpliceExcise(out, p), Take(out, p.start), <<>>, Drop(out, p.end))
    BY <1>1, <1>2, <1>5, ExciseAssembles
  <2> QED BY <1>2, <1>3, <1>5, <2>1, <2>2
<1>6. CASE p.kind = "insert"
  <2>1. Spliced(out, p) = SpliceInsert(out, p) /\ Added(p) = p.text /\ There(p) = Here(p)
    BY <1>6 DEF Spliced, Added, There
  <2>2. Assembles(SpliceInsert(out, p), Take(out, Here(p)), p.text, Drop(out, Here(p)))
    BY <1>1, <1>2, InsertAssembles DEF Here
  <2> QED BY <1>2, <1>3, <2>1, <2>2
<1> QED BY <1>1, <1>2, <1>3, <1>4, <1>5, <1>6 DEF Kinds

\* Before p's place the text holds what HEAD has before p, up to p's range
\* what HEAD has up to there.
LEMMA FoundCounts ==
  ASSUME SpliceTypeOK, NEW p \in pending, Near(out, p.start),
         p.kind # "insert" => Agrees(out, head, p.end)
  PROVE  /\ Fits(p)
         /\ p.start \in 0..Len(head) /\ Reach(p) \in 0..Len(head) /\ p.start <= Reach(p)
         /\ \A x \in Solids : /\ TokenCount(Take(out, Here(p)), x) = HeadCount(p.start, x)
                              /\ TokenCount(Take(out, There(p)), x) = HeadCount(Reach(p), x)
         /\ \A m \in 0..p.start : CutOf(Take(out, Here(p)), [x \in Solids |-> HeadCount(m, x)])
<1>1. /\ p \in OpOf(head) /\ head \in Seq(Tokens) /\ out \in Seq(Tokens)
      /\ Len(out) \in Nat /\ Len(head) \in Nat
      /\ p.start \in Nat /\ p.end \in Nat /\ p.start <= Len(head) /\ p.end <= Len(head)
      /\ p.kind # "insert" => p.start < p.end
  BY OpFields, LenProperties DEF SpliceTypeOK
<1>2. Fits(p) /\ p.start \in 0..Len(head) /\ Reach(p) \in 0..Len(head) /\ p.start <= Reach(p)
  BY <1>1 DEF Fits, Agrees, Reach
<1>3. Here(p) \in 0..Len(out) /\ Here(p) = (IF p.start < Len(out) THEN p.start ELSE Len(out))
  BY <1>1 DEF Here
<1>4. /\ \A x \in Solids : TokenCount(Take(out, Here(p)), x) = HeadCount(p.start, x)
      /\ \A m \in 0..p.start : CutOf(Take(out, Here(p)), [x \in Solids |-> HeadCount(m, x)])
  BY <1>1, <1>2, <1>3, NearCounts
<1>5. \A x \in Solids : TokenCount(Take(out, There(p)), x) = HeadCount(Reach(p), x)
  <2>1. CASE p.kind = "insert"
    BY <1>4, <2>1 DEF There, Reach
  <2>2. CASE p.kind # "insert"
    BY <1>1, <2>2, TakeAgrees DEF There, Reach, HeadCount
  <2> QED BY <2>1, <2>2
<1> QED BY <1>2, <1>4, <1>5

-----------------------------------------------------------------------------
(* What is pending holds the texts of the edits merged into it, and what   *)
(* has been built is HEAD with the edits spliced so far carried out.       *)

\* Two edits that are spliced as one, those p stands for, and those that
\* have been spliced.
SameSlot(o, p) == o.start = p.start /\ (o.kind = "insert" <=> p.kind = "insert")
Group(p) == {i \in DOMAIN kept \ todo : SameSlot(kept[i], p)}
Gone == {i \in DOMAIN kept : \A p \in pending : ~SameSlot(kept[i], p)}

\* t holds the texts of G, each token as often, and has the cuts of each.
Holds(t, G) ==
  /\ \A x \in Solids : TokenCount(t, x) = Cardinality(Brings(G, x))
  /\ \A j \in G : \A k \in 0..Len(Added(kept[j])) :
       CutOf(t, [x \in Solids |-> Cardinality(Brings({i \in G : Ahead(i, j)}, x))
                                    + TokenCount(Take(Added(kept[j]), k), x)])

Gathered ==
  /\ pc \in {"splice", "spliced"} => todo = {}
  /\ pc = "merge" =>
       \A i \in DOMAIN kept \ todo :
         /\ \E p \in pending : SameSlot(kept[i], p)
         /\ \A j \in todo : kept[i].kind = "insert" => MergesBefore(i, j)
  /\ pc \in {"merge", "splice"} =>
       /\ \A p, q \in pending : SameSlot(p, q) => p = q
       /\ \A p \in pending : Holds(Added(p), Group(p))

Progress ==
  pc \in {"splice", "spliced"} /\ KeptTidy /\ KeptSpaced =>
    /\ pc = "spliced" => pending = {}
    /\ \A p \in pending : Near(out, p.start)
    /\ \A i \in Gone : \A p \in pending : SplicesBefore(kept[i], p)
    /\ EditedBy(out, Gone)

\* The edits p stands for start where p does, and a range stands for itself.
LEMMA GroupFact ==
  ASSUME SpliceTypeOK, Sourced, Gathered, KeptDisjoint, pc = "splice", NEW p \in pending
  PROVE  /\ Group(p) \in SUBSET DOMAIN kept /\ Group(p) # {}
         /\ Group(p) = {i \in DOMAIN kept : SameSlot(kept[i], p)}
         /\ \A i \in Group(p) : /\ kept[i].start = p.start
                                /\ kept[i].kind = "insert" <=> p.kind = "insert"
                                /\ kept[i].kind # "insert" => kept[i] = p
<1>1. Group(p) = {i \in DOMAIN kept : SameSlot(kept[i], p)}
  BY DEF Group, Gathered
<1>2. PICK j \in DOMAIN kept : IF p.kind = "insert" THEN kept[j].kind = "insert" /\ kept[j].start = p.start
                               ELSE kept[j] = p
  BY DEF Sourced
<1>3. j \in Group(p)
  BY <1>1, <1>2 DEF SameSlot
<1>4. ASSUME NEW i \in Group(p), kept[i].kind # "insert" PROVE kept[i] = p
  <2>1. i \in DOMAIN kept /\ p.kind # "insert" /\ kept[j] = p /\ kept[i].start = p.start
    BY <1>1, <1>2, <1>4 DEF SameSlot
  <2>2. /\ p.start \in Nat /\ p.end \in Nat /\ p.start < p.end
        /\ kept[i].end \in Nat /\ kept[i].start < kept[i].end
    BY <1>2, <1>4, <2>1, KeptFields
  <2>3. i # j => kept[i].end <= kept[j].start \/ kept[j].end <= kept[i].start
    BY <1>4, <2>1 DEF KeptDisjoint
  <2> QED BY <2>1, <2>2, <2>3
<1> QED BY <1>1, <1>3, <1>4 DEF SameSlot

\* The edits spliced before p lie behind it.
LEMMA GoneAfter ==
  ASSUME SpliceTypeOK, Sourced, KeptDisjoint, KeptTidy, pc = "splice",
         NEW p \in pending, NEW i \in DOMAIN kept, SplicesBefore(kept[i], p)
  PROVE  Reach(p) <= kept[i].start
<1>1. /\ p.start \in Nat /\ p.end \in Nat
      /\ p.kind # "insert" => p.start < p.end
  BY OpFields DEF SpliceTypeOK
<1>2. /\ kept[i].start \in Nat /\ kept[i].end \in Nat
      /\ kept[i].kind # "insert" => kept[i].start < kept[i].end
  BY KeptFields
<1>3. CASE p.kind = "insert"
  BY <1>1, <1>2, <1>3 DEF SplicesBefore, Reach
<1>4. CASE p.kind # "insert"
  <2>1. p.start < kept[i].start
    BY <1>1, <1>2, <1>4 DEF SplicesBefore
  <2>2. PICK j \in DOMAIN kept : kept[j] = p
    BY <1>4 DEF Sourced
  <2>3. CASE kept[i].kind = "insert"
    <3>1. kept[i].start <= p.start \/ p.end <= kept[i].start
      BY <1>4, <2>2, <2>3 DEF KeptTidy
    <3> QED BY <1>1, <1>2, <1>4, <2>1, <3>1 DEF Reach
  <2>4. CASE kept[i].kind # "insert"
    <3>1. i # j
      BY <1>1, <2>1, <2>2
    <3>2. kept[i].end <= p.start \/ p.end <= kept[i].start
      BY <1>4, <2>2, <2>4, <3>1 DEF KeptDisjoint
    <3> QED BY <1>1, <1>2, <1>4, <2>1, <2>4, <3>2 DEF Reach
  <2> QED BY <2>3, <2>4
<1> QED BY <1>3, <1>4

\* p has what one splice of it needs to know of the text and of the ledger.
Ready(p) ==
  /\ p \in pending /\ Fits(p)
  /\ Near(out, p.start)
  /\ p.kind # "insert" => Agrees(out, head, p.end)
  /\ Holds(Added(p), Group(p))
  /\ Gone \cap Group(p) = {}
  /\ Slotted(Group(p), p)
  /\ Behind(Gone, p)
  /\ \A i \in Gone : SplicesBefore(kept[i], p)

LEMMA IsReady ==
  ASSUME SpliceTypeOK, Sourced, Gathered, Progress, PrefixIntact, KeptDisjoint,
         KeptTidy, KeptSpaced, pc = "splice", NEW p \in pending
  PROVE  Ready(p)
<1>1. Near(out, p.start) /\ \A i \in Gone : SplicesBefore(kept[i], p)
  BY DEF Progress
<1>2. p.kind # "insert" => Agrees(out, head, p.end)
  <2>1. p.end <= Len(head)
    BY OpFields DEF SpliceTypeOK
  <2> QED BY <2>1 DEF PrefixIntact, Agrees
<1>3. Holds(Added(p), Group(p))
  BY DEF Gathered
<1>4. /\ Group(p) # {}
      /\ Group(p) = {i \in DOMAIN kept : SameSlot(kept[i], p)}
      /\ \A i \in Group(p) : /\ i \in DOMAIN kept /\ kept[i].start = p.start
                             /\ kept[i].kind = "insert" <=> p.kind = "insert"
                             /\ kept[i].kind # "insert" => kept[i] = p
  BY GroupFact
<1>5. \A i \in Gone : i \in DOMAIN kept /\ Reach(p) <= kept[i].start
  BY <1>1, GoneAfter DEF Gone
<1>6. Gone \cap Group(p) = {}
  BY <1>4 DEF Gone
<1>7. Fits(p)
  BY <1>1, <1>2, FoundCounts
<1> QED BY <1>1, <1>2, <1>3, <1>4, <1>5, <1>6, <1>7 DEF Ready, Behind, Slotted

\* What a ledger of the edits before p becomes with p's among them.
Moves(f, g, p, x) ==
  \E r \in Nat : /\ f[x] = HeadCount(Reach(p), x) + r
                 /\ g[x] = HeadCount(p.start, x) + TokenCount(Added(p), x) + r

LEMMA LedgerAfter ==
  ASSUME SpliceTypeOK, NEW p, Ready(p), NEW E, E \subseteq Gone,
         NEW n \in 0..Len(head), Reach(p) <= n, NEW t \in Seq(Tokens), NEW x \in Solids
  PROVE  Moves(Ledger(Gone, n, E, t), Ledger(Gone \cup Group(p), n, E \cup Group(p), t), p, x)
<1> DEFINE D == Gone
           G == Group(p)
<1>1. /\ p \in OpOf(head) /\ Behind(D, p) /\ Slotted(G, p)
      /\ G \in SUBSET DOMAIN kept /\ E \in SUBSET DOMAIN kept /\ E \cap G = {}
      /\ TokenCount(Added(p), x) = Cardinality(Brings(G, x))
  BY DEF Ready, SpliceTypeOK, Holds, Behind, Slotted
<1> HIDE DEF D, G
<1>2. PICK rest \in Nat :
           /\ Cardinality(Remaining(D, n, x)) = HeadCount(Reach(p), x) + rest
           /\ Cardinality(Remaining(D \cup G, n, x)) = HeadCount(p.start, x) + rest
  BY <1>1, RemainingAfter
<1>3. Cardinality(Brings(E \cup G, x)) = Cardinality(Brings(E, x)) + Cardinality(Brings(G, x))
  BY <1>1, BringsBoth
<1>4. /\ Cardinality(Brings(E, x)) \in Nat /\ Cardinality(Brings(G, x)) \in Nat
      /\ TokenCount(t, x) \in Nat
  BY <1>1, BringsFinite, CountPlaces
<1>5. /\ p.start \in 0..Len(head) /\ Reach(p) \in 0..Len(head)
  BY <1>1, OpFields, LenProperties DEF SpliceTypeOK, Reach
<1>6. HeadCount(Reach(p), x) \in Nat /\ HeadCount(p.start, x) \in Nat
  BY <1>5, HeadPlaces DEF SpliceTypeOK
<1> DEFINE r == rest + Cardinality(Brings(E, x)) + TokenCount(t, x)
<1>7. Ledger(D, n, E, t)[x] = Cardinality(Remaining(D, n, x)) + Cardinality(Brings(E, x))
                                + TokenCount(t, x)
  BY DEF Ledger
<1>8. Ledger(D \cup G, n, E \cup G, t)[x]
        = Cardinality(Remaining(D \cup G, n, x)) + Cardinality(Brings(E \cup G, x))
            + TokenCount(t, x)
  BY DEF Ledger
<1>9. /\ r \in Nat
      /\ Ledger(D, n, E, t)[x] = HeadCount(Reach(p), x) + r
      /\ Ledger(D \cup G, n, E \cup G, t)[x]
           = HeadCount(p.start, x) + TokenCount(Added(p), x) + r
  BY <1>1, <1>2, <1>3, <1>4, <1>6, <1>7, <1>8
<1> QED BY <1>9 DEF D, G, Moves

\* Behind p the text keeps its cuts.
LEMMA CutBehind ==
  ASSUME SpliceTypeOK, NEW p, Ready(p), NEW E, E \subseteq Gone,
         NEW n \in 0..Len(head), Reach(p) <= n, NEW t \in Seq(Tokens),
         CutOf(out, Ledger(Gone, n, E, t))
  PROVE  CutOf(Spliced(out, p), Ledger(Gone \cup Group(p), n, E \cup Group(p), t))
<1> DEFINE f == Ledger(Gone, n, E, t)
           h == Ledger(Gone \cup Group(p), n, E \cup Group(p), t)
           g == [x \in Solids |-> f[x] - HeadCount(Reach(p), x)]
           X == Take(out, Here(p))
           Y == Drop(out, There(p))
<1>1. /\ p \in pending /\ Fits(p) /\ out \in Seq(Tokens)
      /\ There(p) \in 0..Len(out)
      /\ Assembles(Spliced(out, p), X, Added(p), Y)
  BY SplicedAssembles DEF Ready, SpliceTypeOK, Behind, Slotted
<1>2. /\ \A x \in Solids : /\ TokenCount(X, x) = HeadCount(p.start, x)
                           /\ TokenCount(Take(out, There(p)), x) = HeadCount(Reach(p), x)
      /\ p.start \in 0..Len(head) /\ Reach(p) \in 0..Len(head)
  BY FoundCounts DEF Ready
<1>3. \A x \in Solids : Moves(f, h, p, x)
  <2> HIDE DEF f, h, g, X, Y
  <2> TAKE x \in Solids
  <2>1. Moves(Ledger(Gone, n, E, t), Ledger(Gone \cup Group(p), n, E \cup Group(p), t), p, x)
    BY LedgerAfter
  <2> QED BY <2>1 DEF f, h
<1>4. \A x \in Solids : HeadCount(Reach(p), x) \in Nat /\ HeadCount(p.start, x) \in Nat
  BY <1>2, HeadPlaces DEF SpliceTypeOK
<1> HIDE DEF f, h, X, Y
<1>5. ASSUME NEW x \in Solids
      PROVE  /\ g[x] \in Nat
             /\ f[x] = TokenCount(Take(out, There(p)), x) + g[x]
             /\ h[x] = TokenCount(X, x) + TokenCount(Added(p), x) + g[x]
  <2>1. PICK r \in Nat : /\ f[x] = HeadCount(Reach(p), x) + r
                         /\ h[x] = HeadCount(p.start, x) + TokenCount(Added(p), x) + r
    BY <1>3 DEF Moves
  <2>2. g[x] = r
    BY <1>4, <2>1
  <2> QED BY <1>2, <2>1, <2>2
<1> HIDE DEF g
<1>6. CutOf(out, f)
  BY DEF f
<1>7. CutOf(Y, g)
  <2>1. \A a \in Solids : /\ g[a] \in Nat
                         /\ f[a] = TokenCount(Take(out, There(p)), a) + g[a]
    BY <1>5
  <2> QED BY <1>1, <1>6, <2>1, CutDrop DEF Y
<1>8. CutOf(Spliced(out, p), h)
  BY <1>1, <1>5, <1>7 DEF Assembles
<1> QED BY <1>8 DEF h

LEMMA LedgerEntry ==
  ASSUME NEW D, NEW n, NEW E, NEW t, NEW x \in Solids
  PROVE  Ledger(D, n, E, t)[x] = Cardinality(Remaining(D, n, x)) + Cardinality(Brings(E, x))
                                   + TokenCount(t, x)
BY DEF Ledger

LEMMA CountNothing ==
  \A x : TokenCount(<<>>, x) = 0
<1>1. \A x : {i \in DOMAIN <<>> : <<>>[i] = x} = {}
  OBVIOUS
<1> QED BY <1>1, FS_EmptySet DEF TokenCount

\* Up to p the text is HEAD's, and across its range only p's text is added.
LEMMA CutBefore ==
  ASSUME SpliceTypeOK, NEW p, Ready(p), NEW n \in 0..p.start
  PROVE  CutOf(Spliced(out, p),
               Ledger(Gone \cup Group(p), n, {i \in Gone \cup Group(p) : kept[i].start < n}, <<>>))
<1> DEFINE D == Gone \cup Group(p)
           f == Ledger(D, n, {i \in D : kept[i].start < n}, <<>>)
<1>1. /\ p \in pending /\ p \in OpOf(head) /\ head \in Seq(Tokens) /\ D \in SUBSET DOMAIN kept
      /\ Len(head) \in Nat
      /\ p.start \in Nat /\ p.end \in Nat /\ p.start <= Len(head)
      /\ p.kind # "insert" => p.start < p.end
  BY OpFields, LenProperties DEF Ready, SpliceTypeOK, Behind, Slotted
<1>2. n \in 0..Len(head) /\ \A i \in D : kept[i].start \in Nat /\ n <= kept[i].start
  <2>1. p.start <= Reach(p) /\ Reach(p) \in Nat
    BY <1>1 DEF Reach
  <2>2. \A i \in D : p.start <= kept[i].start
    BY <1>1, <2>1, KeptFields DEF Ready, Behind, Slotted
  <2> QED BY <1>1, <2>2, KeptFields
<1> HIDE DEF D
<1>3. {i \in D : kept[i].start < n} = {}
  BY <1>2
<1>5. \A x \in Solids : f[x] = HeadCount(n, x)
  <2> TAKE x \in Solids
  <2>1. Cardinality(Remaining(D, n, x)) = HeadCount(n, x) /\ HeadCount(n, x) \in Nat
    BY <1>1, <1>2, RemainingBefore, HeadPlaces
  <2>2. /\ Cardinality(Brings({i \in D : kept[i].start < n}, x)) = 0
        /\ TokenCount(<<>>, x) = 0
    BY <1>3, BringsNone, CountNothing
  <2>3. f[x] = Cardinality(Remaining(D, n, x))
                 + Cardinality(Brings({i \in D : kept[i].start < n}, x)) + TokenCount(<<>>, x)
    BY LedgerEntry
  <2> HIDE DEF f
  <2> QED BY <2>1, <2>2, <2>3
<1>6. CutOf(Take(out, Here(p)), [x \in Solids |-> HeadCount(n, x)])
  BY FoundCounts DEF Ready
<1>7. CutOf(Take(out, Here(p)), f)
  BY <1>5, <1>6 DEF CutOf
<1> HIDE DEF f
<1>8. CutOf(Spliced(out, p), f)
  BY <1>7, SplicedAssembles DEF Assembles, Ready
<1> QED BY <1>8 DEF f, D

LEMMA CutAcross ==
  ASSUME SpliceTypeOK, NEW p, Ready(p), NEW n \in 0..Len(head), p.start < n, n <= Reach(p)
  PROVE  CutOf(Spliced(out, p),
               Ledger(Gone \cup Group(p), n, {i \in Gone \cup Group(p) : kept[i].start < n}, <<>>))
<1> DEFINE D == Gone \cup Group(p)
           f == Ledger(D, n, {i \in D : kept[i].start < n}, <<>>)
<1>1. /\ p \in pending /\ p \in OpOf(head) /\ head \in Seq(Tokens)
      /\ Gone \in SUBSET DOMAIN kept /\ Group(p) \in SUBSET DOMAIN kept
      /\ Len(head) \in Nat
      /\ p.start \in Nat /\ p.end \in Nat /\ p.start <= Len(head)
      /\ p.kind # "insert" => p.start < p.end
  BY OpFields, LenProperties DEF Ready, SpliceTypeOK, Behind, Slotted
<1>2. \A i \in Gone : ~(kept[i].start < n)
  <2>1. Reach(p) \in Nat
    BY <1>1 DEF Reach
  <2> QED BY <1>1, <2>1, KeptFields DEF Ready, Behind, Slotted
<1>3. {i \in D : kept[i].start < n} = Group(p)
  BY <1>2 DEF Ready, Slotted
<1>5. \A x \in Solids : TokenCount(Added(p), x) = Cardinality(Brings(Group(p), x))
  BY DEF Ready, Holds
<1>6. \A x \in Solids : Cardinality(Remaining(D, n, x)) = HeadCount(p.start, x)
  <2> TAKE x \in Solids
  <2>1. Behind(Gone, p) /\ Slotted(Group(p), p) /\ p.start <= n
    BY <1>1 DEF Ready
  <2> QED BY <1>1, <2>1, RemainingAcross
<1>7. /\ Added(p) \in Seq(Tokens) /\ Take(out, Here(p)) \in Seq(Tokens)
      /\ Assembles(Spliced(out, p), Take(out, Here(p)), Added(p), Drop(out, There(p)))
  BY SplicedAssembles DEF Ready
<1>8. \A x \in Solids : /\ TokenCount(Take(out, Here(p)), x) = HeadCount(p.start, x)
                        /\ HeadCount(p.start, x) \in Nat
                        /\ TokenCount(Added(p), x) \in Nat
  <2>1. \A x \in Solids : TokenCount(Take(out, Here(p)), x) = HeadCount(p.start, x)
    BY FoundCounts DEF Ready
  <2>2. p.start \in 0..Len(head)
    BY <1>1
  <2> QED BY <1>1, <1>7, <2>1, <2>2, HeadPlaces, CountPlaces
<1> HIDE DEF D
<1>9. \A x \in Solids : f[x] = TokenCount(Take(out, Here(p)), x) + TokenCount(Added(p), x)
  <2> TAKE x \in Solids
  <2>1. Cardinality(Brings({i \in D : kept[i].start < n}, x)) = TokenCount(Added(p), x)
    BY <1>3, <1>5
  <2>2. f[x] = Cardinality(Remaining(D, n, x))
                 + Cardinality(Brings({i \in D : kept[i].start < n}, x)) + TokenCount(<<>>, x)
    BY LedgerEntry
  <2>3. TokenCount(<<>>, x) = 0
    BY CountNothing
  <2> HIDE DEF f
  <2> QED BY <1>6, <1>8, <2>1, <2>2, <2>3
<1> DEFINE g == [x \in Solids |-> TokenCount(Added(p), x)]
<1>10. CutOf(Added(p), g)
  BY <1>7, CutWhole
<1>11. \A x \in Solids : f[x] = TokenCount(Take(out, Here(p)), x) + g[x]
  BY <1>9
<1> HIDE DEF f, g
<1>12. CutOf(Spliced(out, p), f)
  BY <1>7, <1>10, <1>11 DEF Assembles
<1> QED BY <1>12 DEF f, D

\* Within p's text the cuts are those of the edits merged into it.
LEMMA CutWithin ==
  ASSUME SpliceTypeOK, NEW p, Ready(p), NEW j \in Group(p), NEW k \in 0..Len(Added(kept[j]))
  PROVE  CutOf(Spliced(out, p),
               Ledger(Gone \cup Group(p), kept[j].start,
                      {i \in Gone \cup Group(p) : Ahead(i, j)}, Take(Added(kept[j]), k)))
<1> DEFINE D == Gone \cup Group(p)
           E == {i \in Group(p) : Ahead(i, j)}
           t == Take(Added(kept[j]), k)
           f == Ledger(D, kept[j].start, {i \in D : Ahead(i, j)}, t)
           g == [x \in Solids |-> Cardinality(Brings(E, x)) + TokenCount(t, x)]
<1>1. /\ p \in pending /\ p \in OpOf(head) /\ head \in Seq(Tokens)
      /\ Gone \in SUBSET DOMAIN kept /\ Group(p) \in SUBSET DOMAIN kept
      /\ Len(head) \in Nat
      /\ p.start \in Nat /\ p.end \in Nat /\ p.start <= Len(head)
      /\ p.kind # "insert" => p.start < p.end
      /\ kept[j].start = p.start /\ (kept[j].kind = "insert" <=> p.kind = "insert")
      /\ j \in DOMAIN kept
  BY OpFields, LenProperties DEF Ready, SpliceTypeOK, Behind, Slotted
<1>2. \A i \in Gone : ~Ahead(i, j)
  <2> TAKE i \in Gone
  <2>1. SplicesBefore(kept[i], p) /\ kept[i].start \in Nat
    BY KeptFields DEF Ready, Behind
  <2> QED BY <1>1, <2>1 DEF SplicesBefore, Ahead
<1>3. {i \in D : Ahead(i, j)} = E
  BY <1>2
<1>4. CutOf(Added(p), g)
  BY DEF Ready, Holds
<1>5. /\ \A x \in Solids : TokenCount(Take(out, Here(p)), x) = HeadCount(p.start, x)
      /\ p.start \in 0..Len(head)
  BY FoundCounts DEF Ready
<1>6. \A x \in Solids : /\ Cardinality(Remaining(D, kept[j].start, x)) = HeadCount(p.start, x)
                        /\ HeadCount(p.start, x) \in Nat
  <2>1. \A i \in D : i \in DOMAIN kept /\ p.start <= kept[i].start
    <3>1. p.start <= Reach(p) /\ Reach(p) \in Nat
      BY <1>1 DEF Reach
    <3> QED BY <1>1, <3>1, KeptFields DEF Ready, Behind, Slotted
  <2>2. D \in SUBSET DOMAIN kept
    BY <2>1
  <2> HIDE DEF D
  <2> TAKE x \in Solids
  <2>3. \A i \in D : kept[i].kind # "insert" => p.start <= kept[i].start
    BY <2>1
  <2>4. Cardinality(Remaining(D, p.start, x)) = HeadCount(p.start, x)
    BY <1>5, <2>2, <2>3, RemainingBefore
  <2>5. HeadCount(p.start, x) \in Nat
    BY <1>1, <1>5, HeadPlaces
  <2> QED BY <1>1, <2>4, <2>5
<1>7. \A x \in Solids : Cardinality(Brings(E, x)) \in Nat /\ TokenCount(t, x) \in Nat
  <2>1. E \in SUBSET DOMAIN kept
    BY <1>1
  <2>2. t \in Seq(Tokens)
    BY <1>1, KeptFinite, TakeText
  <2> HIDE DEF E, t
  <2> QED BY <2>1, <2>2, BringsFinite, CountPlaces
<1> HIDE DEF E, D, t
<1>8. \A x \in Solids : f[x] = TokenCount(Take(out, Here(p)), x) + g[x]
  <2> TAKE x \in Solids
  <2>1. f[x] = Cardinality(Remaining(D, kept[j].start, x)) + Cardinality(Brings(E, x))
                 + TokenCount(t, x)
    <3>1. f = Ledger(D, kept[j].start, E, t)
      BY <1>3
    <3> HIDE DEF f
    <3> QED BY <3>1, LedgerEntry
  <2>2. g[x] = Cardinality(Brings(E, x)) + TokenCount(t, x)
    OBVIOUS
  <2> HIDE DEF f, g
  <2> QED BY <1>5, <1>6, <1>7, <2>1, <2>2
<1> HIDE DEF f, g
<1>9. CutOf(Spliced(out, p), f)
  BY <1>4, <1>8, SplicedAssembles DEF Assembles, Ready
<1> QED BY <1>9 DEF f, D, t

\* A ledger is one of the cuts of a text when the text has it as a cut.
EditedCuts(s, D) ==
  /\ \A x \in Solids : TokenCount(s, x) = Ledger(D, Len(head), D, <<>>)[x]
  /\ \A n \in 0..Len(head) :
       CutOf(s, Ledger(D, n, {i \in D : kept[i].start < n}, <<>>))
  /\ \A j \in D : \A k \in 0..Len(Added(kept[j])) :
       CutOf(s, Ledger(D, kept[j].start, {i \in D : Ahead(i, j)},
                       Take(Added(kept[j]), k)))

LEMMA EditedMeans ==
  ASSUME NEW s, NEW D
  PROVE  EditedBy(s, D) <=> EditedCuts(s, D)
<1>1. ASSUME NEW n, NEW E, NEW t
      PROVE  Ledger(D, n, E, t) \in Cuts(s) <=> CutOf(s, Ledger(D, n, E, t))
  <2> DEFINE f == Ledger(D, n, E, t)
  <2>1. f = [x \in Solids |-> f[x]]
    BY DEF Ledger
  <2> HIDE DEF f
  <2>2. ASSUME NEW m \in 0..Len(s)
        PROVE  f = [x \in Solids |-> TokenCount(Take(s, m), x)]
                 <=> \A x \in Solids : TokenCount(Take(s, m), x) = f[x]
    BY <2>1
  <2>3. f \in Cuts(s) <=> CutOf(s, f)
    BY <2>2 DEF Cuts, CutOf
  <2> QED BY <2>3 DEF f
<1> QED BY <1>1 DEF EditedBy, EditedCuts

\* One splice carries out the edits merged into it and undoes no other.
LEMMA EditedSplice ==
  ASSUME SpliceTypeOK, NEW p, Ready(p), EditedBy(out, Gone)
  PROVE  EditedBy(Spliced(out, p), Gone \cup Group(p))
<1> DEFINE D == Gone \cup Group(p)
           s == Spliced(out, p)
<1>0. EditedCuts(out, Gone)
  BY EditedMeans
<1>1. /\ p \in pending /\ p \in OpOf(head) /\ head \in Seq(Tokens) /\ out \in Seq(Tokens)
      /\ Gone \in SUBSET DOMAIN kept /\ Group(p) \in SUBSET DOMAIN kept
      /\ Len(head) \in Nat
      /\ p.start \in Nat /\ p.end \in Nat /\ p.start <= Len(head) /\ p.end <= Len(head)
      /\ p.kind # "insert" => p.start < p.end
      /\ p.kind # "insert" => /\ p.end <= Len(out)
                              /\ \A i \in 1..p.end : out[i] = head[i]
  BY OpFields, LenProperties DEF Ready, SpliceTypeOK, Behind, Slotted, Agrees
<1>2. /\ Reach(p) \in 0..Len(head) /\ Reach(p) \in Nat /\ p.start <= Reach(p)
      /\ p.start \in 0..Len(head)
  BY <1>1 DEF Reach
<1>3. /\ \A i \in Gone : i \in DOMAIN kept /\ kept[i].start \in Nat /\ Reach(p) <= kept[i].start
      /\ \A i \in Gone : kept[i].start <= Len(head) /\ SplicesBefore(kept[i], p)
      /\ \A i \in Group(p) : /\ kept[i].start = p.start
                             /\ kept[i].kind = "insert" <=> p.kind = "insert"
  BY KeptFields DEF Ready, Behind, Slotted
<1>4. <<>> \in Seq(Tokens)
  OBVIOUS
<1>5. ASSUME NEW x \in Solids PROVE TokenCount(s, x) = Ledger(D, Len(head), D, <<>>)[x]
  <2>1. Moves(Ledger(Gone, Len(head), Gone, <<>>), Ledger(D, Len(head), D, <<>>), p, x)
    <3>1. Len(head) \in 0..Len(head) /\ Reach(p) <= Len(head)
      BY <1>1, <1>2
    <3> QED BY <1>4, <3>1, LedgerAfter
  <2>2. TokenCount(out, x) = Ledger(Gone, Len(head), Gone, <<>>)[x]
    BY <1>0 DEF EditedCuts
  <2>3. TokenCount(s, x) = TokenCount(out, x) - TokenCount(Removed(p), x) + TokenCount(Added(p), x)
    BY <1>1, SplicedCount DEF Solids
  <2>4. HeadCount(Reach(p), x) = HeadCount(p.start, x) + TokenCount(Removed(p), x)
    <3>1. CASE p.kind = "insert"
      <4>1. Reach(p) = p.start /\ Removed(p) = <<>>
        BY <3>1 DEF Reach, Removed
      <4>2. HeadCount(p.start, x) \in Nat
        BY <1>1, <1>2, HeadPlaces
      <4> QED BY <4>1, <4>2, CountNothing
    <3>2. CASE p.kind # "insert"
      <4>1. /\ Reach(p) = p.end /\ Removed(p) = Slice(head, p.start, p.end)
            /\ p.start < p.end /\ Agrees(head, head, p.end) /\ p.end \in 0..Len(head)
        BY <1>1, <1>2, <3>2 DEF Reach, Removed, Slice, Agrees
      <4>2. /\ TokenCount(head, x) = TokenCount(Take(head, p.start), x)
                                       + TokenCount(Slice(head, p.start, p.end), x)
                                       + TokenCount(Drop(head, p.end), x)
            /\ Take(head, p.start) \in Seq(Tokens) /\ Drop(head, p.end) \in Seq(Tokens)
            /\ Slice(head, p.start, p.end) \in Seq(Tokens)
        BY <1>1, <4>1, CountRange
      <4>3. TokenCount(head, x) = TokenCount(Take(head, p.end), x) + TokenCount(Drop(head, p.end), x)
        BY <1>1, <4>1, CountSplit
      <4>4. Take(head, p.end) \in Seq(Tokens)
        BY <1>1, <4>1, TakeText
      <4>5. /\ TokenCount(Take(head, p.start), x) \in Nat
            /\ TokenCount(Slice(head, p.start, p.end), x) \in Nat
            /\ TokenCount(Drop(head, p.end), x) \in Nat
            /\ TokenCount(Take(head, p.end), x) \in Nat
        BY <4>2, <4>4, CountPlaces
      <4> QED BY <4>1, <4>2, <4>3, <4>5 DEF HeadCount
    <3> QED BY <3>1, <3>2
  <2>5. /\ HeadCount(p.start, x) \in Nat /\ TokenCount(Added(p), x) \in Nat
        /\ TokenCount(Removed(p), x) \in Nat
    <3>1. Added(p) \in Seq(Tokens)
      BY SplicedAssembles DEF Ready
    <3>2. Removed(p) \in Seq(Tokens)
      <4>1. CASE p.kind = "insert"
        BY <1>4, <4>1 DEF Removed
      <4>2. CASE p.kind # "insert"
        <5>1. p.start < p.end /\ Agrees(head, head, p.end)
          BY <1>1, <4>2 DEF Agrees
        <5>2. Slice(head, p.start, p.end) \in Seq(Tokens)
          BY <1>1, <5>1, CountRange
        <5> QED BY <4>2, <5>2 DEF Removed, Slice
      <4> QED BY <4>1, <4>2
    <3> QED BY <1>1, <1>2, <3>1, <3>2, HeadPlaces, CountPlaces
  <2> HIDE DEF s, D
  <2> QED BY <2>1, <2>2, <2>3, <2>4, <2>5 DEF Moves
<1>6. ASSUME NEW n \in 0..Len(head)
      PROVE  CutOf(s, Ledger(D, n, {i \in D : kept[i].start < n}, <<>>))
  <2>1. CASE n <= p.start
    <3>1. n \in 0..p.start
      BY <1>1, <2>1
    <3> QED BY <3>1, CutBefore
  <2>2. CASE p.start < n /\ n <= Reach(p)
    BY <2>2, CutAcross
  <2>3. CASE Reach(p) < n
    <3> DEFINE E == {i \in Gone : kept[i].start < n}
    <3>1. {i \in D : kept[i].start < n} = E \cup Group(p)
      <4>1. p.start < n
        BY <1>1, <1>2, <2>3
      <4> QED BY <1>3, <4>1
    <3>2. CutOf(out, Ledger(Gone, n, E, <<>>))
      BY <1>0 DEF EditedCuts
    <3>3. E \subseteq Gone /\ Reach(p) <= n
      BY <1>2, <2>3
    <3> HIDE DEF E
    <3>4. CutOf(Spliced(out, p), Ledger(Gone \cup Group(p), n, E \cup Group(p), <<>>))
      BY <1>4, <3>2, <3>3, CutBehind
    <3> QED BY <3>1, <3>4
  <2> QED BY <1>1, <1>2, <2>1, <2>2, <2>3
<1>7. ASSUME NEW j \in D, NEW k \in 0..Len(Added(kept[j]))
      PROVE  CutOf(s, Ledger(D, kept[j].start, {i \in D : Ahead(i, j)}, Take(Added(kept[j]), k)))
  <2>1. CASE j \in Group(p)
    BY <2>1, CutWithin
  <2>2. CASE j \in Gone
    <3> DEFINE E == {i \in Gone : Ahead(i, j)}
               t == Take(Added(kept[j]), k)
    <3>1. \A i \in Group(p) : Ahead(i, j)
      <4> TAKE i \in Group(p)
      <4>1. kept[i].start = p.start /\ (kept[i].kind = "insert" <=> p.kind = "insert")
        BY <1>3
      <4>2. SplicesBefore(kept[j], p) /\ kept[j].start \in Nat
        BY <1>3, <2>2
      <4> QED BY <1>1, <4>1, <4>2 DEF SplicesBefore, Ahead
    <3>2. {i \in D : Ahead(i, j)} = E \cup Group(p)
      BY <3>1
    <3>3. CutOf(out, Ledger(Gone, kept[j].start, E, t))
      BY <1>0, <2>2 DEF EditedCuts
    <3>4. /\ E \subseteq Gone /\ Reach(p) <= kept[j].start /\ kept[j].start \in 0..Len(head)
          /\ t \in Seq(Tokens)
      <4>1. Added(kept[j]) \in Seq(Tokens)
        BY <1>3, <2>2, KeptFinite
      <4>2. t \in Seq(Tokens)
        BY <4>1, TakeText
      <4> QED BY <1>1, <1>3, <2>2, <4>2
    <3> HIDE DEF E, t
    <3>5. CutOf(Spliced(out, p), Ledger(Gone \cup Group(p), kept[j].start, E \cup Group(p), t))
      BY <3>3, <3>4, CutBehind
    <3> QED BY <3>2, <3>5 DEF t
  <2> QED BY <2>1, <2>2
<1> HIDE DEF D, s
<1>8. EditedBy(s, D)
  BY <1>5, <1>6, <1>7, EditedMeans DEF EditedCuts
<1> QED BY <1>8 DEF D, s

\* A range that is cut out leaves what is before it near HEAD's.
LEMMA ExciseNear ==
  ASSUME head \in Seq(Tokens), NEW t \in Seq(Tokens), NEW o,
         o.start \in Nat, o.end \in Nat, o.start < o.end, o.end <= Len(t), o.end <= Len(head),
         Agrees(t, head, o.end), NEW n \in 0..o.start
  PROVE  Near(SpliceExcise(t, o), n)
<1> DEFINE x == Take(t, o.start)
           y == TrimLeft(Drop(t, o.end))
           s == SpliceExcise(t, o)
<1>1. /\ o.start \in 0..Len(t) /\ o.end \in 0..Len(t) /\ n \in 0..Len(head) /\ n \in Nat
      /\ n <= o.start /\ Len(t) \in Nat
  BY LenProperties
<1>2. /\ x \in Seq(Tokens) /\ Len(x) = o.start /\ \A i \in 1..o.start : x[i] = t[i]
      /\ y \in Seq(Tokens)
  BY <1>1, TakeText, DropText, TrimLeftText
<1>3. Agrees(x, head, o.start)
  BY <1>2 DEF Agrees
<1>4. s = IF Len(y) # 0 THEN x \o y ELSE IF Len(TrimRight(x)) = 0 THEN <<>> ELSE EndLike(x, t)
  BY DEF SpliceExcise
<1> HIDE DEF x, y, s
<1>5. CASE Len(y) # 0
  <2>1. Agrees(x \o y, head, o.start)
    BY <1>2, <1>3, ConcatAgrees
  <2>2. x \o y \in Seq(Tokens)
    BY <1>2, ConcatProperties
  <2> QED BY <1>1, <1>4, <1>5, <2>1, <2>2, NearAgrees DEF s
<1> DEFINE l == TrimmedLen(x)
           k == TrimmedLen(Take(head, n))
<1>6. /\ l \in 0..o.start /\ \A i \in (l + 1)..o.start : x[i] = NL
  BY <1>2, TrimmedLenFact
<1>7. /\ TrimRight(x) \in Seq(Tokens) /\ Len(TrimRight(x)) = l
      /\ \A i \in 1..l : TrimRight(x)[i] = x[i]
  <2>1. l \in 0..Len(x)
    BY <1>2, <1>6
  <2> QED BY <1>2, <2>1, TakeText DEF TrimRight
<1>8. /\ k \in 0..n /\ \A i \in (k + 1)..n : head[i] = NL
      /\ k = 0 \/ head[k] # NL
  BY <1>1, NearFact
<1> HIDE DEF l, k
<1>9. k <= l
  <2>1. SUFFICES ASSUME l < k PROVE FALSE
    BY <1>6, <1>8
  <2>2. k \in (l + 1)..o.start /\ k \in 1..o.start /\ k # 0
    BY <1>1, <1>6, <1>8, <2>1
  <2>3. x[k] = NL /\ x[k] = head[k]
    BY <1>3, <1>6, <2>2 DEF Agrees
  <2> QED BY <1>8, <2>2, <2>3
<1>10. CASE Len(y) = 0 /\ Len(TrimRight(x)) = 0
  <2>1. s = <<>> /\ k = 0
    BY <1>4, <1>6, <1>7, <1>8, <1>9, <1>10
  <2>2. Agrees(s, head, k) /\ \A i \in (k + 1)..n : i <= Len(s) => s[i] = NL
    BY <2>1, LenProperties DEF Agrees
  <2>3. Near(s, n)
    BY <2>2 DEF Near, k
  <2> QED BY <2>3 DEF s
<1>11. CASE Len(y) = 0 /\ Len(TrimRight(x)) # 0
  <2>1. s = EndLike(x, t)
    BY <1>4, <1>11
  <2>2. /\ l <= Len(s)
        /\ \A i \in 1..l : s[i] = x[i]
        /\ \A i \in 1..Len(s) : l < i => s[i] = NL
    <3>1. CASE s = TrimRight(x)
      BY <1>6, <1>7, <3>1
    <3>2. CASE s = Append(TrimRight(x), NL)
      <4>1. /\ Len(s) = l + 1
            /\ \A i \in 1..l : s[i] = TrimRight(x)[i]
            /\ s[l + 1] = NL
        BY <1>7, <3>2, TokensAssumption, AppendProperties
      <4>2. \A i \in 1..Len(s) : l < i => i = l + 1
        BY <1>6, <4>1
      <4> QED BY <1>6, <1>7, <4>1, <4>2
    <3> QED BY <2>1, <3>1, <3>2 DEF EndLike
  <2>3. Agrees(s, head, k)
    <3>1. \A i \in 1..k : i \in 1..l /\ i \in 1..o.start
      BY <1>1, <1>6, <1>8, <1>9
    <3>2. k <= Len(s)
      <4>1. Len(s) \in Nat
        BY <1>2, <2>1, EndLikeText, LenProperties
      <4> QED BY <1>6, <1>8, <1>9, <2>2, <4>1
    <3>3. k <= Len(head)
      BY <1>1, <1>8, LenProperties
    <3> QED BY <1>3, <2>2, <3>1, <3>2, <3>3 DEF Agrees
  <2>4. \A i \in (k + 1)..n : i <= Len(s) => s[i] = NL
    <3> TAKE i \in (k + 1)..n
    <3> HAVE i <= Len(s)
    <3>1. i \in Nat /\ i # 0 /\ i <= o.start
      BY <1>1, <1>8
    <3>2. CASE i <= l
      <4>1. i \in 1..l /\ i \in 1..o.start
        BY <1>6, <3>1, <3>2
      <4> QED BY <1>3, <1>8, <2>2, <4>1 DEF Agrees
    <3>3. CASE l < i
      <4>1. i \in 1..Len(s)
        BY <3>1
      <4> QED BY <2>2, <3>3, <4>1
    <3> QED BY <1>6, <3>1, <3>2, <3>3
  <2>5. Near(s, n)
    BY <2>3, <2>4 DEF Near, k
  <2> QED BY <2>5 DEF s
<1> QED BY <1>5, <1>10, <1>11

\* What is still to be spliced finds HEAD's text before it.
LEMMA NearStep ==
  ASSUME SpliceTypeOK, Sourced, KeptDisjoint, KeptTidy, KeptSpaced, PrefixIntact,
         pc = "splice", NEW p \in pending, Foremost(p), Ready(p),
         NEW q \in pending \ {p}, Near(out, q.start), PrefixIntact', Splice(p)
  PROVE  Near(out', q.start)
<1>1. /\ p \in OpOf(head) /\ q \in OpOf(head) /\ head \in Seq(Tokens) /\ out \in Seq(Tokens)
      /\ Len(head) \in Nat /\ Len(out) \in Nat
      /\ p.kind \in Kinds /\ p.start \in Nat /\ p.end \in Nat /\ p.text \in Seq(Tokens)
      /\ p.start <= Len(head) /\ p.end <= Len(head)
      /\ p.kind # "insert" => p.start < p.end
      /\ q.start \in Nat /\ q.end \in Nat /\ q.start <= Len(head) /\ q.end <= Len(head)
      /\ q.kind # "insert" => q.start < q.end
      /\ q.start \in 0..Len(head)
  BY OpFields, LenProperties DEF SpliceTypeOK
<1>2. /\ out' = Spliced(out, p) /\ pc' = "splice" /\ pending' = pending \ {p}
      /\ head' = head /\ kept' = kept /\ Fits(p)
  BY DEF Splice
<1>3. Spliced(out, p) \in Seq(Tokens)
  BY <1>1, <1>2, SplicedFacts DEF Fits
<1>4. q.start <= p.start
  BY <1>1 DEF Foremost, SplicesBefore
<1>5. CASE q.kind # "insert"
  <2>1. KeptTidy'
    BY <1>2 DEF KeptTidy
  <2>2. q.end <= Len(out') /\ \A i \in 1..q.end : out'[i] = head[i]
    BY <1>2, <1>5, <2>1 DEF PrefixIntact
  <2>3. Agrees(Spliced(out, p), head, q.end) /\ q.start <= q.end
    BY <1>1, <1>2, <1>5, <2>2 DEF Agrees
  <2> QED BY <1>1, <1>2, <1>3, <2>3, NearAgrees
<1>6. CASE q.kind = "insert" /\ p.kind = "insert"
  <2>1. PICK i \in DOMAIN kept : kept[i].kind = "insert" /\ kept[i].start = q.start
    BY <1>6 DEF Sourced
  <2>2. PICK j \in DOMAIN kept : kept[j].kind = "insert" /\ kept[j].start = p.start
    BY <1>6 DEF Sourced
  <2>3. q.start < p.start
    BY <1>1, <1>6 DEF Foremost, SplicesBefore
  <2>4. PICK n \in (q.start + 1)..p.start : head[n] # NL
    BY <2>1, <2>2, <2>3 DEF KeptSpaced
  <2> DEFINE k == TrimmedLen(Take(head, p.start))
  <2>5. k \in 0..p.start /\ \A l \in (k + 1)..p.start : head[l] = NL
    BY <1>1, NearFact
  <2>6. Agrees(out, head, k)
    BY DEF Ready, Near
  <2> HIDE DEF k
  <2>7. n \in 1..k /\ n \in 1..p.start /\ n \in Nat
    BY <1>1, <2>4, <2>5
  <2>8. n <= Len(out) /\ out[n] # NL /\ Agrees(out, head, n)
    BY <1>1, <2>4, <2>5, <2>6, <2>7 DEF Agrees
  <2>9. Agrees(Spliced(out, p), out, n)
    BY <1>1, <1>2, <2>7, <2>8, SplicedFacts DEF Fits
  <2>10. Agrees(Spliced(out, p), head, n) /\ q.start <= n
    BY <1>1, <2>4, <2>7, <2>8, <2>9 DEF Agrees
  <2> QED BY <1>1, <1>2, <1>3, <2>7, <2>10, NearAgrees
<1>7. CASE p.kind = "replace"
  <2>1. /\ Agrees(out, head, p.end) /\ p.end <= Len(out)
        /\ Spliced(out, p) = SpliceReplace(out, p) /\ p.start < p.end
    BY <1>1, <1>2, <1>7 DEF Ready, Fits, Spliced
  <2>2. CASE p.start = 0
    <3>1. Agrees(Spliced(out, p), head, 0)
      BY <1>1, <1>3, <2>2, LenProperties DEF Agrees
    <3> QED BY <1>1, <1>2, <1>3, <1>4, <2>2, <3>1, NearAgrees
  <2>3. CASE p.start # 0
    <3>1. p.start \in 1..p.start
      BY <1>1, <2>3
    <3>2. Agrees(Spliced(out, p), out, p.start)
      BY <1>1, <2>1, <3>1, ReplaceFacts
    <3>3. Agrees(Spliced(out, p), head, p.start)
      <4>1. \A i \in 1..p.start : i \in 1..p.end
        BY <1>1, <2>1
      <4> QED BY <1>1, <2>1, <3>2, <4>1 DEF Agrees
    <3> QED BY <1>1, <1>2, <1>3, <1>4, <3>3, NearAgrees
  <2> QED BY <2>2, <2>3
<1>8. CASE p.kind = "delete"
  <2>1. /\ Agrees(out, head, p.end) /\ p.end <= Len(out)
        /\ Spliced(out, p) = SpliceExcise(out, p) /\ p.start < p.end
        /\ q.start \in 0..p.start
    BY <1>1, <1>2, <1>4, <1>8 DEF Ready, Fits, Spliced
  <2> QED BY <1>1, <1>2, <2>1, ExciseNear
<1> QED BY <1>1, <1>5, <1>6, <1>7, <1>8 DEF Kinds

\* What the edits are does not change while they are merged and spliced.
LEMMA Framed ==
  ASSUME kept' = kept, head' = head
  PROVE  /\ \A s, D : EditedBy(s, D)' <=> EditedBy(s, D)
         /\ \A s, n : Near(s, n)' <=> Near(s, n)
         /\ \A t, G : Holds(t, G)' <=> Holds(t, G)
         /\ \A o : Added(o)' = Added(o)
         /\ KeptTidy' <=> KeptTidy
         /\ KeptSpaced' <=> KeptSpaced
<1>1. ASSUME NEW s, NEW D PROVE EditedBy(s, D)' <=> EditedBy(s, D)
  BY DEF EditedBy, Cuts, Ledger, Remaining, Brings, Added, Ahead
<1>2. ASSUME NEW s, NEW n PROVE Near(s, n)' <=> Near(s, n)
  BY DEF Near
<1>3. ASSUME NEW t, NEW G PROVE Holds(t, G)' <=> Holds(t, G)
  BY DEF Holds, Brings, Added, Ahead
<1>4. ASSUME NEW o PROVE Added(o)' = Added(o)
  BY DEF Added
<1>5. (KeptTidy' <=> KeptTidy) /\ (KeptSpaced' <=> KeptSpaced)
  BY DEF KeptTidy, KeptSpaced
<1> QED BY <1>1, <1>2, <1>3, <1>4, <1>5

\* HEAD's text is HEAD's text with no edit carried out.
LEMMA NothingEdited ==
  ASSUME SpliceTypeOK
  PROVE  EditedBy(head, {})
<1>1. head \in Seq(Tokens) /\ Len(head) \in Nat /\ Len(head) \in 0..Len(head)
  BY LenProperties DEF SpliceTypeOK
<1>2. ASSUME NEW n \in 0..Len(head), NEW x \in Solids
      PROVE  Ledger({}, n, {}, <<>>)[x] = HeadCount(n, x)
  <2>1. Cardinality(Remaining({}, n, x)) = HeadCount(n, x)
    BY RemainingBefore
  <2>2. Ledger({}, n, {}, <<>>)[x] = Cardinality(Remaining({}, n, x))
          + Cardinality(Brings({}, x)) + TokenCount(<<>>, x)
    BY LedgerEntry
  <2>3. HeadCount(n, x) \in Nat
    BY <1>1, HeadPlaces
  <2> QED BY <2>1, <2>2, <2>3, BringsNone, CountNothing
<1>3. \A x \in Solids : TokenCount(head, x) = Ledger({}, Len(head), {}, <<>>)[x]
  <2>1. Take(head, Len(head)) = head
    BY <1>1, SubSeqFull DEF Take
  <2> QED BY <1>1, <1>2, <2>1 DEF HeadCount
<1>4. ASSUME NEW n \in 0..Len(head)
      PROVE  CutOf(head, Ledger({}, n, {i \in {} : kept[i].start < n}, <<>>))
  <2>1. {i \in {} : kept[i].start < n} = {}
    OBVIOUS
  <2>2. \A x \in Solids : TokenCount(Take(head, n), x) = Ledger({}, n, {}, <<>>)[x]
    BY <1>2 DEF HeadCount
  <2>3. CutOf(head, Ledger({}, n, {}, <<>>))
    BY <2>2 DEF CutOf
  <2> QED BY <2>1, <2>3
<1> QED BY <1>3, <1>4, EditedMeans DEF EditedCuts

LEMMA ProgressStep ==
  ASSUME SpliceTypeOK, Sourced, KeptDisjoint, PrefixIntact, Gathered, Progress,
         [SpliceNext]_spliceVars
  PROVE  Progress'
<1>1. CASE Merged
  <2>1. /\ head' = head /\ kept' = kept /\ out' = head /\ pending' = pending
        /\ pc = "merge" /\ pc' = "splice" /\ todo = {} /\ todo' = todo
    BY <1>1 DEF Merged
  <2>2. Gone = {} /\ Gone' = {}
    <3>1. \A i \in DOMAIN kept : \E p \in pending : SameSlot(kept[i], p)
      BY <2>1 DEF Gathered
    <3> QED BY <2>1, <3>1 DEF Gone
  <2>3. EditedBy(head, {}) /\ EditedBy(out, Gone)'
    <3>1. EditedBy(head, {})
      BY NothingEdited
    <3> QED BY <2>1, <2>2, <3>1, Framed
  <2>4. \A p \in pending : Near(out, p.start)'
    <3> TAKE p \in pending
    <3>1. /\ p.start \in Nat /\ p.start <= Len(head) /\ head \in Seq(Tokens)
          /\ p.start \in 0..Len(head)
      BY OpFields, LenProperties DEF SpliceTypeOK
    <3>2. Agrees(head, head, p.start)
      BY <3>1 DEF Agrees
    <3>3. Near(head, p.start)
      BY <3>1, <3>2, NearAgrees
    <3> QED BY <2>1, <3>3, Framed
  <2> QED BY <2>1, <2>2, <2>3, <2>4 DEF Progress
<1>2. ASSUME NEW p \in pending, Splice(p) PROVE Progress'
  <2>1. /\ pc = "splice" /\ pc' = "splice" /\ Foremost(p)
        /\ out' = Spliced(out, p) /\ pending' = pending \ {p}
        /\ head' = head /\ kept' = kept /\ todo' = todo
    BY <1>2 DEF Splice
  <2>2. SUFFICES ASSUME KeptTidy, KeptSpaced
                 PROVE  /\ \A q \in pending' : Near(out, q.start)'
                        /\ \A i \in Gone' : \A q \in pending' : SplicesBefore(kept[i], q)'
                        /\ EditedBy(out, Gone)'
    BY <2>1, Framed DEF Progress
  <2>3. Ready(p) /\ EditedBy(out, Gone)
    BY <2>1, <2>2, IsReady DEF Progress
  <2>4. Gone' = Gone \cup Group(p)
    <3>1. Group(p) = {i \in DOMAIN kept : SameSlot(kept[i], p)}
      BY <2>1, GroupFact
    <3>2. \A q \in pending \ {p} : ~SameSlot(p, q)
      BY <2>1 DEF Gathered
    <3>3. \A i \in DOMAIN kept : \A q : SameSlot(kept[i], p) /\ SameSlot(kept[i], q) => SameSlot(p, q)
      BY DEF SameSlot
    <3>4. Gone' = {i \in DOMAIN kept : \A q \in pending \ {p} : ~SameSlot(kept[i], q)}
      BY <2>1 DEF Gone
    <3> QED BY <3>1, <3>2, <3>3, <3>4 DEF Gone
  <2>5. EditedBy(out, Gone)'
    <3>1. EditedBy(Spliced(out, p), Gone \cup Group(p))
      BY <2>3, EditedSplice
    <3> QED BY <2>1, <2>4, <3>1, Framed
  <2>6. \A q \in pending' : Near(out, q.start)'
    <3>1. PrefixIntact'
      BY PrefixStep
    <3>2. ASSUME NEW q \in pending \ {p} PROVE Near(out', q.start)
      <4>1. Near(out, q.start)
        BY <2>1, <2>2 DEF Progress
      <4> QED BY <1>2, <2>1, <2>2, <2>3, <3>1, <4>1, NearStep
    <3> QED BY <2>1, <3>2, Framed
  <2>7. \A i \in Gone' : \A q \in pending' : SplicesBefore(kept[i], q)'
    <3> TAKE i \in Gone'
    <3> TAKE q \in pending'
    <3>1. q \in pending /\ q # p /\ SplicesBefore(p, q)
      BY <2>1 DEF Foremost
    <3>2. SplicesBefore(kept[i], q)
      <4>1. CASE i \in Gone
        BY <2>1, <2>2, <3>1, <4>1 DEF Progress
      <4>2. CASE i \in Group(p)
        <5>1. kept[i].start = p.start /\ (kept[i].kind = "insert" <=> p.kind = "insert")
          BY <2>3, <4>2 DEF Ready, Slotted
        <5> QED BY <3>1, <5>1 DEF SplicesBefore
      <4> QED BY <2>4, <4>1, <4>2
    <3> QED BY <2>1, <3>2 DEF SplicesBefore
  <2> QED BY <2>5, <2>6, <2>7
<1>3. CASE AllSpliced
  <2>1. /\ pc = "splice" /\ pending = {}
        /\ UNCHANGED <<head, kept, pending, out, todo>>
    BY <1>3 DEF AllSpliced
  <2>2. Gone' = Gone
    BY <2>1 DEF Gone
  <2> QED BY <2>1, <2>2, Framed DEF Progress
<1>4. CASE pc' \notin {"splice", "spliced"}
  BY <1>4 DEF Progress
<1>5. CASE UNCHANGED spliceVars
  <2>1. UNCHANGED <<head, ops, pc, todo, kept, pending, out>>
    BY <1>5 DEF spliceVars
  <2>2. Gone' = Gone
    BY <2>1 DEF Gone
  <2>3. \A i, p : SplicesBefore(kept[i], p)' <=> SplicesBefore(kept[i], p)
    BY <2>1 DEF SplicesBefore
  <2> QED BY <2>1, <2>2, <2>3, Framed DEF Progress
<1> QED
  BY <1>1, <1>2, <1>3, <1>4, <1>5, Steps DEF Collect, Abandon, Begin, Deliver, Coalesce, MergeTies,
     Coalesced, Panic

\* No edit is ahead of itself.
LEMMA NotAheadOfItself ==
  ASSUME SpliceTypeOK, NEW i \in DOMAIN kept
  PROVE  ~Ahead(i, i)
<1>1. /\ kept[i] \in OpOf(head) /\ DOMAIN kept = 1..Len(kept) /\ Len(kept) \in Nat
  BY KeptFinite, LenProperties DEF SpliceTypeOK
<1>2. kept[i].seq \in Nat /\ kept[i].start \in Nat /\ i \in Nat
  BY <1>1, KeptFields DEF OpOf
<1> QED BY <1>2 DEF Ahead

\* An edit alone holds its own text.
LEMMA HoldsOwn ==
  ASSUME SpliceTypeOK, NEW i \in DOMAIN kept, NEW t \in Seq(Tokens), t = Added(kept[i])
  PROVE  Holds(t, {i})
<1>1. \A x \in Solids : TokenCount(t, x) = Cardinality(Brings({i}, x))
  BY BringsOne
<1>2. ASSUME NEW k \in 0..Len(t)
      PROVE  CutOf(t, [x \in Solids |-> Cardinality(Brings({j \in {i} : Ahead(j, i)}, x))
                                          + TokenCount(Take(t, k), x)])
  <2>1. ~Ahead(i, i)
    BY NotAheadOfItself
  <2>2. {j \in {i} : Ahead(j, i)} = {}
    BY <2>1
  <2> DEFINE f == [x \in Solids |-> Cardinality(Brings({j \in {i} : Ahead(j, i)}, x))
                                      + TokenCount(Take(t, k), x)]
  <2>3. ASSUME NEW x \in Solids PROVE f[x] = TokenCount(Take(t, k), x)
    <3>1. Cardinality(Brings({j \in {i} : Ahead(j, i)}, x)) = 0
      BY <2>2, BringsNone
    <3>2. TokenCount(Take(t, k), x) \in Nat
      BY TakeText, CountPlaces
    <3> QED BY <3>1, <3>2
  <2> HIDE DEF f
  <2>4. CutOf(t, f)
    BY <2>3 DEF CutOf
  <2> QED BY <2>4 DEF f
<1> QED BY <1>1, <1>2 DEF Holds

\* Joining the text of the next edit to what holds those ahead of it.
LEMMA HoldsJoined ==
  ASSUME SpliceTypeOK, NEW t \in Seq(Tokens), NEW G \in SUBSET DOMAIN kept, Holds(t, G),
         NEW i \in DOMAIN kept, i \notin G, NEW gap \in Nat,
         \A j \in G : Ahead(j, i) /\ ~Ahead(i, j), kept[i].kind # "delete"
  PROVE  Holds(JoinWithSeparator(t, kept[i].text, gap), G \cup {i})
<1> DEFINE u == Added(kept[i])
           s == JoinWithSeparator(t, u, gap)
           H == G \cup {i}
<1>1. u \in Seq(Tokens) /\ u = kept[i].text
  BY KeptFinite DEF Added
<1> HIDE DEF u
<1>2. \A x \in Solids : Cardinality(Brings(H, x)) = Cardinality(Brings(G, x)) + TokenCount(u, x)
  <2> TAKE x \in Solids
  <2>1. {i} \in SUBSET DOMAIN kept /\ G \cap {i} = {}
    OBVIOUS
  <2>2. Cardinality(Brings(H, x)) = Cardinality(Brings(G, x)) + Cardinality(Brings({i}, x))
    BY <2>1, BringsBoth
  <2> QED BY <2>2, BringsOne DEF u
<1>3. \A x \in Solids : TokenCount(t, x) = Cardinality(Brings(G, x))
  BY DEF Holds
<1>4. /\ \A f : CutOf(t, f) => CutOf(s, f)
      /\ \A f, g : /\ CutOf(u, f)
                   /\ \A a \in Solids : g[a] = TokenCount(t, a) + f[a]
                   => CutOf(s, g)
      /\ \A x \in Solids : TokenCount(s, x) = TokenCount(t, x) + TokenCount(u, x)
  BY <1>1, CutJoin, CountJoin DEF Solids
<1>5. ~Ahead(i, i)
  BY NotAheadOfItself
<1> HIDE DEF s
<1>6. \A x \in Solids : TokenCount(s, x) = Cardinality(Brings(H, x))
  BY <1>2, <1>3, <1>4
<1>7. ASSUME NEW j \in H, NEW k \in 0..Len(Added(kept[j]))
      PROVE  CutOf(s, [x \in Solids |-> Cardinality(Brings({l \in H : Ahead(l, j)}, x))
                                          + TokenCount(Take(Added(kept[j]), k), x)])
  <2>1. CASE j \in G
    <3>1. {l \in H : Ahead(l, j)} = {l \in G : Ahead(l, j)}
      BY <2>1
    <3>2. CutOf(t, [x \in Solids |-> Cardinality(Brings({l \in G : Ahead(l, j)}, x))
                                       + TokenCount(Take(Added(kept[j]), k), x)])
      BY <2>1 DEF Holds
    <3> QED BY <1>4, <3>1, <3>2
  <2>2. CASE j = i
    <3>1. {l \in H : Ahead(l, j)} = G
      BY <1>5, <2>2
    <3> DEFINE f == [x \in Solids |-> TokenCount(Take(u, k), x)]
               g == [x \in Solids |-> Cardinality(Brings({l \in H : Ahead(l, j)}, x))
                                        + TokenCount(Take(Added(kept[j]), k), x)]
    <3>2. k \in 0..Len(u) /\ Added(kept[j]) = u
      BY <2>2 DEF u
    <3>3. CutOf(u, f)
      BY <3>2 DEF CutOf
    <3>4. \A a \in Solids : g[a] = TokenCount(t, a) + f[a]
      BY <1>3, <3>1, <3>2
    <3> HIDE DEF f, g
    <3>5. CutOf(s, g)
      BY <1>4, <3>3, <3>4
    <3> QED BY <3>5 DEF g
  <2> QED BY <2>1, <2>2
<1> HIDE DEF H
<1>8. Holds(s, H)
  BY <1>6, <1>7 DEF Holds
<1> QED BY <1>1, <1>8 DEF s, H, u

\* Among insertions at one offset, ahead is merged before.
LEMMA AheadMerges ==
  ASSUME SpliceTypeOK, NEW i \in DOMAIN kept, NEW j \in DOMAIN kept, i # j,
         kept[i].kind = "insert", kept[j].kind = "insert", kept[i].start = kept[j].start,
         MergesBefore(i, j)
  PROVE  Ahead(i, j) /\ ~Ahead(j, i)
<1>1. /\ kept[i] \in OpOf(head) /\ kept[j] \in OpOf(head)
      /\ DOMAIN kept = 1..Len(kept) /\ Len(kept) \in Nat
  BY KeptFinite, LenProperties DEF SpliceTypeOK
<1>2. kept[i].seq \in Nat /\ kept[j].seq \in Nat /\ i \in Nat /\ j \in Nat
      /\ kept[i].start \in Nat /\ kept[j].start \in Nat
  BY <1>1, KeptFields DEF OpOf
<1> QED BY <1>2 DEF MergesBefore, Ahead

LEMMA GatheredStep ==
  ASSUME SpliceTypeOK, Sourced, KeptDisjoint, Gathered, [SpliceNext]_spliceVars
  PROVE  Gathered'
<1>1. CASE Coalesced
  <2>1. /\ pc' = "merge" /\ kept' = kept /\ head' = head
        /\ todo' = {i \in DOMAIN kept : kept[i].kind = "insert"}
        /\ pending' = {kept[i] : i \in {j \in DOMAIN kept : kept[j].kind # "insert"}}
    BY <1>1 DEF Coalesced
  <2>2. \A i \in DOMAIN kept \ todo' : kept[i].kind # "insert" /\ kept[i] \in pending'
    BY <2>1
  <2>3. ASSUME NEW i \in DOMAIN kept, NEW j \in DOMAIN kept,
               kept[i].kind # "insert", kept[j].kind # "insert", SameSlot(kept[i], kept[j])
        PROVE  i = j
    <3>1. /\ kept[i].start \in Nat /\ kept[i].end \in Nat /\ kept[i].start < kept[i].end
          /\ kept[j].start \in Nat /\ kept[j].end \in Nat /\ kept[j].start < kept[j].end
          /\ kept[i].start = kept[j].start
      BY <2>3, KeptFields DEF SameSlot
    <3>2. i # j => kept[i].end <= kept[j].start \/ kept[j].end <= kept[i].start
      BY <2>3 DEF KeptDisjoint
    <3> QED BY <3>1, <3>2
  <2>4. \A p, q \in pending' : SameSlot(p, q) => p = q
    BY <2>1, <2>3
  <2>5. ASSUME NEW p \in pending' PROVE Holds(Added(p), Group(p))'
    <3>1. PICK i \in DOMAIN kept : kept[i].kind # "insert" /\ p = kept[i]
      BY <2>1
    <3>2. Group(p)' = {i}
      <4>1. Group(p)' = {j \in DOMAIN kept \ todo' : SameSlot(kept[j], p)}
        BY <2>1 DEF Group
      <4>2. i \in DOMAIN kept \ todo' /\ SameSlot(kept[i], p)
        BY <2>1, <3>1 DEF SameSlot
      <4> QED BY <2>2, <2>3, <3>1, <4>1, <4>2
    <3>3. Holds(Added(p), {i})
      <4>1. Added(kept[i]) \in Seq(Tokens)
        BY KeptFinite
      <4> QED BY <3>1, <4>1, HoldsOwn
    <3> QED BY <2>1, <3>2, <3>3, Framed
  <2>6. \A i \in DOMAIN kept \ todo' : \E p \in pending' : SameSlot(kept[i], p)
    BY <2>2 DEF SameSlot
  <2>7. \A p, q : SameSlot(p, q)' <=> SameSlot(p, q)
    BY DEF SameSlot
  <2> QED BY <2>1, <2>2, <2>4, <2>5, <2>6 DEF Gathered
<1>2. ASSUME NEW i \in todo, MergeTies(i) PROVE Gathered'
  <2>1. /\ pc = "merge" /\ pc' = "merge" /\ kept' = kept /\ head' = head
        /\ todo' = todo \ {i} /\ \A j \in todo \ {i} : MergesBefore(i, j)
        /\ IF Tied(kept[i]) = {}
             THEN pending' = pending \cup {FirstOfGroup(kept[i])}
             ELSE pending' = (pending \ Tied(kept[i]))
                               \cup {MergedOnto(p, kept[i]) : p \in Tied(kept[i])}
    BY <1>2 DEF MergeTies
  <2>2. /\ todo \subseteq {l \in DOMAIN kept : kept[l].kind = "insert"}
        /\ i \in DOMAIN kept /\ kept[i].kind = "insert" /\ kept[i] \in OpOf(head)
        /\ head \in Seq(Tokens)
    BY <2>1, KeptFinite DEF Sourced, SpliceTypeOK
  <2>3. /\ \A l \in DOMAIN kept \ todo :
             /\ \E p \in pending : SameSlot(kept[l], p)
             /\ \A j \in todo : kept[l].kind = "insert" => MergesBefore(l, j)
        /\ \A p, q \in pending : SameSlot(p, q) => p = q
        /\ \A p \in pending : Holds(Added(p), Group(p))
    BY <2>1 DEF Gathered
  <2>4. \A l \in DOMAIN kept \ todo' : \A j \in todo' :
          kept[l].kind = "insert" => MergesBefore(l, j)
    BY <2>1, <2>3
  <2>5. \A q \in pending : SameSlot(q, kept[i]) => q \in Tied(kept[i])
    BY <2>2 DEF Tied, SameSlot
  <2>6. \A l : \A p : ~SameSlot(kept[i], p) => {j \in DOMAIN kept \ todo' : SameSlot(kept[j], p)}
                                              = {j \in DOMAIN kept \ todo : SameSlot(kept[j], p)}
    BY <2>1
  <2>7. \A p : Group(p)' = {j \in DOMAIN kept \ todo' : SameSlot(kept[j], p)}
    BY <2>1 DEF Group
  \* What becomes of the edit: its slot is new, or one of pending.
  <2>8. PICK m : /\ pending' = {q \in pending : ~SameSlot(q, kept[i])} \cup {m}
                 /\ SameSlot(kept[i], m)
                 /\ Holds(Added(m), {j \in DOMAIN kept \ todo' : SameSlot(kept[j], kept[i])})
    <3>1. CASE Tied(kept[i]) = {}
      <4> DEFINE m == FirstOfGroup(kept[i])
      <4>1. /\ m.kind = "insert" /\ m.start = kept[i].start /\ m.text = kept[i].text
            /\ m \in OpOf(head)
        BY <2>2, MergedOps DEF FirstOfGroup, OpOf
      <4>2. SameSlot(kept[i], m)
        BY <2>2, <4>1 DEF SameSlot
      <4>3. \A q \in pending : ~SameSlot(q, kept[i])
        BY <2>5, <3>1
      <4>4. {j \in DOMAIN kept \ todo' : SameSlot(kept[j], kept[i])} = {i}
        <5>1. \A j \in DOMAIN kept \ todo : ~SameSlot(kept[j], kept[i])
          <6> TAKE j \in DOMAIN kept \ todo
          <6>1. PICK p \in pending : SameSlot(kept[j], p)
            BY <2>3
          <6> QED BY <4>3, <6>1 DEF SameSlot
        <5> QED BY <2>1, <2>2, <5>1 DEF SameSlot
      <4>5. Added(m) = Added(kept[i]) /\ Added(m) \in Seq(Tokens)
        BY <2>2, <4>1, KeptFinite DEF Added
      <4> HIDE DEF m
      <4>6. Holds(Added(m), {i})
        BY <2>2, <4>5, HoldsOwn
      <4>7. pending' = {q \in pending : ~SameSlot(q, kept[i])} \cup {m}
        BY <2>1, <3>1, <4>3 DEF m
      <4> QED BY <4>2, <4>4, <4>6, <4>7
    <3>2. ASSUME NEW p \in Tied(kept[i])
          PROVE  \E m : /\ pending' = {q \in pending : ~SameSlot(q, kept[i])} \cup {m}
                        /\ SameSlot(kept[i], m)
                        /\ Holds(Added(m), {j \in DOMAIN kept \ todo' : SameSlot(kept[j], kept[i])})
      <4> DEFINE m == MergedOnto(p, kept[i])
                 gap == WiderGap(p.member, kept[i].lead)
      <4>1. /\ p \in pending /\ p \in OpOf(head) /\ p.kind = "insert" /\ p.start = kept[i].start
            /\ SameSlot(kept[i], p) /\ SameSlot(p, kept[i])
        BY <2>2 DEF Tied, SameSlot, SpliceTypeOK
      <4>2. Tied(kept[i]) = {p}
        BY <2>2, <2>3, <4>1 DEF Tied, SameSlot
      <4>3. /\ m.kind = "insert" /\ m.start = p.start
            /\ m.text = JoinWithSeparator(p.text, kept[i].text, gap)
        BY <4>1 DEF MergedOnto, OpOf
      <4>4. /\ gap \in Nat /\ p.text \in Seq(Tokens) /\ kept[i].text \in Seq(Tokens)
        <5>1. /\ p.member \in BOOLEAN /\ kept[i].lead \in Nat
              /\ p.text \in Seq(Tokens) /\ kept[i].text \in Seq(Tokens)
          BY <2>2, <4>1, OpFields
        <5> QED BY <5>1, WiderGapNat
      <4>5. pending' = {q \in pending : ~SameSlot(q, kept[i])} \cup {m}
        <5>1. {MergedOnto(q, kept[i]) : q \in Tied(kept[i])} = {m}
          BY <4>2
        <5>2. pending \ Tied(kept[i]) = {q \in pending : ~SameSlot(q, kept[i])}
          BY <2>5, <4>1, <4>2
        <5>3. Tied(kept[i]) # {}
          BY <4>2
        <5> HIDE DEF m
        <5> QED BY <2>1, <5>1, <5>2, <5>3
      <4> DEFINE G == Group(p)
      <4>6. /\ G \in SUBSET DOMAIN kept /\ i \notin G
            /\ \A j \in G : /\ j \in DOMAIN kept \ todo /\ kept[j].kind = "insert"
                            /\ kept[j].start = kept[i].start
        BY <4>1 DEF Group, SameSlot
      <4>7. \A j \in G : Ahead(j, i) /\ ~Ahead(i, j)
        <5> TAKE j \in G
        <5>1. MergesBefore(j, i) /\ i # j
          BY <2>3, <4>6
        <5> QED BY <2>2, <4>6, <5>1, AheadMerges
      <4>8. Holds(p.text, G)
        BY <2>3, <4>1 DEF Added
      <4>9. {j \in DOMAIN kept \ todo' : SameSlot(kept[j], kept[i])} = G \cup {i}
        <5>1. \A j : SameSlot(kept[j], kept[i]) <=> SameSlot(kept[j], p)
          BY <4>1 DEF SameSlot
        <5>2. SameSlot(kept[i], kept[i])
          BY DEF SameSlot
        <5> QED BY <2>1, <2>2, <5>1, <5>2 DEF Group
      <4>10. SameSlot(kept[i], m) /\ Added(m) = JoinWithSeparator(p.text, kept[i].text, gap)
        BY <2>2, <4>1, <4>3 DEF SameSlot, Added
      <4> HIDE DEF m, gap, G
      <4>11. Holds(JoinWithSeparator(p.text, kept[i].text, gap), G \cup {i})
        BY <2>2, <4>4, <4>6, <4>7, <4>8, HoldsJoined
      <4> QED BY <4>5, <4>9, <4>10, <4>11
    <3> QED BY <3>1, <3>2
  <2>9. \A l \in DOMAIN kept \ todo' : \E p \in pending' : SameSlot(kept[l], p)
    <3> TAKE l \in DOMAIN kept \ todo'
    <3>1. CASE SameSlot(kept[l], kept[i])
      BY <2>8, <3>1 DEF SameSlot
    <3>2. CASE ~SameSlot(kept[l], kept[i])
      <4>1. l # i
        BY <3>2 DEF SameSlot
      <4>2. PICK p \in pending : SameSlot(kept[l], p)
        BY <2>1, <2>3, <4>1
      <4>3. ~SameSlot(p, kept[i])
        BY <3>2, <4>2 DEF SameSlot
      <4> QED BY <2>8, <4>2, <4>3
    <3> QED BY <3>1, <3>2
  <2>10. \A p, q \in pending' : SameSlot(p, q) => p = q
    BY <2>3, <2>8 DEF SameSlot
  <2>11. ASSUME NEW p \in pending' PROVE Holds(Added(p), Group(p))'
    <3>1. CASE p = m
      <4>1. Group(p)' = {j \in DOMAIN kept \ todo' : SameSlot(kept[j], kept[i])}
        <5>1. \A j : SameSlot(kept[j], p) <=> SameSlot(kept[j], kept[i])
          BY <2>8, <3>1 DEF SameSlot
        <5> QED BY <2>7, <5>1
      <4>2. Holds(Added(p), {j \in DOMAIN kept \ todo' : SameSlot(kept[j], kept[i])})
        BY <2>8, <3>1
      <4> QED BY <2>1, <4>1, <4>2, Framed
    <3>2. CASE p # m
      <4>1. p \in pending /\ ~SameSlot(kept[i], p)
        BY <2>8, <3>2 DEF SameSlot
      <4>2. Group(p)' = Group(p)
        BY <2>6, <2>7, <4>1 DEF Group
      <4>3. Holds(Added(p), Group(p))
        BY <2>3, <4>1
      <4> QED BY <2>1, <4>2, <4>3, Framed
    <3> QED BY <3>1, <3>2
  <2> QED BY <2>1, <2>4, <2>9, <2>10, <2>11 DEF Gathered, SameSlot, MergesBefore
<1>3. CASE Merged
  <2>1. /\ UNCHANGED <<head, kept, pending, todo>> /\ pc = "merge" /\ pc' = "splice" /\ todo = {}
    BY <1>3 DEF Merged
  <2>2. \A p : Group(p)' = Group(p)
    BY <2>1 DEF Group
  <2>3. \A p, q : SameSlot(p, q)' <=> SameSlot(p, q)
    BY DEF SameSlot
  <2> QED BY <2>1, <2>2, <2>3, Framed DEF Gathered
<1>4. ASSUME NEW p \in pending, Splice(p) PROVE Gathered'
  <2>1. /\ UNCHANGED <<head, kept, todo, pc>> /\ pc = "splice" /\ pending' = pending \ {p}
    BY <1>4 DEF Splice
  <2>2. \A q : Group(q)' = Group(q)
    BY <2>1 DEF Group
  <2> QED BY <2>1, <2>2, Framed DEF Gathered
<1>5. CASE AllSpliced
  BY <1>5 DEF AllSpliced, Gathered
<1>6. CASE pc' \notin {"merge", "splice", "spliced"}
  BY <1>6 DEF Gathered
<1>7. CASE UNCHANGED spliceVars
  <2>1. UNCHANGED <<head, ops, pc, todo, kept, pending, out>>
    BY <1>7 DEF spliceVars
  <2>2. \A q : Group(q)' = Group(q)
    BY <2>1 DEF Group
  <2>3. \A i, j : MergesBefore(i, j)' <=> MergesBefore(i, j)
    BY <2>1 DEF MergesBefore
  <2> QED BY <2>1, <2>2, <2>3, Framed DEF Gathered
<1> QED
  BY <1>1, <1>2, <1>3, <1>4, <1>5, <1>6, <1>7, Steps
  DEF Collect, Abandon, Begin, Deliver, Coalesce, Panic

\* The text is delivered with every edit carried out.
LEMMA EditedAll ==
  Progress => AsEdited
<1>1. SUFFICES ASSUME Progress, pc = "spliced", KeptTidy, KeptSpaced PROVE EditedBy(out, DOMAIN kept)
  BY DEF AsEdited
<1>2. pending = {} /\ EditedBy(out, Gone)
  BY <1>1 DEF Progress
<1>3. Gone = DOMAIN kept
  BY <1>2 DEF Gone
<1> QED BY <1>2, <1>3


-----------------------------------------------------------------------------
(* What became of each edit that was planned. *)

Looked == IF pc = "coalesce" THEN DOMAIN ops \ todo ELSE DOMAIN ops

\* o was kept, or is covered by a kept edit as wide as it is.
Settled(o) ==
  \E i \in DOMAIN kept : \/ kept[i] = o
                         \/ Swallows(kept[i], o) /\ Span(o) <= Span(kept[i])

Accounted ==
  /\ \A i \in DOMAIN kept : \E a \in Looked : kept[i] = ops[a]
  /\ pc = "coalesce" => \A i \in DOMAIN kept : \A b \in todo : Span(ops[b]) <= Span(kept[i])
  /\ pc \notin {"plan", "refused"} => \A a \in Looked : Settled(ops[a])
  /\ \A i, j \in DOMAIN kept : i # j /\ kept[i] = kept[j] =>
       \E a, b \in Looked : a # b /\ ops[a] = kept[i] /\ ops[b] = kept[i]

LEMMA SettledStays ==
  ASSUME NEW ks, DOMAIN kept \subseteq DOMAIN ks, \A i \in DOMAIN kept : ks[i] = kept[i],
         kept' = ks, NEW o, Settled(o)
  PROVE  Settled(o)'
<1>1. PICK i \in DOMAIN kept : \/ kept[i] = o
                               \/ Swallows(kept[i], o) /\ Span(o) <= Span(kept[i])
  BY DEF Settled
<1>2. i \in DOMAIN kept' /\ kept'[i] = kept[i]
  OBVIOUS
<1>3. \/ kept'[i] = o
      \/ Swallows(kept'[i], o) /\ Span(o) <= Span(kept'[i])
  BY <1>1, <1>2
<1>4. \A k : Swallows(k, o)' <=> Swallows(k, o)
  BY DEF Swallows, SameInsertion, CarriedBy, Overlap
<1> QED BY <1>2, <1>3 DEF Settled, Swallows, SameInsertion, CarriedBy, Overlap, Span

LEMMA SpanNat ==
  ASSUME SpliceTypeOK, NEW a \in DOMAIN ops
  PROVE  Span(ops[a]) \in Nat
<1>1. head \in Seq(Tokens) /\ ops[a] \in OpOf(head)
  BY ElementOfSeq, LenProperties DEF SpliceTypeOK
<1> QED BY <1>1, OpFields DEF Span

LEMMA AccountedStep ==
  ASSUME SpliceTypeOK, Sourced, Chosen, Accounted, [SpliceNext]_spliceVars
  PROVE  Accounted'
<1>1. ASSUME NEW n \in todo, Coalesce(n) PROVE Accounted'
  <2>1. /\ pc = "coalesce" /\ n \in DOMAIN ops /\ pc' = pc /\ ops' = ops
        /\ todo' = todo \ {n} /\ todo \subseteq DOMAIN ops
        /\ \A j \in todo' : RanksBefore(n, j)
        /\ kept' = IF SwallowedBy(kept, ops[n]) THEN kept ELSE Append(kept, ops[n])
    BY <1>1 DEF Coalesce, Sourced
  <2>2. Looked = DOMAIN ops \ todo /\ Looked' = Looked \cup {n} /\ n \notin Looked
    BY <2>1 DEF Looked
  <2>3. \A b \in todo' : Span(ops[b]) <= Span(ops[n])
    BY <2>1, SpanNat DEF RanksBefore
  <2>4. \A i \in DOMAIN kept : \E a \in Looked : kept[i] = ops[a]
    BY DEF Accounted
  <2>5. \A i \in DOMAIN kept : Span(ops[n]) <= Span(kept[i])
    BY <2>1 DEF Accounted
  <2>6. /\ DOMAIN kept \subseteq DOMAIN kept' /\ \A i \in DOMAIN kept : kept'[i] = kept[i]
        /\ \A i \in DOMAIN kept' : i \notin DOMAIN kept =>
             kept'[i] = ops[n] /\ \A j \in DOMAIN kept' : j = i \/ j \in DOMAIN kept
        /\ ~SwallowedBy(kept, ops[n]) => \E i \in DOMAIN kept' : kept'[i] = ops[n]
    <3>1. /\ kept \in Seq(OpOf(head)) /\ ops[n] \in OpOf(head)
          /\ DOMAIN kept = 1..Len(kept) /\ Len(kept) \in Nat
      BY <2>1, ElementOfSeq, LenProperties DEF SpliceTypeOK
    <3>2. CASE SwallowedBy(kept, ops[n])
      BY <2>1, <3>2
    <3>3. CASE ~SwallowedBy(kept, ops[n])
      <4>1. kept' = Append(kept, ops[n])
        BY <2>1, <3>3
      <4>2. /\ DOMAIN kept' = 1..(Len(kept) + 1)
            /\ \A i \in DOMAIN kept : kept'[i] = kept[i]
            /\ kept'[Len(kept) + 1] = ops[n]
        BY <3>1, <4>1, AppendProperties, LenProperties
      <4> QED BY <3>1, <4>2
    <3> QED BY <3>2, <3>3
  <2>7. \A i \in DOMAIN kept' : \E a \in Looked' : kept'[i] = ops[a]
    BY <2>2, <2>4, <2>6
  <2>8. \A i \in DOMAIN kept' : \A b \in todo' : Span(ops[b]) <= Span(kept'[i])
    BY <2>1, <2>3, <2>6 DEF Accounted
  <2>9. ASSUME NEW a \in Looked' PROVE Settled(ops[a])'
    <3>1. CASE a \in Looked
      <4>1. Settled(ops[a])
        BY <2>1, <3>1 DEF Accounted
      <4> QED BY <2>1, <2>6, <4>1, SettledStays
    <3>2. CASE a = n /\ SwallowedBy(kept, ops[n])
      <4>1. Settled(ops[n])
        BY <2>5, <3>2 DEF SwallowedBy, Settled
      <4> QED BY <2>1, <2>6, <3>2, <4>1, SettledStays
    <3>3. CASE a = n /\ ~SwallowedBy(kept, ops[n])
      BY <2>1, <2>6, <3>3 DEF Settled
    <3> QED BY <2>2, <3>1, <3>2, <3>3
  <2>10. ASSUME NEW i \in DOMAIN kept', NEW j \in DOMAIN kept', i # j, kept'[i] = kept'[j]
         PROVE  \E a, b \in Looked' : a # b /\ ops[a] = kept'[i] /\ ops[b] = kept'[i]
    <3>1. CASE i \in DOMAIN kept /\ j \in DOMAIN kept
      <4>1. \E a, b \in Looked : a # b /\ ops[a] = kept[i] /\ ops[b] = kept[i]
        BY <2>6, <2>10, <3>1 DEF Accounted
      <4> QED BY <2>2, <2>6, <3>1, <4>1
    <3>2. CASE i \notin DOMAIN kept /\ j \in DOMAIN kept
      <4>1. PICK a \in Looked : kept[j] = ops[a]
        BY <2>4, <3>2
      <4> QED BY <2>2, <2>6, <2>10, <3>2, <4>1
    <3>3. CASE i \in DOMAIN kept /\ j \notin DOMAIN kept
      <4>1. PICK a \in Looked : kept[i] = ops[a]
        BY <2>4, <3>3
      <4> QED BY <2>2, <2>6, <2>10, <3>3, <4>1
    <3> QED BY <2>6, <2>10, <3>1, <3>2, <3>3
  <2> HIDE DEF Looked
  <2> QED BY <2>1, <2>7, <2>8, <2>9, <2>10 DEF Accounted
<1>2. CASE Collect \/ Abandon
  BY <1>2 DEF Collect, Abandon, Accounted, Chosen
<1>3. CASE Begin
  <2>1. /\ pc' = "coalesce" /\ kept' = <<>> /\ todo' = DOMAIN ops'
    BY <1>3 DEF Begin, Chosen
  <2> QED BY <2>1 DEF Accounted, Looked
<1>4. ASSUME UNCHANGED <<kept, ops>>, Looked' = Looked,
             pc' \notin {"plan", "refused"} => pc \notin {"plan", "refused"},
             pc' = "coalesce" => pc = "coalesce" /\ todo' = todo
      PROVE  Accounted'
  BY <1>4 DEF Accounted, Settled, Swallows, SameInsertion, CarriedBy, Overlap, Span
<1>5. CASE Coalesced
  <2>1. Looked' = Looked /\ UNCHANGED <<kept, ops>> /\ pc = "coalesce" /\ pc' = "merge"
    BY <1>5 DEF Coalesced, Looked
  <2> QED BY <1>4, <2>1
<1>6. ASSUME Deliver \/ (\E i \in todo : MergeTies(i)) \/ Merged \/ (\E p \in pending : Splice(p))
             \/ (\E p \in pending : Panic(p)) \/ AllSpliced
      PROVE  Accounted'
  <2>1. UNCHANGED <<kept, ops>> /\ pc \notin {"plan", "refused", "coalesce"} /\ pc' # "coalesce"
    BY <1>6 DEF Deliver, MergeTies, Merged, Splice, Panic, AllSpliced
  <2>2. Looked' = Looked
    BY <2>1 DEF Looked
  <2> QED BY <1>4, <2>1, <2>2
<1>7. CASE UNCHANGED spliceVars
  <2>1. UNCHANGED <<kept, ops, pc, todo>>
    BY <1>7 DEF spliceVars
  <2>2. Looked' = Looked
    BY <2>1 DEF Looked
  <2> QED BY <1>4, <2>1, <2>2
<1> QED BY <1>1, <1>2, <1>3, <1>5, <1>6, <1>7, Steps

-----------------------------------------------------------------------------
(* What the text begins with. *)

Begins(s, x) == s # <<>> /\ s[1] = x

\* The insertion that is merged first of all.
Leads(i) == \A j \in DOMAIN kept \ {i} : MergesBefore(i, j)

\* HEAD's first token stays when no edit is before it; of an empty text the
\* first token is that of the first insertion.
Fronted ==
  /\ pc \in {"splice", "spliced"} /\ (\A i \in DOMAIN kept : kept[i].start > 0) =>
       \A x \in Solids : Begins(head, x) => Begins(out, x)
  /\ head = <<>> =>
       \A x \in Solids : \A i \in DOMAIN kept : Leads(i) /\ Begins(kept[i].text, x) =>
         /\ pc = "merge" /\ i \in todo => pending = {}
         /\ pc = "merge" /\ i \notin todo => \A p \in pending : Begins(p.text, x)
         /\ pc = "splice" => \/ Begins(out, x) /\ pending = {}
                             \/ /\ out = <<>> /\ pending # {}
                                /\ \A p \in pending : Begins(p.text, x)
         /\ pc = "spliced" => Begins(out, x)

LEMMA BeginsLen ==
  ASSUME NEW S, NEW s \in Seq(S), NEW x
  PROVE  /\ Begins(s, x) <=> Len(s) >= 1 /\ s[1] = x
         /\ Len(s) \in Nat
         /\ \A t \in Seq(S) : Agrees(t, s, 1) /\ Begins(s, x) => Begins(t, x)
<1>1. \A t \in Seq(S) : Len(t) \in Nat /\ (t = <<>> <=> Len(t) = 0)
  BY EmptySeq, LenProperties
<1> QED BY <1>1 DEF Begins, Agrees

LEMMA TrimLeftBegins ==
  ASSUME NEW s \in Seq(Tokens), NEW x \in Solids, Begins(s, x)
  PROVE  Begins(TrimLeft(s), x) /\ Len(TrimLeft(s)) # 0
<1>1. Len(s) >= 1 /\ s[1] = x /\ Len(s) \in Nat /\ x # NL
  BY BeginsLen DEF Solids
<1>2. BlankLen(s) \in 0..Len(s) /\ \A i \in 1..BlankLen(s) : s[i] = NL
  BY BlankLenFact
<1>3. BlankLen(s) = 0
  BY <1>1, <1>2
<1>4. TrimLeft(s) = Drop(s, 0)
  BY <1>3 DEF TrimLeft
<1>5. 0 \in 0..Len(s)
  BY <1>1
<1>6. Drop(s, 0) \in Seq(Tokens) /\ Len(Drop(s, 0)) = Len(s) - 0
  BY <1>5, DropText
<1>7. \A i \in 1..(Len(s) - 0) : Drop(s, 0)[i] = s[0 + i]
  BY <1>5, DropElements
<1>8. 1 \in 1..(Len(s) - 0) /\ 0 + 1 = 1
  BY <1>1
<1>9. Drop(s, 0)[1] = x
  BY <1>1, <1>7, <1>8
<1>10. Len(Drop(s, 0)) >= 1
  BY <1>1, <1>6
<1>11. Begins(Drop(s, 0), x)
  BY <1>6, <1>9, <1>10, BeginsLen
<1> QED BY <1>4, <1>10, <1>11

LEMMA JoinBegins ==
  ASSUME NEW a \in Seq(Tokens), NEW b \in Seq(Tokens), NEW gap \in Nat, NEW x \in Solids
  PROVE  /\ Begins(a, x) => Begins(JoinWithSeparator(a, b, gap), x)
         /\ a = <<>> /\ Begins(b, x) => Begins(JoinWithSeparator(a, b, gap), x)
<1>1. JoinWithSeparator(a, b, gap) \in Seq(Tokens)
  BY JoinText
<1>2. ASSUME Begins(a, x) PROVE Begins(JoinWithSeparator(a, b, gap), x)
  <2>1. 1 \in 1..Len(a) /\ a[1] # NL
    BY <1>2, BeginsLen DEF Solids
  <2>2. Agrees(JoinWithSeparator(a, b, gap), a, 1)
    BY <2>1, JoinAgrees
  <2> QED BY <1>1, <1>2, <2>2, BeginsLen
<1>3. ASSUME a = <<>>, Begins(b, x) PROVE Begins(JoinWithSeparator(a, b, gap), x)
  <2>1. Begins(TrimLeft(b), x)
    BY <1>3, TrimLeftBegins
  <2>2. Len(TrimRight(a)) = 0
    <3>1. TrimmedLen(a) \in 0..Len(a) /\ Len(a) = 0
      BY <1>3, TrimmedLenFact, EmptySeq
    <3>2. Len(Take(a, TrimmedLen(a))) = TrimmedLen(a)
      BY <3>1, TakeText
    <3> QED BY <3>1, <3>2 DEF TrimRight
  <2>3. JoinWithSeparator(a, b, gap) = TrimLeft(b)
    BY <2>2 DEF JoinWithSeparator
  <2> QED BY <2>1, <2>3
<1> QED BY <1>2, <1>3

LEMMA InsertBegins ==
  ASSUME NEW o, o.text \in Seq(Tokens), o.start = 0, o.member \in BOOLEAN, o.lead \in Nat,
         NEW x \in Solids, Begins(o.text, x)
  PROVE  Begins(SpliceInsert(<<>>, o), x)
<1> DEFINE t == <<>>
           gap == WiderGap(o.member, o.lead)
           mid == JoinWithSeparator(Take(t, 0), o.text, gap)
<1>1. t \in Seq(Tokens) /\ Len(t) = 0 /\ 0 \in 0..Len(t)
  BY EmptySeq
<1> HIDE DEF t
<1>2. Take(t, 0) \in Seq(Tokens) /\ Len(Take(t, 0)) = 0
  BY <1>1, TakeText
<1>3. Take(t, 0) = <<>>
  BY <1>2, EmptySeq
<1>4. gap \in Nat
  BY WiderGapNat
<1> HIDE DEF gap
<1>5. Begins(mid, x) /\ mid \in Seq(Tokens)
  BY <1>2, <1>3, <1>4, JoinBegins, JoinText
<1> HIDE DEF mid
<1>6. Drop(t, 0) \in Seq(Tokens) /\ Len(Drop(t, 0)) = 0
  <2>1. Drop(t, 0) \in Seq(Tokens) /\ Len(Drop(t, 0)) = Len(t) - 0
    BY <1>1, DropText
  <2> QED BY <1>1, <2>1
<1>7. Len(TrimLeft(Drop(t, 0))) = 0
  <2>1. BlankLen(Drop(t, 0)) \in 0..Len(Drop(t, 0))
    BY <1>6, BlankLenFact
  <2>2. Len(Drop(Drop(t, 0), BlankLen(Drop(t, 0)))) = Len(Drop(t, 0)) - BlankLen(Drop(t, 0))
    BY <1>6, <2>1, DropText
  <2> QED BY <1>6, <2>1, <2>2 DEF TrimLeft
<1>8. SpliceInsert(t, o) = EndLike(mid, t)
  BY <1>1, <1>7 DEF SpliceInsert, mid, gap
<1>9. 1 \in 1..Len(mid) /\ mid[1] # NL
  BY <1>5, BeginsLen DEF Solids
<1>10. Agrees(EndLike(mid, t), mid, 1) /\ EndLike(mid, t) \in Seq(Tokens)
  BY <1>1, <1>5, <1>9, EndLikeAgrees, EndLikeText
<1> QED BY <1>5, <1>8, <1>10, BeginsLen DEF t

\* In an empty text there is nothing but insertions at its start.
LEMMA NothingThere ==
  ASSUME head = <<>>, NEW o \in OpOf(head)
  PROVE  o.kind = "insert" /\ o.start = 0 /\ o.text \in Seq(Tokens)
         /\ o.member \in BOOLEAN /\ o.lead \in Nat
<1>1. head \in Seq(Tokens) /\ Len(head) = 0
  BY EmptySeq
<1>2. /\ o.start \in Nat /\ o.end \in Nat /\ o.start <= 0 /\ o.end <= 0
      /\ o.text \in Seq(Tokens) /\ o.member \in BOOLEAN /\ o.lead \in Nat
      /\ o.kind # "insert" => o.start < o.end
  BY <1>1, OpFields
<1> QED BY <1>2

LEMMA LeadsFirst ==
  ASSUME SpliceTypeOK, NEW i \in DOMAIN kept, Leads(i), NEW n \in DOMAIN kept, n # i
  PROVE  ~MergesBefore(n, i)
<1>1. kept[i].seq \in Nat /\ kept[n].seq \in Nat /\ i \in Nat /\ n \in Nat
  <2>1. kept[i] \in OpOf(head) /\ kept[n] \in OpOf(head)
    BY KeptFinite
  <2>2. kept[i].seq \in Nat /\ kept[n].seq \in Nat
    BY <2>1 DEF OpOf
  <2>3. DOMAIN kept = 1..Len(kept) /\ Len(kept) \in Nat
    BY LenProperties DEF SpliceTypeOK
  <2> QED BY <2>2, <2>3
<1>2. MergesBefore(i, n)
  BY DEF Leads
<1> QED BY <1>1, <1>2 DEF MergesBefore

LEMMA FrontedStep ==
  ASSUME SpliceTypeOK, Sourced, Chosen, Gathered, Fronted, [SpliceNext]_spliceVars
  PROVE  Fronted'
<1> DEFINE Found(x, i) ==
             /\ pc = "merge" /\ i \in todo => pending = {}
             /\ pc = "merge" /\ i \notin todo => \A p \in pending : Begins(p.text, x)
             /\ pc = "splice" => \/ Begins(out, x) /\ pending = {}
                                 \/ /\ out = <<>> /\ pending # {}
                                    /\ \A p \in pending : Begins(p.text, x)
             /\ pc = "spliced" => Begins(out, x)
           First(x, i) == Leads(i) /\ Begins(kept[i].text, x)
           Stays == (\A i \in DOMAIN kept : kept[i].start > 0) =>
                      \A x \in Solids : Begins(head, x) => Begins(out, x)
<1>1. head \in Seq(Tokens) /\ out \in Seq(Tokens) /\ pending \subseteq OpOf(head)
  BY DEF SpliceTypeOK
<1>2. head' = head
  BY Steps DEF Collect, Abandon, Begin, Deliver, Coalesce, MergeTies, Coalesced,
     Merged, Splice, Panic, AllSpliced, spliceVars
<1>3. ASSUME UNCHANGED kept,
             pc' \in {"splice", "spliced"} => Stays',
             head = <<>> => \A x \in Solids : \A i \in DOMAIN kept : First(x, i) => Found(x, i)'
      PROVE  Fronted'
  <2>1. \A x : \A i : First(x, i)' <=> First(x, i)
    BY <1>3 DEF Leads, MergesBefore
  <2> HIDE DEF Found
  <2>2. head' = <<>> => \A x \in Solids : \A i \in DOMAIN kept' : First(x, i)' => Found(x, i)'
    BY <1>2, <1>3, <2>1
  <2> USE DEF Found
  <2> QED BY <1>3, <2>2 DEF Fronted
<1>4. ASSUME pc' \notin {"merge", "splice", "spliced"} PROVE Fronted'
  BY <1>4 DEF Fronted
<1>5. CASE Coalesced
  <2>1. /\ UNCHANGED kept /\ pc' = "merge"
        /\ todo' = {i \in DOMAIN kept : kept[i].kind = "insert"}
        /\ pending' = {kept[i] : i \in {j \in DOMAIN kept : kept[j].kind # "insert"}}
    BY <1>5 DEF Coalesced
  <2>2. ASSUME head = <<>> PROVE pending' = {} /\ todo' = DOMAIN kept
    <3>1. \A i \in DOMAIN kept : kept[i].kind = "insert"
      BY <2>2, KeptFinite, NothingThere
    <3> QED BY <2>1, <3>1
  <2> QED BY <1>3, <2>1, <2>2
<1>6. ASSUME NEW n \in todo, MergeTies(n) PROVE Fronted'
  <2>1. /\ UNCHANGED <<kept, out>> /\ pc = "merge" /\ pc' = pc /\ todo' = todo \ {n}
        /\ \A j \in todo \ {n} : MergesBefore(n, j)
        /\ n \in DOMAIN kept /\ todo \subseteq DOMAIN kept
        /\ IF Tied(kept[n]) = {}
             THEN pending' = pending \cup {FirstOfGroup(kept[n])}
             ELSE pending' = (pending \ Tied(kept[n]))
                               \cup {MergedOnto(p, kept[n]) : p \in Tied(kept[n])}
    BY <1>6 DEF MergeTies, Sourced
  <2>2. ASSUME head = <<>>, NEW x \in Solids, NEW i \in DOMAIN kept, First(x, i)
        PROVE  Found(x, i)'
    <3>1. kept[n] \in OpOf(head) /\ kept[n].kind = "insert" /\ kept[n].start = 0
      BY <2>1, <2>2, KeptFinite, NothingThere
    <3>2. /\ i \in todo => pending = {}
          /\ i \notin todo => \A p \in pending : Begins(p.text, x)
      BY <2>1, <2>2 DEF Fronted
    <3>3. CASE i \in todo
      <4>1. n = i
        BY <2>1, <2>2, <3>3, LeadsFirst
      <4>2. pending' = {FirstOfGroup(kept[i])}
        BY <2>1, <3>2, <3>3, <4>1 DEF Tied
      <4>3. FirstOfGroup(kept[i]).text = kept[i].text
        BY <3>1, <4>1 DEF FirstOfGroup, OpOf
      <4> QED BY <2>1, <2>2, <4>1, <4>2, <4>3
    <3>4. CASE i \notin todo
      <4>1. PICK q \in pending : SameSlot(kept[i], q)
        BY <2>1, <2>2, <3>4 DEF Gathered
      <4>2. q.kind = "insert" /\ q.start = 0
        BY <1>1, <2>2, <4>1, NothingThere
      <4>3. q \in Tied(kept[n])
        BY <3>1, <4>2 DEF Tied
      <4>4. ASSUME NEW p \in pending PROVE Begins(MergedOnto(p, kept[n]).text, x)
        <5>1. p \in OpOf(head) /\ p.text \in Seq(Tokens) /\ p.member \in BOOLEAN
          BY <1>1, <2>2, NothingThere
        <5>2. kept[n].text \in Seq(Tokens) /\ kept[n].lead \in Nat
          BY <2>2, <3>1, NothingThere
        <5>3. WiderGap(p.member, kept[n].lead) \in Nat
          BY <5>1, <5>2, WiderGapNat
        <5>4. MergedOnto(p, kept[n]).text
                = JoinWithSeparator(p.text, kept[n].text, WiderGap(p.member, kept[n].lead))
          BY <5>1 DEF MergedOnto, OpOf
        <5>5. Begins(p.text, x)
          BY <3>2, <3>4
        <5> QED BY <5>1, <5>2, <5>3, <5>4, <5>5, JoinBegins
      <4>5. \A p \in pending' : Begins(p.text, x)
        <5>1. \A p \in pending' : p \in pending \/ \E r \in pending : p = MergedOnto(r, kept[n])
          BY <2>1, <4>3 DEF Tied
        <5> QED BY <3>2, <3>4, <4>4, <5>1
      <4>6. i \notin todo' /\ pc' = "merge"
        BY <2>1, <3>4
      <4> QED BY <4>5, <4>6
    <3> QED BY <3>3, <3>4
  <2> HIDE DEF First, Found
  <2> QED BY <1>3, <2>1, <2>2
<1>7. CASE Merged
  <2>1. pc = "merge" /\ pc' = "splice" /\ todo = {} /\ out' = head /\ UNCHANGED <<kept, pending>>
    BY <1>7 DEF Merged
  <2>2. ASSUME head = <<>>, NEW x \in Solids, NEW i \in DOMAIN kept, First(x, i)
        PROVE  Found(x, i)'
    <3>1. \A p \in pending : Begins(p.text, x)
      BY <2>1, <2>2 DEF Fronted
    <3>2. pending # {}
      BY <2>1, <2>2 DEF Gathered
    <3> QED BY <2>1, <2>2, <3>1, <3>2
  <2> HIDE DEF First, Found
  <2> QED BY <1>2, <1>3, <2>1, <2>2
<1>8. ASSUME NEW p \in pending, Splice(p) PROVE Fronted'
  <2>1. /\ pc = "splice" /\ pc' = pc /\ UNCHANGED kept /\ out' = Spliced(out, p)
        /\ pending' = pending \ {p} /\ Fits(p) /\ p \in OpOf(head)
    BY <1>1, <1>8 DEF Splice
  <2>2. Spliced(out, p) \in Seq(Tokens) /\ p.start \in Nat
        /\ \A n \in 1..p.start :
             n <= Len(out) /\ out[n] # NL => Agrees(Spliced(out, p), out, n)
    BY <1>1, <2>1, SplicedFacts, OpFields DEF Fits
  <2>3. ASSUME \A i \in DOMAIN kept : kept[i].start > 0, NEW x \in Solids, Begins(head, x)
        PROVE  Begins(out', x)
    <3>1. Begins(out, x)
      BY <2>1, <2>3 DEF Fronted
    <3>2. p.start > 0
      BY <2>1, <2>3 DEF Sourced
    <3>3. Len(out) >= 1 /\ out[1] # NL
      BY <1>1, <3>1, BeginsLen DEF Solids
    <3>4. Agrees(Spliced(out, p), out, 1)
      BY <2>2, <3>2, <3>3
    <3> QED BY <1>1, <2>1, <2>2, <3>1, <3>4, BeginsLen
  <2>4. ASSUME head = <<>>, NEW x \in Solids, NEW i \in DOMAIN kept, First(x, i)
        PROVE  Found(x, i)'
    <3>1. out = <<>> /\ Begins(p.text, x)
      BY <2>1, <2>4 DEF Fronted
    <3>2. /\ p.kind = "insert" /\ p.start = 0 /\ p.text \in Seq(Tokens)
          /\ p.member \in BOOLEAN /\ p.lead \in Nat
      BY <2>1, <2>4, NothingThere
    <3>3. Begins(SpliceInsert(<<>>, p), x)
      BY <3>1, <3>2, InsertBegins
    <3>4. Begins(out', x)
      BY <2>1, <3>1, <3>2, <3>3 DEF Spliced
    <3>5. pending' = {}
      <4>1. ASSUME NEW q \in pending PROVE q = p
        <5>1. q.kind = "insert" /\ q.start = 0
          BY <1>1, <2>4, <4>1, NothingThere
        <5>2. SameSlot(q, p)
          BY <3>2, <5>1 DEF SameSlot
        <5> QED BY <2>1, <5>2 DEF Gathered
      <4> QED BY <2>1, <4>1
    <3> QED BY <2>1, <3>4, <3>5
  <2> HIDE DEF First, Found
  <2> QED BY <1>2, <1>3, <2>1, <2>3, <2>4
<1>9. CASE AllSpliced
  <2>1. pc = "splice" /\ pc' = "spliced" /\ pending = {} /\ UNCHANGED <<kept, pending, out>>
    BY <1>9 DEF AllSpliced
  <2>2. ASSUME head = <<>>, NEW x \in Solids, NEW i \in DOMAIN kept, First(x, i)
        PROVE  Found(x, i)'
    BY <2>1, <2>2 DEF Fronted
  <2>3. Stays'
    BY <1>2, <2>1 DEF Fronted
  <2> HIDE DEF First, Found
  <2> QED BY <1>3, <2>1, <2>2, <2>3
<1>10. CASE UNCHANGED spliceVars
  <2>1. UNCHANGED <<head, kept, pc, todo, pending, out>>
    BY <1>10 DEF spliceVars
  <2>2. \A i : Leads(i)' <=> Leads(i)
    BY <2>1 DEF Leads, MergesBefore
  <2> QED BY <2>1, <2>2 DEF Fronted
<1>11. ASSUME Collect \/ Abandon \/ Begin \/ Deliver \/ (\E i \in todo : Coalesce(i))
              \/ (\E p \in pending : Panic(p))
       PROVE  pc' \notin {"merge", "splice", "spliced"}
  BY <1>11 DEF Collect, Abandon, Begin, Deliver, Coalesce, Panic
<1> QED BY <1>4, <1>5, <1>6, <1>7, <1>8, <1>9, <1>10, <1>11, Steps

-----------------------------------------------------------------------------
(* The inductive invariant. *)

SpliceInv ==
  /\ SpliceTypeOK
  /\ Sourced
  /\ Chosen
  /\ KeptDisjoint
  /\ KeptOnce
  /\ PrefixIntact
  /\ TidyNeverPanics
  /\ EndInv
  /\ EndInherited
  /\ Gathered
  /\ Progress
  /\ Accounted
  /\ Fronted

LEMMA SpliceInvInit == SpliceInit => SpliceInv
<1>1. SUFFICES ASSUME SpliceInit PROVE SpliceInv
  OBVIOUS
<1>2. SpliceTypeOK
  BY <1>1, EmptySeq DEF SpliceInit, SpliceTypeOK
<1> QED
  BY <1>1, <1>2 DEF SpliceInit, SpliceInv, Sourced, Chosen, KeptDisjoint, KeptOnce,
                    PrefixIntact, TidyNeverPanics, EndInv, EndInherited,
                    Gathered, Progress, Accounted, Looked, Fronted

LEMMA SpliceInvStep == SpliceInv /\ [SpliceNext]_spliceVars => SpliceInv'
  BY TypeStep, SourcedStep, ChosenStep, DisjointStep, OnceStep, PrefixStep,
     PanicStep, EndStep, EndStays, GatheredStep, ProgressStep, AccountedStep,
     FrontedStep DEF SpliceInv

-----------------------------------------------------------------------------
(* What stands before what in the text with all edits carried out. *)

\* x comes from HEAD's l-th token alone; or from the l-th of the text of i.
OldAt(x, l) ==
  Remaining(DOMAIN kept, Len(head), x) = {l} /\ Brings(DOMAIN kept, x) = {}
NewAt(x, i, l) ==
  Remaining(DOMAIN kept, Len(head), x) = {} /\ Brings(DOMAIN kept, x) = {<<i, l>>}

\* Wherever s has x and y, x is first.
InOrder(s, x, y) == \A p, q \in DOMAIN s : s[p] = x /\ s[q] = y => p < q

LEMMA BringsWhat ==
  ASSUME NEW E, NEW x, NEW i, NEW l
  PROVE  <<i, l>> \in Brings(E, x) <=>
           i \in E /\ l \in DOMAIN Added(kept[i]) /\ Added(kept[i])[l] = x
<1> DEFINE Of(j) == {j} \X {m \in DOMAIN Added(kept[j]) : Added(kept[j])[m] = x}
<1>1. <<i, l>> \in Brings(E, x) <=> \E j \in E : <<i, l>> \in Of(j)
  BY DEF Brings
<1>2. \A j : <<i, l>> \in Of(j) <=>
        i = j /\ l \in DOMAIN Added(kept[j]) /\ Added(kept[j])[l] = x
  OBVIOUS
<1> HIDE DEF Of
<1> QED BY <1>1, <1>2

LEMMA BringsMore ==
  ASSUME NEW E, NEW D, E \subseteq D, NEW x
  PROVE  Brings(E, x) \subseteq Brings(D, x)
  BY DEF Brings

LEMMA RemainingMore ==
  ASSUME NEW D, NEW n \in Nat, NEW m \in Nat, n <= m, NEW x
  PROVE  /\ Remaining(D, n, x) \subseteq Remaining(D, m, x)
         /\ \A l \in Remaining(D, m, x) : l \in 1..m /\ (l <= n => l \in Remaining(D, n, x))
         /\ \A l \in Remaining(D, n, x) : l <= n
         /\ IsFiniteSet(Remaining(D, n, x)) /\ Cardinality(Remaining(D, n, x)) \in Nat
<1>1. IsFiniteSet(1..n)
  BY FS_Interval
<1>2. Remaining(D, n, x) \in SUBSET (1..n)
  BY DEF Remaining
<1>3. IsFiniteSet(Remaining(D, n, x))
  BY <1>1, <1>2, FS_Subset
<1>4. Cardinality(Remaining(D, n, x)) \in Nat
  BY <1>3, FS_CardinalityType
<1>5. 1..n \subseteq 1..m
  OBVIOUS
<1> QED BY <1>2, <1>3, <1>4, <1>5 DEF Remaining

\* A set has a count of naught only when empty.
LEMMA CountZero ==
  ASSUME NEW S, IsFiniteSet(S)
  PROVE  Cardinality(S) \in Nat /\ (Cardinality(S) = 0 <=> S = {})
  BY FS_CardinalityType, FS_EmptySet

LEMMA CountOne ==
  ASSUME NEW a
  PROVE  IsFiniteSet({a}) /\ Cardinality({a}) = 1
  BY FS_Singleton

\* The tokens of a prefix.
LEMMA CutOrders ==
  ASSUME NEW s \in Seq(Tokens), NEW m \in 0..Len(s), NEW x, NEW y,
         TokenCount(s, x) = 1,
         TokenCount(Take(s, m), x) # 0, TokenCount(Take(s, m), y) = 0
  PROVE  InOrder(s, x, y)
<1>1. /\ Take(s, m) \in Seq(Tokens) /\ Len(Take(s, m)) = m /\ Len(s) \in Nat
      /\ \A i \in 1..m : Take(s, m)[i] = s[i]
      /\ DOMAIN s = 1..Len(s) /\ m \in Nat /\ m <= Len(s)
  BY TakeText, LenProperties
<1>2. /\ TokenCount(Take(s, m), x) = Cardinality(Places(Take(s, m), x))
      /\ IsFiniteSet(Places(Take(s, m), x))
      /\ TokenCount(Take(s, m), y) = Cardinality(Places(Take(s, m), y))
      /\ IsFiniteSet(Places(Take(s, m), y))
      /\ TokenCount(s, x) = Cardinality(Places(s, x)) /\ IsFiniteSet(Places(s, x))
  BY <1>1, CountPlaces
<1>3. Places(Take(s, m), y) = {}
  BY <1>2, CountZero
<1>4. PICK i : i \in Places(Take(s, m), x)
  BY <1>2, CountZero
<1>5. i \in 1..m /\ s[i] = x /\ i \in Places(s, x)
  BY <1>1, <1>4 DEF Places
<1>6. PICK a : Places(s, x) = {a}
  BY <1>2, FS_Singleton
<1>7. ASSUME NEW p \in DOMAIN s, NEW q \in DOMAIN s, s[p] = x, s[q] = y PROVE p < q
  <2>1. p \in Places(s, x)
    BY <1>1, <1>7 DEF Places
  <2>2. p = i
    BY <1>5, <1>6, <2>1
  <2>3. ~(q <= m)
    <3>1. q <= m => q \in Places(Take(s, m), y)
      BY <1>1, <1>7 DEF Places
    <3> QED BY <1>3, <3>1
  <2> QED BY <1>1, <1>5, <1>7, <2>2, <2>3
<1> QED BY <1>7 DEF InOrder

\* Every token has one of the counts of the text.
LEMMA EditedOnce ==
  ASSUME SpliceTypeOK, EditedBy(out, DOMAIN kept), NEW x \in Solids,
         (\E l : OldAt(x, l)) \/ (\E i, l : NewAt(x, i, l))
  PROVE  TokenCount(out, x) = 1
<1>1. TokenCount(out, x) = Ledger(DOMAIN kept, Len(head), DOMAIN kept, <<>>)[x]
  BY DEF EditedBy
<1>2. TokenCount(out, x) = Cardinality(Remaining(DOMAIN kept, Len(head), x))
                             + Cardinality(Brings(DOMAIN kept, x)) + TokenCount(<<>>, x)
  BY <1>1, LedgerEntry
<1>3. Cardinality({}) = 0
  BY FS_EmptySet
<1>4. \A a : Cardinality({a}) = 1
  BY CountOne
<1>5. TokenCount(<<>>, x) = 0
  BY CountNothing
<1>6. ASSUME NEW l, OldAt(x, l) PROVE TokenCount(out, x) = 1
  <2>1. Cardinality(Remaining(DOMAIN kept, Len(head), x)) = 1
    BY <1>4, <1>6 DEF OldAt
  <2>2. Cardinality(Brings(DOMAIN kept, x)) = 0
    BY <1>3, <1>6 DEF OldAt
  <2> QED BY <1>2, <1>5, <2>1, <2>2
<1>7. ASSUME NEW i, NEW l, NewAt(x, i, l) PROVE TokenCount(out, x) = 1
  <2>1. Cardinality(Remaining(DOMAIN kept, Len(head), x)) = 0
    BY <1>3, <1>7 DEF NewAt
  <2>2. Cardinality(Brings(DOMAIN kept, x)) = 1
    BY <1>4, <1>7 DEF NewAt
  <2> QED BY <1>2, <1>5, <2>1, <2>2
<1> QED BY <1>6, <1>7

LEMMA EditedNone ==
  ASSUME SpliceTypeOK, EditedBy(out, DOMAIN kept), NEW x \in Solids,
         Remaining(DOMAIN kept, Len(head), x) = {}, Brings(DOMAIN kept, x) = {}
  PROVE  TokenCount(out, x) = 0
<1>1. TokenCount(out, x) = Ledger(DOMAIN kept, Len(head), DOMAIN kept, <<>>)[x]
  BY DEF EditedBy
<1>2. TokenCount(out, x) = Cardinality(Remaining(DOMAIN kept, Len(head), x))
                             + Cardinality(Brings(DOMAIN kept, x)) + TokenCount(<<>>, x)
  BY <1>1, LedgerEntry
<1>3. Cardinality(Remaining(DOMAIN kept, Len(head), x)) = 0
  BY FS_EmptySet
<1>4. Cardinality(Brings(DOMAIN kept, x)) = 0
  BY FS_EmptySet
<1>5. TokenCount(<<>>, x) = 0
  BY CountNothing
<1> QED BY <1>2, <1>3, <1>4, <1>5

\* What a ledger holds, and does not.
Holding(n, E, t, x) ==
  \/ Remaining(DOMAIN kept, n, x) # {}
  \/ Brings(E, x) # {}
  \/ \E l \in DOMAIN t : t[l] = x

LEMMA LedgerOrders ==
  ASSUME SpliceTypeOK, EditedBy(out, DOMAIN kept), NEW x \in Solids, NEW y \in Solids,
         (\E l : OldAt(x, l)) \/ (\E i, l : NewAt(x, i, l)),
         NEW n \in 0..Len(head), NEW E \in SUBSET DOMAIN kept, NEW t \in Seq(Tokens),
         Ledger(DOMAIN kept, n, E, t) \in Cuts(out),
         Holding(n, E, t, x), ~Holding(n, E, t, y)
  PROVE  InOrder(out, x, y)
<1>1. PICK m \in 0..Len(out) :
        Ledger(DOMAIN kept, n, E, t) = [z \in Solids |-> TokenCount(Take(out, m), z)]
  BY DEF Cuts
<1>2. out \in Seq(Tokens) /\ Len(head) \in Nat /\ n \in Nat /\ n <= Len(head)
  BY LenProperties DEF SpliceTypeOK
<1>3. ASSUME NEW z \in Solids
      PROVE  /\ TokenCount(Take(out, m), z) = Cardinality(Remaining(DOMAIN kept, n, z))
                   + Cardinality(Brings(E, z)) + TokenCount(t, z)
             /\ Cardinality(Remaining(DOMAIN kept, n, z)) \in Nat
             /\ Cardinality(Brings(E, z)) \in Nat
             /\ TokenCount(t, z) \in Nat
             /\ Cardinality(Remaining(DOMAIN kept, n, z)) = 0 <=> Remaining(DOMAIN kept, n, z) = {}
             /\ Cardinality(Brings(E, z)) = 0 <=> Brings(E, z) = {}
             /\ TokenCount(t, z) = 0 <=> ~(\E l \in DOMAIN t : t[l] = z)
  <2>1. TokenCount(Take(out, m), z) = Ledger(DOMAIN kept, n, E, t)[z]
    BY <1>1
  <2>2. IsFiniteSet(Remaining(DOMAIN kept, n, z)) /\ IsFiniteSet(Brings(E, z))
    BY <1>2, RemainingMore, BringsFinite
  <2>3. /\ TokenCount(t, z) = Cardinality(Places(t, z)) /\ IsFiniteSet(Places(t, z))
        /\ DOMAIN t = 1..Len(t)
    BY CountPlaces, LenProperties
  <2>4. Places(t, z) = {} <=> ~(\E l \in DOMAIN t : t[l] = z)
    BY <2>3 DEF Places
  <2>5. TokenCount(t, z) \in Nat /\ (TokenCount(t, z) = 0 <=> Places(t, z) = {})
    BY <2>3, CountZero
  <2>6. /\ Cardinality(Remaining(DOMAIN kept, n, z)) \in Nat
        /\ Cardinality(Remaining(DOMAIN kept, n, z)) = 0 <=> Remaining(DOMAIN kept, n, z) = {}
    BY <2>2, CountZero
  <2>7. /\ Cardinality(Brings(E, z)) \in Nat
        /\ Cardinality(Brings(E, z)) = 0 <=> Brings(E, z) = {}
    BY <2>2, CountZero
  <2> QED BY <2>1, <2>4, <2>5, <2>6, <2>7, LedgerEntry
<1>4. TokenCount(Take(out, m), x) # 0
  BY <1>3 DEF Holding
<1>5. TokenCount(Take(out, m), y) = 0
  <2>1. Cardinality(Remaining(DOMAIN kept, n, y)) = 0
    BY <1>3 DEF Holding
  <2>2. Cardinality(Brings(E, y)) = 0
    BY <1>3 DEF Holding
  <2>3. TokenCount(t, y) = 0
    BY <1>3 DEF Holding
  <2> QED BY <1>3, <2>1, <2>2, <2>3
<1>6. TokenCount(out, x) = 1
  BY EditedOnce
<1> QED BY <1>2, <1>4, <1>5, <1>6, CutOrders


\* The cut at an offset of HEAD.
LEMMA OffsetCut ==
  ASSUME SpliceTypeOK, EditedBy(out, DOMAIN kept), NEW n \in 0..Len(head),
         NEW x \in Solids, NEW y \in Solids,
         (\E l : OldAt(x, l)) \/ (\E i, l : NewAt(x, i, l)),
         Remaining(DOMAIN kept, n, x) # {}
           \/ \E i \in DOMAIN kept : kept[i].start < n /\ Brings({i}, x) # {},
         Remaining(DOMAIN kept, n, y) = {},
         \A i \in DOMAIN kept : kept[i].start < n => Brings({i}, y) = {}
  PROVE  InOrder(out, x, y)
<1> DEFINE E == {i \in DOMAIN kept : kept[i].start < n}
<1>1. Ledger(DOMAIN kept, n, E, <<>>) \in Cuts(out)
  BY DEF EditedBy
<1>2. E \in SUBSET DOMAIN kept
  OBVIOUS
<1>3. \A z : Brings(E, z) # {} <=> \E i \in DOMAIN kept : kept[i].start < n /\ Brings({i}, z) # {}
  BY DEF Brings
<1> HIDE DEF E
<1>4. Holding(n, E, <<>>, x)
  BY <1>3 DEF Holding
<1>5. ~Holding(n, E, <<>>, y)
  <2>1. Brings(E, y) = {}
    BY <1>3
  <2> QED BY <2>1 DEF Holding
<1>6. <<>> \in Seq(Tokens)
  BY EmptySeq
<1> QED BY <1>1, <1>2, <1>4, <1>5, <1>6, LedgerOrders

\* The cut in the text of an edit.
LEMMA EditCut ==
  ASSUME SpliceTypeOK, EditedBy(out, DOMAIN kept), NEW j \in DOMAIN kept,
         NEW k \in 0..Len(Added(kept[j])), NEW x \in Solids, NEW y \in Solids,
         (\E l : OldAt(x, l)) \/ (\E i, l : NewAt(x, i, l)),
         \/ Remaining(DOMAIN kept, kept[j].start, x) # {}
         \/ \E i \in DOMAIN kept : Ahead(i, j) /\ Brings({i}, x) # {}
         \/ \E l \in 1..k : Added(kept[j])[l] = x,
         Remaining(DOMAIN kept, kept[j].start, y) = {},
         \A i \in DOMAIN kept : Ahead(i, j) => Brings({i}, y) = {},
         \A l \in 1..k : Added(kept[j])[l] # y
  PROVE  InOrder(out, x, y)
<1> DEFINE E == {i \in DOMAIN kept : Ahead(i, j)}
           t == Take(Added(kept[j]), k)
           n == kept[j].start
<1>1. Ledger(DOMAIN kept, n, E, t) \in Cuts(out)
  BY DEF EditedBy
<1>2. E \in SUBSET DOMAIN kept
  OBVIOUS
<1>3. \A z : Brings(E, z) # {} <=> \E i \in DOMAIN kept : Ahead(i, j) /\ Brings({i}, z) # {}
  BY DEF Brings
<1>4. n \in 0..Len(head)
  BY KeptFields, LenProperties DEF SpliceTypeOK
<1>5. /\ t \in Seq(Tokens) /\ DOMAIN t = 1..k /\ \A l \in 1..k : t[l] = Added(kept[j])[l]
  <2>1. Added(kept[j]) \in Seq(Tokens)
    BY KeptFinite
  <2>2. t \in Seq(Tokens) /\ Len(t) = k /\ \A l \in 1..k : t[l] = Added(kept[j])[l]
    BY <2>1, TakeText
  <2> HIDE DEF t
  <2> QED BY <2>2, LenProperties
<1> HIDE DEF E, t, n
<1>6. Holding(n, E, t, x)
  BY <1>3, <1>5 DEF Holding, n
<1>7. ~Holding(n, E, t, y)
  <2>1. Brings(E, y) = {}
    BY <1>3
  <2> QED BY <1>5, <2>1 DEF Holding, n
<1> QED BY <1>1, <1>2, <1>4, <1>5, <1>6, <1>7, LedgerOrders

\* What a sole place means for the parts.
OldPlaced(x, l) ==
  /\ l \in 1..Len(head) /\ Len(head) \in Nat
  /\ \A n \in 0..Len(head) : Remaining(DOMAIN kept, n, x) = IF l <= n THEN {l} ELSE {}
  /\ \A i \in DOMAIN kept : Brings({i}, x) = {}
  /\ \A i \in DOMAIN kept : \A k \in DOMAIN Added(kept[i]) : Added(kept[i])[k] # x

NewPlaced(x, i, l) ==
  /\ i \in DOMAIN kept /\ l \in 1..Len(Added(kept[i])) /\ Added(kept[i])[l] = x
  /\ Len(Added(kept[i])) \in Nat
  /\ \A n \in 0..Len(head) : Remaining(DOMAIN kept, n, x) = {}
  /\ Brings({i}, x) # {}
  /\ \A j \in DOMAIN kept : j # i => Brings({j}, x) = {}
  /\ \A j \in DOMAIN kept : \A k \in DOMAIN Added(kept[j]) :
       Added(kept[j])[k] = x => j = i /\ k = l

LEMMA OldPlace ==
  ASSUME SpliceTypeOK, NEW x, NEW l, OldAt(x, l)
  PROVE  OldPlaced(x, l)
<1>1. Remaining(DOMAIN kept, Len(head), x) = {l} /\ Brings(DOMAIN kept, x) = {}
  BY DEF OldAt
<1>2. Len(head) \in Nat
  BY LenProperties DEF SpliceTypeOK
<1>3. ASSUME NEW n \in 0..Len(head)
      PROVE  Remaining(DOMAIN kept, n, x) = IF l <= n THEN {l} ELSE {}
  <2>1. n \in Nat /\ n <= Len(head)
    BY <1>2
  <2>2. /\ Remaining(DOMAIN kept, n, x) \subseteq {l}
        /\ l \in 1..Len(head) /\ (l <= n => l \in Remaining(DOMAIN kept, n, x))
        /\ \A k \in Remaining(DOMAIN kept, n, x) : k <= n
    BY <1>1, <1>2, <2>1, RemainingMore
  <2> QED BY <2>2
<1>4. l \in 1..Len(head)
  BY <1>1, <1>2 DEF Remaining
<1>5. \A i \in DOMAIN kept : Brings({i}, x) = {}
  <2>1. \A i \in DOMAIN kept : Brings({i}, x) \subseteq Brings(DOMAIN kept, x)
    BY BringsMore
  <2> QED BY <1>1, <2>1
<1>6. \A i \in DOMAIN kept : \A k \in DOMAIN Added(kept[i]) : Added(kept[i])[k] # x
  BY <1>1, BringsWhat
<1> QED BY <1>2, <1>3, <1>4, <1>5, <1>6 DEF OldPlaced

LEMMA NewPlace ==
  ASSUME SpliceTypeOK, NEW x, NEW i, NEW l, NewAt(x, i, l)
  PROVE  NewPlaced(x, i, l)
<1>1. Remaining(DOMAIN kept, Len(head), x) = {} /\ Brings(DOMAIN kept, x) = {<<i, l>>}
  BY DEF NewAt
<1>2. Len(head) \in Nat
  BY LenProperties DEF SpliceTypeOK
<1>3. ASSUME NEW n \in 0..Len(head) PROVE Remaining(DOMAIN kept, n, x) = {}
  <2>1. n \in Nat /\ n <= Len(head)
    BY <1>2
  <2> QED BY <1>1, <1>2, <2>1, RemainingMore
<1>4. i \in DOMAIN kept /\ l \in DOMAIN Added(kept[i]) /\ Added(kept[i])[l] = x
  <2>1. <<i, l>> \in Brings(DOMAIN kept, x)
    BY <1>1
  <2> QED BY <2>1, BringsWhat
<1>5. Added(kept[i]) \in Seq(Tokens)
  BY <1>4, KeptFinite
<1>6. DOMAIN Added(kept[i]) = 1..Len(Added(kept[i])) /\ Len(Added(kept[i])) \in Nat
  BY <1>5, LenProperties
<1>7. <<i, l>> \in Brings({i}, x)
  BY <1>4, BringsWhat
<1>8. \A j \in DOMAIN kept : \A k \in DOMAIN Added(kept[j]) :
        Added(kept[j])[k] = x => j = i /\ k = l
  <2>1. \A j \in DOMAIN kept : \A k \in DOMAIN Added(kept[j]) :
          Added(kept[j])[k] = x => <<j, k>> \in Brings(DOMAIN kept, x)
    BY BringsWhat
  <2> QED BY <1>1, <2>1
<1>9. \A j \in DOMAIN kept : j # i => Brings({j}, x) = {}
  BY <1>8 DEF Brings
<1> QED BY <1>3, <1>4, <1>6, <1>7, <1>8, <1>9 DEF NewPlaced

\* Whatever comes first in HEAD and is left, or goes before it, is first.
LEMMA OldBeforeOld ==
  ASSUME SpliceTypeOK, EditedBy(out, DOMAIN kept), NEW x \in Solids, NEW y \in Solids,
         NEW l, OldAt(x, l), NEW m, OldAt(y, m), l < m
  PROVE  InOrder(out, x, y)
<1>1. OldPlaced(x, l) /\ OldPlaced(y, m)
  BY OldPlace
<1>2. l \in 0..Len(head) /\ l \in Nat /\ m \in Nat
  BY <1>1 DEF OldPlaced
<1>3. Remaining(DOMAIN kept, l, x) # {}
  BY <1>1, <1>2 DEF OldPlaced
<1>4. Remaining(DOMAIN kept, l, y) = {} /\ \A i \in DOMAIN kept : Brings({i}, y) = {}
  BY <1>1, <1>2 DEF OldPlaced
<1> QED BY <1>2, <1>3, <1>4, OffsetCut

LEMMA OldBeforeNew ==
  ASSUME SpliceTypeOK, EditedBy(out, DOMAIN kept), NEW x \in Solids, NEW y \in Solids,
         NEW l, OldAt(x, l), NEW j, NEW m, NewAt(y, j, m), l <= kept[j].start
  PROVE  InOrder(out, x, y)
<1>1. OldPlaced(x, l) /\ NewPlaced(y, j, m)
  BY OldPlace, NewPlace
<1>2. j \in DOMAIN kept /\ 0 \in 0..Len(Added(kept[j]))
  BY <1>1 DEF NewPlaced
<1>3. kept[j].start \in Nat /\ kept[j].start <= Len(head)
  BY <1>2, KeptFields
<1>4. kept[j].start \in 0..Len(head) /\ l \in Nat
  BY <1>1, <1>3 DEF OldPlaced
<1>5. Remaining(DOMAIN kept, kept[j].start, x) # {}
  BY <1>1, <1>4 DEF OldPlaced
<1>6. Remaining(DOMAIN kept, kept[j].start, y) = {}
  BY <1>1, <1>4 DEF NewPlaced
<1>7. ~Ahead(j, j)
  BY <1>2, NotAheadOfItself
<1>8. \A i \in DOMAIN kept : Ahead(i, j) => Brings({i}, y) = {}
  BY <1>1, <1>7 DEF NewPlaced
<1>9. \A k \in 1..0 : Added(kept[j])[k] # y
  OBVIOUS
<1> QED BY <1>2, <1>5, <1>6, <1>8, <1>9, EditCut

LEMMA NewBeforeOld ==
  ASSUME SpliceTypeOK, EditedBy(out, DOMAIN kept), NEW x \in Solids, NEW y \in Solids,
         NEW i, NEW l, NewAt(x, i, l), NEW m, OldAt(y, m), kept[i].start < m
  PROVE  InOrder(out, x, y)
<1> DEFINE k == Len(Added(kept[i]))
<1>1. OldPlaced(y, m) /\ NewPlaced(x, i, l)
  BY OldPlace, NewPlace
<1>2. i \in DOMAIN kept /\ k \in 0..k /\ l \in 1..k /\ Added(kept[i])[l] = x
  BY <1>1 DEF NewPlaced
<1>3. kept[i].start \in Nat /\ kept[i].start <= Len(head)
  BY <1>2, KeptFields
<1>4. kept[i].start \in 0..Len(head) /\ m \in Nat
  BY <1>1, <1>3 DEF OldPlaced
<1>5. Remaining(DOMAIN kept, kept[i].start, y) = {}
  BY <1>1, <1>3, <1>4 DEF OldPlaced
<1>6. \A j \in DOMAIN kept : Brings({j}, y) = {}
  BY <1>1 DEF OldPlaced
<1>7. \A n \in 1..k : Added(kept[i])[n] # y
  <2>1. Added(kept[i]) \in Seq(Tokens)
    BY <1>2, KeptFinite
  <2>2. DOMAIN Added(kept[i]) = 1..k
    BY <2>1, LenProperties
  <2> QED BY <1>1, <1>2, <2>2 DEF OldPlaced
<1> HIDE DEF k
<1>8. k \in 0..Len(Added(kept[i]))
  BY <1>2 DEF k
<1> QED BY <1>2, <1>5, <1>6, <1>7, <1>8, EditCut

LEMMA NewBeforeNew ==
  ASSUME SpliceTypeOK, EditedBy(out, DOMAIN kept), NEW x \in Solids, NEW y \in Solids,
         NEW i, NEW l, NewAt(x, i, l), NEW j, NEW m, NewAt(y, j, m),
         Ahead(i, j) \/ (i = j /\ l < m)
  PROVE  InOrder(out, x, y)
<1>1. NewPlaced(x, i, l) /\ NewPlaced(y, j, m)
  BY NewPlace
<1>2. /\ i \in DOMAIN kept /\ l \in 1..Len(Added(kept[i])) /\ Added(kept[i])[l] = x
      /\ j \in DOMAIN kept /\ m \in 1..Len(Added(kept[j])) /\ Added(kept[j])[m] = y
      /\ Len(Added(kept[i])) \in Nat /\ Len(Added(kept[j])) \in Nat
      /\ Brings({i}, x) # {}
  BY <1>1 DEF NewPlaced
<1>3. kept[j].start \in Nat /\ kept[j].start <= Len(head) /\ ~Ahead(j, j)
  BY <1>2, KeptFields, NotAheadOfItself
<1>4. kept[j].start \in 0..Len(head)
  BY <1>3, LenProperties DEF SpliceTypeOK
<1>5. Remaining(DOMAIN kept, kept[j].start, y) = {}
  BY <1>1, <1>4 DEF NewPlaced
<1>6. \A n \in DOMAIN kept : Ahead(n, j) => Brings({n}, y) = {}
  BY <1>1, <1>3 DEF NewPlaced
<1>7. CASE Ahead(i, j)
  <2>1. 0 \in 0..Len(Added(kept[j])) /\ \A n \in 1..0 : Added(kept[j])[n] # y
    BY <1>2
  <2> QED BY <1>2, <1>5, <1>6, <1>7, <2>1, EditCut
<1>8. CASE i = j /\ l < m
  <2>1. l \in 0..Len(Added(kept[j])) /\ \E n \in 1..l : Added(kept[j])[n] = x
    BY <1>2, <1>8
  <2>2. \A n \in 1..l : Added(kept[j])[n] # y
    <3>1. Added(kept[j]) \in Seq(Tokens)
      BY <1>2, KeptFinite
    <3>2. DOMAIN Added(kept[j]) = 1..Len(Added(kept[j]))
      BY <3>1, LenProperties
    <3>3. \A n \in 1..l : n \in DOMAIN Added(kept[j]) /\ n # m
      BY <1>2, <1>8, <3>2
    <3> QED BY <1>1, <1>2, <3>3 DEF NewPlaced
  <2> QED BY <1>2, <1>5, <1>6, <2>1, <2>2, EditCut
<1> QED BY <1>7, <1>8

-----------------------------------------------------------------------------
(* The theorems. *)

\* applyEdits (synth.go:92-108) builds a text whatever it is given: merging,
\* trimming and padding keep every edit an edit of HEAD's text.
THEOREM SplicesAreTexts == SpliceSpec => []SpliceTypeOK
<1>1. SpliceInv => SpliceTypeOK BY DEF SpliceInv
<1> QED BY <1>1, SpliceInvInit, SpliceInvStep, PTL DEF SpliceSpec

\* coalesceOverlaps (synth.go:127-138) leaves no two edits of the same bytes,
\* for any edits in any order.
THEOREM CoalescedDisjoint == SpliceSpec => []KeptDisjoint
<1>1. SpliceInv => KeptDisjoint BY DEF SpliceInv
<1> QED BY <1>1, SpliceInvInit, SpliceInvStep, PTL DEF SpliceSpec

\* coalesceOverlaps (synth.go:127-201) keeps no declaration's text twice, in
\* whatever order the anchors were named and however many they are.
THEOREM CoalescedOnce == SpliceSpec => []KeptOnce
<1>1. SpliceInv => KeptOnce BY DEF SpliceInv
<1> QED BY <1>1, SpliceInvInit, SpliceInvStep, PTL DEF SpliceSpec

\* Tidy edits spliced in descending order find HEAD's text where their offsets
\* say it is (synth.go:8-10), however long the text and however many they are.
THEOREM OffsetsStayValid == SpliceSpec => []PrefixIntact
<1>1. SpliceInv => PrefixIntact BY DEF SpliceInv
<1> QED BY <1>1, SpliceInvInit, SpliceInvStep, PTL DEF SpliceSpec

\* Hence they are spliced without a run-time panic (synth.go:260-291).
COROLLARY TidyEditsFit == SpliceSpec => []TidyNeverPanics
<1>1. SpliceInv => TidyNeverPanics BY DEF SpliceInv
<1> QED BY <1>1, SpliceInvInit, SpliceInvStep, PTL DEF SpliceSpec

\* However long the text and however many its edits, applyEdits neither adds
\* nor drops the newline at the end of the file (synth.go:253-320).
THEOREM EndOfFileInherited == SpliceSpec => []EndInherited
<1>1. SpliceInv => EndInherited BY DEF SpliceInv
<1> QED BY <1>1, SpliceInvInit, SpliceInvStep, PTL DEF SpliceSpec

\* Whatever texts and edits they are, a splice removes what HEAD has in its
\* range and adds its own text (synth.go:260-320), and merging keeps both
\* texts (synth.go:217-251): applyEdits loses and repeats no declaration.
THEOREM NothingLost == SpliceSpec => TokensAccounted
<1> DEFINE Splices(p) ==
             Splice(p) /\ KeptTidy =>
               \A x \in Tokens \ {NL} :
                 TokenCount(out', x) = TokenCount(out, x) - TokenCount(Removed(p), x)
                                         + TokenCount(Added(p), x)
           Merges(i) ==
             MergeTies(i) =>
               \A q \in Tied(kept[i]) : \E p \in pending' : \A x \in Tokens \ {NL} :
                 TokenCount(p.text, x) = TokenCount(q.text, x) + TokenCount(kept[i].text, x)
<1>1. ASSUME SpliceInv, NEW p \in pending PROVE Splices(p)
  <2>1. SUFFICES ASSUME Splice(p), KeptTidy, NEW x \in Tokens \ {NL}
                 PROVE  TokenCount(Spliced(out, p), x)
                          = TokenCount(out, x) - TokenCount(Removed(p), x)
                              + TokenCount(Added(p), x)
    BY DEF Splice
  <2>2. head \in Seq(Tokens) /\ out \in Seq(Tokens) /\ p \in OpOf(head)
    BY <1>1 DEF SpliceInv, SpliceTypeOK
  <2>3. p.kind # "insert" => p.end <= Len(out) /\ \A i \in 1..p.end : out[i] = head[i]
    BY <1>1, <2>1 DEF SpliceInv, PrefixIntact, Splice
  <2> QED BY <2>2, <2>3, SplicedCount
<1>2. ASSUME SpliceInv, NEW i \in todo PROVE Merges(i)
  <2>1. SUFFICES ASSUME MergeTies(i), NEW q \in Tied(kept[i])
                 PROVE  \E p \in pending' : \A x \in Tokens \ {NL} :
                          TokenCount(p.text, x)
                            = TokenCount(q.text, x) + TokenCount(kept[i].text, x)
    OBVIOUS
  <2>2. /\ head \in Seq(Tokens) /\ q \in OpOf(head) /\ i \in DOMAIN kept
        /\ kept \in Seq(OpOf(head))
    BY <1>2, <2>1 DEF SpliceInv, SpliceTypeOK, Sourced, MergeTies, Tied
  <2>3. kept[i] \in OpOf(head)
    BY <2>2, ElementOfSeq, LenProperties
  <2>4. /\ q.text \in Seq(Tokens) /\ kept[i].text \in Seq(Tokens)
        /\ WiderGap(q.member, kept[i].lead) \in Nat
    BY <2>2, <2>3, OpFields, WiderGapNat
  <2>5. MergedOnto(q, kept[i]) \in pending'
    BY <2>1 DEF MergeTies
  <2>6. MergedOnto(q, kept[i]).text
          = JoinWithSeparator(q.text, kept[i].text, WiderGap(q.member, kept[i].lead))
    BY <2>2 DEF MergedOnto, OpOf
  <2>7. ASSUME NEW x \in Tokens \ {NL}
        PROVE  TokenCount(MergedOnto(q, kept[i]).text, x)
                 = TokenCount(q.text, x) + TokenCount(kept[i].text, x)
    BY <2>4, <2>6, CountJoin
  <2> QED BY <2>5, <2>7
<1>3. SpliceInv => (\A p \in pending : Splices(p)) /\ (\A i \in todo : Merges(i))
  BY <1>1, <1>2
<1> QED BY <1>3, SpliceInvInit, SpliceInvStep, PTL DEF SpliceSpec, TokensAccounted

\* Whatever text and tidy edits it is given, applyEdits (synth.go:92-108)
\* returns the text with every edit it kept carried out where HEAD has its
\* offsets: nothing else is added, lost or moved by the merging, the trimming
\* and the padding.
THEOREM EveryEditCarriedOut == SpliceSpec => []AsEdited
<1>1. SpliceInv => AsEdited BY EditedAll DEF SpliceInv
<1> QED BY <1>1, SpliceInvInit, SpliceInvStep, PTL DEF SpliceSpec

=============================================================================
