--------------------------- MODULE BlobSynthProofs ---------------------------
(***************************************************************************)
(* The planner keeps the contract of applyEdits.  Whatever anchors are     *)
(* named of whatever file, each becomes an edit whose range lies in HEAD's *)
(* text and whose own text is the worktree's: so a run of BlobSynth is a   *)
(* run of SpliceSpec, and what EditSpliceProofs proves of any edits holds  *)
(* of its.  And of a file without sections the edits are tidy: none is cut *)
(* by an insertion, so none runs past the buffer and the file ends as it   *)
(* did.                                                                    *)
(*                                                                         *)
(* The argument is where insertionPoint may put a new declaration          *)
(* (Placed): each of these places lies clear of the edit of every other    *)
(* declaration (InsertionClear), because declarations are disjoint or      *)
(* nested and a member whose container is replaced goes with it.           *)
(*                                                                         *)
(* And the staged text is what was asked for.  Each declaration of it is   *)
(* decided by one edit at most (EditOnce): kept edits carry what is taken, *)
(* HEAD's text outside the ranges what is not (ContentRight).  Two of them *)
(* come in order, because the ranges, and the texts within one insertion,  *)
(* are in the order of declarations (OrderRight), and what a container     *)
(* holds lies within the range that carries it, or between its ends        *)
(* (NestingRight).                                                         *)
(*                                                                         *)
(* Last, no lines run together: an edit puts a declaration in the place of *)
(* one, takes whole lines out or brings lines (KeepsLines).                *)
(*                                                                         *)
(* Of the parsed texts nothing is used but FilesAssumption: where extents  *)
(* lie to each other, which tokens of a text stand for what, and that its  *)
(* lines are apart.                                                        *)
(***************************************************************************)
EXTENDS BlobSynth, EditSpliceProofs

-----------------------------------------------------------------------------
(* Places in a text. *)

\* The least and the greatest of some offsets is one of them.
LEMMA MinOf ==
  ASSUME NEW T, T \subseteq Nat, T # {}
  PROVE  Min(T) \in T /\ \A y \in T : Min(T) <= y
<1>1. PICK x \in T : \A y \in T : x <= y
  BY LeastNat
<1> QED BY <1>1 DEF Min

LEMMA MaxOf ==
  ASSUME NEW n \in Nat, NEW T, T \subseteq 0..n, T # {}
  PROVE  Max(T) \in T /\ \A y \in T : Max(T) >= y
<1> DEFINE R == {k \in 0..n : n - k \in T}
<1>1. PICK t \in T : TRUE
  OBVIOUS
<1>2. n - t \in 0..n /\ n - (n - t) = t
  BY <1>1
<1>3. R \subseteq Nat /\ R # {}
  BY <1>1, <1>2
<1>4. PICK x \in R : \A y \in R : x <= y
  <2> HIDE DEF R
  <2> QED BY <1>3, LeastNat
<1>5. ASSUME NEW y \in T PROVE n - x >= y
  <2>1. n - y \in 0..n /\ n - (n - y) = y
    BY <1>5
  <2>2. n - y \in R
    BY <2>1
  <2>3. x <= n - y
    BY <1>4, <2>2
  <2> QED BY <2>1, <2>3, <1>4
<1>6. n - x \in T
  BY <1>4
<1> QED BY <1>5, <1>6 DEF Max

\* The line of an offset starts at or before it.
LEMMA LineStarts ==
  ASSUME NEW src, NEW off \in Nat
  PROVE  /\ LineStartOf(src, off) \in 0..off
         /\ LineStart(src, off) \in LineStartOf(src, off)..off
         /\ LineStart(src, off) \in 0..off
<1> DEFINE T == {0} \cup {i \in 1..off : src[i] = NL}
<1>1. T \subseteq 0..off /\ T # {}
  OBVIOUS
<1> HIDE DEF T
<1>2. Max(T) \in 0..off
  BY <1>1, MaxOf
<1>3. LineStartOf(src, off) \in 0..off
  BY <1>2 DEF LineStartOf, T
<1> QED BY <1>3 DEF LineStart

\* A piece of a text is a text, and the newlines around it are counted.
LEMMA PieceText ==
  ASSUME NEW s \in Seq(Tokens), NEW b \in 0..Len(s), NEW e \in 0..Len(s)
  PROVE  SubSeq(s, b + 1, e) \in Seq(Tokens)
<1>1. b + 1 \in Int /\ e \in Int /\ Len(s) \in Nat
  BY LenProperties
<1>2. \A i \in (b + 1)..e : s[i] \in Tokens
  BY <1>1, ElementOfSeq
<1> QED BY <1>1, <1>2, SubSeqProperties

\* A piece of a text ends as the text does there.
LEMMA PieceEnds ==
  ASSUME NEW s \in Seq(Tokens), NEW b \in Nat, NEW e \in 1..Len(s), b < e, s[e] # NL
  PROVE  SubSeq(s, b + 1, e) # <<>> /\ ~EndsInNL(SubSeq(s, b + 1, e))
<1> DEFINE t == SubSeq(s, b + 1, e)
           m == e - b
<1>1. Len(s) \in Nat /\ e \in Nat /\ b + 1 \in Int /\ e \in Int /\ b + 1 <= e
  BY LenProperties
<1>2. \A i \in (b + 1)..e : s[i] \in Tokens
  BY <1>1, ElementOfSeq
<1>3. m \in Nat /\ m > 0 /\ e - (b + 1) + 1 = m /\ (b + 1) + m - 1 = e /\ m \in 1..m
  BY <1>1
<1>4. Len(t) = m
  BY <1>1, <1>2, <1>3, SubSeqProperties
<1>5. \A i \in 1..m : t[i] = s[(b + 1) + i - 1]
  BY <1>1, <1>2, <1>3, SubSeqProperties
<1>6. t[m] = s[e]
  BY <1>3, <1>5
<1> HIDE DEF t, m
<1>7. t # <<>> /\ ~EndsInNL(t)
  BY <1>3, <1>4, <1>6, EmptySeq DEF EndsInNL
<1> QED BY <1>7 DEF t

LEMMA GapsCounted ==
  ASSUME NEW s \in Seq(Tokens), NEW n \in 0..Len(s)
  PROVE  LeadingGap(s, n) \in Nat /\ TrailingGap(s, n) \in Nat
<1>1. /\ Take(s, n) \in Seq(Tokens) /\ Len(Take(s, n)) = n
      /\ Drop(s, n) \in Seq(Tokens)
  BY TakeText, DropText
<1>2. TrimmedLen(Take(s, n)) \in 0..n
  BY <1>1, TrimmedLenFact
<1>3. BlankLen(Drop(s, n)) \in Nat
  BY <1>1, BlankLenFact, LenProperties
<1> QED BY <1>2, <1>3, LenProperties DEF LeadingGap, TrailingGap

-----------------------------------------------------------------------------
(* The planner. *)

\* The planner's file, and the edits it has made of it so far.
PlanInv ==
  /\ file \in Files
  /\ head = HeadText(file)
  /\ ops \in Seq(OpOf(head))

\* Where x is the extent of a declaration in src.
Within(x, src) ==
  /\ x.end \in 1..Len(src) /\ x.start \in 0..(x.end - 1)
  /\ src[x.start + 1] \notin {NL, Tab}

LEMMA Extents ==
  ASSUME file \in Files, head = HeadText(file)
  PROVE  /\ head \in Seq(Tokens) /\ work \in Seq(Tokens)
         /\ \A d \in file.inHead : Within(HeadExtent(d), head)
         /\ \A d \in file.inWork : Within(WorkExtent(d), work)
<1>1. /\ Parsed(file, file.inHead, head)
      /\ Parsed(file, file.inWork, work)
  BY FilesAssumption DEF work
<1> QED BY <1>1 DEF Parsed, Within, HeadExtent, WorkExtent

\* A first member goes somewhere in its container's text.
LEMMA BodyEndWithin ==
  ASSUME NEW src \in Seq(Tokens), NEW x, Within(x, src)
  PROVE  ContainerBodyEnd(src, x) \in 0..Len(src)
<1> DEFINE solid == {i \in (x.start + 1)..x.end : src[i] \notin {NL, Tab}}
<1>1. /\ Len(src) \in Nat /\ x.end \in 1..Len(src) /\ x.start \in 0..(x.end - 1)
      /\ src[x.start + 1] \notin {NL, Tab}
  BY LenProperties DEF Within
<1>2. x.start + 1 \in (x.start + 1)..x.end
  BY <1>1
<1>3. solid # {} /\ solid \subseteq 1..Len(src) /\ solid \subseteq 0..Len(src)
  BY <1>1, <1>2
<1>4. ContainerBodyEnd(src, x) =
        IF src[Max(solid)] = Closing
          THEN Max({x.start, LineStartOf(src, Max(solid) - 1)}) ELSE x.end
  BY DEF ContainerBodyEnd
<1> HIDE DEF solid
<1>5. Max(solid) \in 1..Len(src)
  BY <1>1, <1>3, MaxOf
<1>6. Max(solid) - 1 \in Nat
  BY <1>1, <1>5
<1>7. LineStartOf(src, Max(solid) - 1) \in 0..Len(src)
  BY <1>1, <1>5, <1>6, LineStarts
<1>8. Max({x.start, LineStartOf(src, Max(solid) - 1)}) \in 0..Len(src)
  <2> DEFINE T == {x.start, LineStartOf(src, Max(solid) - 1)}
  <2>1. T \subseteq 0..Len(src) /\ T # {} /\ Len(src) \in Nat
    BY <1>1, <1>7
  <2> HIDE DEF T
  <2>2. Max(T) \in T
    BY <2>1, MaxOf
  <2>3. Max(T) \in 0..Len(src)
    BY <2>1, <2>2
  <2> QED BY <2>3 DEF T
<1> QED BY <1>1, <1>4, <1>8

\* A new declaration goes somewhere in HEAD's text.
LEMMA InsertionWithin ==
  ASSUME file \in Files, head = HeadText(file), NEW d
  PROVE  InsertionPoint(d) \in 0..Len(head)
<1> DEFINE n       == Cardinality(Symbols)
           ds      == file.order
           known   == {i \in DOMAIN ds : ds[i] \in file.inWork \cap file.inHead}
           before  == {i \in known : i < IndexIn(ds, d)}
           after   == {i \in known : i > IndexIn(ds, d)}
           sib     == HeadExtent(ds[Max(before)])
           next    == HeadExtent(ds[Min(after)])
           encloses == /\ InExtent(WorkExtent(d), WorkExtent(ds[Max(before)]))
                       /\ WorkExtent(d) # WorkExtent(ds[Max(before)])
<1>1. head \in Seq(Tokens) /\ Len(head) \in Nat
  BY Extents, LenProperties
<1>2. DOMAIN ds = 1..n
  BY FilesAssumption DEF FileType
<1>3. n \in Nat
  BY SymbolsAssumption, FS_CardinalityType
<1>4. /\ before \subseteq known /\ before \subseteq 0..n
      /\ after \subseteq known /\ after \subseteq Nat
  BY <1>2, <1>3
<1>5. InsertionPoint(d) =
        IF ~file.headExists THEN 0
        ELSE IF before # {} /\ encloses
          THEN IF after # {} /\ InExtent(next, sib)
                 THEN LineStartOf(head, next.start)
                 ELSE ContainerBodyEnd(head, sib)
        ELSE IF before # {} THEN sib.end
        ELSE IF after # {} THEN next.start
        ELSE Len(head)
  BY DEF InsertionPoint
<1>6. \A i \in known : Within(HeadExtent(ds[i]), head)
  BY Extents
<1> HIDE DEF ds, known, before, after, encloses
<1>7. before # {} => Within(sib, head)
  <2>1. before # {} => Max(before) \in known
    BY <1>3, <1>4, MaxOf
  <2> QED BY <1>6, <2>1
<1>8. after # {} => Within(next, head)
  <2>1. after # {} => Min(after) \in known
    BY <1>4, MinOf
  <2> QED BY <1>6, <2>1
<1> HIDE DEF sib, next
<1>9. before # {} => ContainerBodyEnd(head, sib) \in 0..Len(head)
  BY <1>1, <1>7, BodyEndWithin
<1>10. before # {} => sib.end \in 0..Len(head)
  BY <1>1, <1>7 DEF Within
<1>11. after # {} => /\ next.start \in 0..Len(head)
                     /\ LineStartOf(head, next.start) \in 0..Len(head)
  <2>1. SUFFICES ASSUME after # {} PROVE /\ next.start \in 0..Len(head)
                                         /\ LineStartOf(head, next.start) \in 0..Len(head)
    OBVIOUS
  <2>2. next.start \in Nat /\ next.start <= Len(head)
    BY <1>1, <1>8, <2>1 DEF Within
  <2>3. LineStartOf(head, next.start) \in 0..next.start
    BY <2>2, LineStarts
  <2> QED BY <1>1, <2>2, <2>3
<1> QED BY <1>1, <1>5, <1>9, <1>10, <1>11

\* Whatever anchor is named, the planner makes an edit of HEAD's text.
LEMMA ClassifiedIsAnEdit ==
  ASSUME file \in Files, head = HeadText(file), NEW d, OnlyHead(d) \/ d \in file.inWork
  PROVE  Classified(d) \in OpOf(head)
<1>1. /\ head \in Seq(Tokens) /\ Len(head) \in Nat
      /\ work \in Seq(Tokens) /\ Len(work) \in Nat
  BY Extents, LenProperties
<1>2. ASSUME NEW x \in file.inWork
      PROVE  /\ WorkExtent(x).start \in 0..Len(work) /\ WorkExtent(x).start \in Nat
             /\ WorkExtent(x).end \in 0..Len(work) /\ WorkExtent(x).end \in Nat
  BY <1>1, Extents DEF Within
<1>3. ASSUME NEW x \in file.inHead
      PROVE  /\ HeadExtent(x).start \in 0..Len(head) /\ HeadExtent(x).start \in Nat
             /\ HeadExtent(x).end \in 0..Len(head) /\ HeadExtent(x).end \in Nat
             /\ HeadExtent(x).start < HeadExtent(x).end
  BY <1>1, Extents DEF Within
<1>4. CASE OnlyHead(d)
  <2>1. d \in file.inHead
    BY <1>4 DEF OnlyHead
  <2>2. LineStart(head, HeadExtent(d).start) \in 0..HeadExtent(d).start
    BY <1>3, <2>1, LineStarts
  <2>3. /\ LineStart(head, HeadExtent(d).start) \in 0..Len(head)
        /\ LineStart(head, HeadExtent(d).start) < HeadExtent(d).end
    BY <1>1, <1>3, <2>1, <2>2
  <2>4. Classified(d) = Deletion(d)
    BY <1>4 DEF Classified
  <2> QED BY <1>3, <2>1, <2>3, <2>4, EmptySeq DEF Deletion, OpOf, Kinds
<1>5. CASE ~OnlyHead(d) /\ OnlyWork(d)
  <2> DEFINE w == Widened(d)
             x == WorkExtent(w)
  <2>1. d \in file.inWork /\ Classified(d) = Insertion(d)
    BY <1>5 DEF Classified
  <2>2. w \in file.inWork
    BY <2>1, FilesAssumption DEF Widened, Escalated, IsMember
  <2>3. Insertion(d) =
          [kind |-> "insert", start |-> InsertionPoint(w), end |-> 0,
           text |-> InsertionText(work, x), seq |-> x.start,
           wstart |-> x.start, wend |-> x.end,
           member |-> IsMember(d) /\ ~Escalated(d) /\ MembersSitFlush,
           lead |-> LeadingGap(work, x.start), trail |-> TrailingGap(work, x.end)]
    BY DEF Insertion
  <2> HIDE DEF w
  <2>4. InsertionPoint(w) \in 0..Len(head)
    BY InsertionWithin
  <2>5. /\ x.start \in 0..Len(work) /\ x.start \in Nat
        /\ x.end \in 0..Len(work) /\ x.end \in Nat
    BY <1>2, <2>2
  <2> HIDE DEF x
  <2>6. LineStart(work, x.start) \in 0..Len(work)
    BY <1>1, <2>5, LineStarts
  <2>7. InsertionText(work, x) \in Seq(Tokens)
    BY <1>1, <2>5, <2>6, PieceText DEF InsertionText
  <2>8. LeadingGap(work, x.start) \in Nat /\ TrailingGap(work, x.end) \in Nat
    BY <1>1, <2>5, GapsCounted
  <2>9. (IsMember(d) /\ ~Escalated(d) /\ MembersSitFlush) \in BOOLEAN
    OBVIOUS
  <2>10. 0 \in 0..Len(head)
    BY <1>1
  <2>11. Insertion(d) \in OpOf(head)
    BY <2>3, <2>4, <2>5, <2>7, <2>8, <2>9, <2>10 DEF OpOf, Kinds
  <2> QED BY <2>1, <2>11
<1>6. CASE ~OnlyHead(d) /\ ~OnlyWork(d)
  <2>1. d \in file.inWork /\ d \in file.inHead /\ Classified(d) = Replacement(d)
    BY <1>6 DEF Classified, OnlyWork
  <2>2. SubSeq(work, WorkExtent(d).start + 1, WorkExtent(d).end) \in Seq(Tokens)
    BY <1>1, <1>2, <2>1, PieceText
  <2>3. Replacement(d) \in OpOf(head)
    BY <1>2, <1>3, <2>1, <2>2 DEF Replacement, OpOf, Kinds
  <2> QED BY <2>1, <2>3
<1> QED BY <1>4, <1>5, <1>6

\* The preface of a new file is an edit of its empty text.
LEMMA PreambleIsEdits ==
  ASSUME file \in Files, head = HeadText(file)
  PROVE  Preamble \in Seq(OpOf(head))
<1>1. /\ head \in Seq(Tokens) /\ Len(head) \in Nat
      /\ work \in Seq(Tokens) /\ Len(work) \in Nat
  BY Extents, LenProperties
<1>2. CASE file.headExists \/ ~file.preface
  BY <1>2, EmptySeq DEF Preamble
<1>3. CASE ~(file.headExists \/ ~file.preface)
  <2>1. work # <<>>
    BY <1>3, FilesAssumption DEF work
  <2>2. 1 \in 0..Len(work)
    BY <1>1, <2>1, EmptySeq
  <2>3. Drop(work, 1) \in Seq(Tokens) /\ Len(Drop(work, 1)) = Len(work) - 1
    BY <1>1, <2>2, DropText
  <2>4. BlankLen(Drop(work, 1)) \in 0..(Len(work) - 1)
    BY <2>3, BlankLenFact
  <2>5. PrefaceEnd \in 0..Len(work)
    BY <1>1, <2>2, <2>4 DEF PrefaceEnd
  <2>6. Take(work, PrefaceEnd) \in Seq(Tokens)
    BY <1>1, <2>5, TakeText
  <2>7. 0 \in 0..Len(head)
    BY <1>1
  <2>8. PrefaceInsertion \in OpOf(head)
    BY <2>6, <2>7 DEF PrefaceInsertion, OpOf, Kinds
  <2>9. Preamble = <<PrefaceInsertion>>
    BY <1>3 DEF Preamble
  <2> QED BY <2>8, <2>9
<1> QED BY <1>2, <1>3

-----------------------------------------------------------------------------
(* The refinement. *)

LEMMA PlanInit ==
  ASSUME Init
  PROVE  PlanInv /\ SpliceInit
<1>1. file \in Files /\ head = HeadText(file) /\ ops = <<>>
  BY DEF Init
<1>2. head \in Seq(Tokens)
  BY <1>1, Extents
<1>3. ops \in Seq(OpOf(head))
  BY <1>1, EmptySeq
<1> QED BY <1>1, <1>2, <1>3 DEF Init, PlanInv, SpliceInit

LEMMA PlanKept ==
  ASSUME PlanInv, file' = file, head' = head, ops' \in Seq(OpOf(head))
  PROVE  PlanInv'
<1>1. HeadText(file)' = HeadText(file) /\ OpOf(head)' = OpOf(head)
  BY DEF OpOf
<1> QED BY <1>1 DEF PlanInv

\* Each step of the planner is one that applyEdits allows its caller.
LEMMA PlanStep ==
  ASSUME PlanInv, [Next]_vars
  PROVE  PlanInv' /\ [SpliceNext]_spliceVars
<1>1. file \in Files /\ head = HeadText(file) /\ ops \in Seq(OpOf(head))
  BY DEF PlanInv
<1>2. ASSUME NEW d \in Symbols, PlanSymbol(d) PROVE PlanInv' /\ Collect
  <2>1. Classified(d) \in OpOf(head)
    BY <1>1, <1>2, ClassifiedIsAnEdit DEF PlanSymbol
  <2>2. Append(ops, Classified(d)) \in Seq(OpOf(head))
    BY <1>1, <2>1, AppendProperties
  <2>3. /\ pc = "plan" /\ ops' = Append(ops, Classified(d))
        /\ UNCHANGED <<file, head, pc, todo, kept, pending, out>>
    BY <1>2 DEF PlanSymbol
  <2> QED BY <2>2, <2>3, PlanKept DEF Collect
<1>3. ASSUME FinishFile PROVE PlanInv' /\ Begin
  <2>1. PICK siblings \in SetToSeqs(ReferencedSiblings) :
          ops' = ops \o [i \in DOMAIN siblings |-> Classified(siblings[i])] \o Preamble
    BY <1>3 DEF FinishFile
  <2> DEFINE n == Cardinality(ReferencedSiblings)
             more == [i \in DOMAIN siblings |-> Classified(siblings[i])]
  <2>2. siblings \in [1..n -> ReferencedSiblings]
    BY DEF SetToSeqs
  <2>3. n \in Nat
    <3>1. ReferencedSiblings \subseteq Symbols
      BY <1>1, FilesAssumption DEF ReferencedSiblings, FileType
    <3> QED BY <3>1, SymbolsAssumption, FS_Subset, FS_CardinalityType
  <2>4. ASSUME NEW i \in 1..n PROVE Classified(siblings[i]) \in OpOf(head)
    <3>1. siblings[i] \in file.inWork
      BY <2>2, <2>4 DEF ReferencedSiblings
    <3> QED BY <1>1, <3>1, ClassifiedIsAnEdit
  <2>5. more \in Seq(OpOf(head))
    <3>1. more \in [1..n -> OpOf(head)]
      BY <2>2, <2>4
    <3> HIDE DEF more, n
    <3> QED BY <2>3, <3>1, SeqDef
  <2>6. Preamble \in Seq(OpOf(head))
    BY <1>1, PreambleIsEdits
  <2> HIDE DEF more
  <2>7. ops \o more \in Seq(OpOf(head))
    BY <1>1, <2>5, ConcatProperties
  <2>8. (ops \o more) \o Preamble \in Seq(OpOf(head))
    BY <2>6, <2>7, ConcatProperties
  <2>9. ops' = (ops \o more) \o Preamble
    BY <2>1 DEF more
  <2>10. /\ pc = "plan" /\ pc' = "coalesce" /\ todo' = DOMAIN ops'
         /\ UNCHANGED <<file, head, kept, pending, out>>
    BY <1>3 DEF FinishFile
  <2> QED BY <2>8, <2>9, <2>10, PlanKept DEF Begin
<1>4. ASSUME Refuse \/ Apply \/ InheritEOF \/ Finished \/ UNCHANGED vars
      PROVE  file' = file /\ head' = head /\ ops' = ops
  BY <1>4 DEF Refuse, Apply, InheritEOF, Finished, vars, spliceVars, ApplyEdits, Coalesce,
     Coalesced, MergeTies, Merged, Splice, Panic, AllSpliced
<1>5. ASSUME Refuse \/ Apply \/ InheritEOF \/ Finished \/ UNCHANGED vars PROVE PlanInv'
  BY <1>1, <1>4, <1>5, PlanKept
<1>6. Refuse => Abandon
  BY DEF Refuse, Abandon
<1>7. InheritEOF => Deliver
  BY DEF InheritEOF, Deliver
<1>8. Finished \/ UNCHANGED vars => UNCHANGED spliceVars
  BY DEF Finished, vars
<1>9. Apply => ApplyEdits
  BY DEF Apply
<1> QED
  BY <1>2, <1>3, <1>5, <1>6, <1>7, <1>8, <1>9 DEF Next, SpliceNext

\* Whatever anchors are named of a file, in whatever order, planSymbol and
\* finishFile (stage.go:291-352) make of them edits that applyEdits accepts.
THEOREM PlannerImplements == Spec => SpliceSpec
<1>1. Init => PlanInv /\ SpliceInit
  BY PlanInit
<1>2. PlanInv /\ [Next]_vars => PlanInv' /\ [SpliceNext]_spliceVars
  BY PlanStep
<1> QED BY <1>1, <1>2, PTL DEF Spec, SpliceSpec

-----------------------------------------------------------------------------
(* Where edits lie to each other, in a file without sections. *)

Pos(d) == IndexIn(file.order, d)

\* Each declaration has its place in the order of the file.
LEMMA Places1 ==
  ASSUME file \in Files
  PROVE  /\ Cardinality(Symbols) \in Nat /\ DOMAIN file.order = 1..Cardinality(Symbols)
         /\ \A d \in Symbols : /\ Pos(d) \in 1..Cardinality(Symbols)
                               /\ file.order[Pos(d)] = d
         /\ \A i \in DOMAIN file.order : file.order[i] \in Symbols /\ Pos(file.order[i]) = i
<1>1. /\ Ordered(file.order) /\ file.order \in [1..Cardinality(Symbols) -> Symbols]
  BY FilesAssumption DEF FileType
<1>2. Cardinality(Symbols) \in Nat
  BY SymbolsAssumption, FS_CardinalityType
<1>3. ASSUME NEW d \in Symbols
      PROVE  Pos(d) \in DOMAIN file.order /\ file.order[Pos(d)] = d
  <2>1. \E i \in DOMAIN file.order : file.order[i] = d
    BY <1>1 DEF Ordered
  <2> QED BY <2>1 DEF Pos, IndexIn
<1>4. ASSUME NEW i \in DOMAIN file.order
      PROVE  file.order[i] \in Symbols /\ Pos(file.order[i]) = i
  <2>1. file.order[i] \in Symbols
    BY <1>1
  <2>2. file.order[Pos(file.order[i])] = file.order[i] /\ Pos(file.order[i]) \in DOMAIN file.order
    BY <1>3, <2>1
  <2> QED BY <1>1, <2>1, <2>2 DEF Ordered
<1> QED BY <1>1, <1>2, <1>3, <1>4

\* Any two declarations have an order, a container before its members.
LEMMA PosOrder ==
  ASSUME file \in Files, NEW d \in Symbols, NEW e \in Symbols
  PROVE  /\ Pos(d) \in Nat /\ Pos(e) \in Nat
         /\ d = e \/ Pos(d) < Pos(e) \/ Pos(e) < Pos(d)
         /\ d = Container /\ IsMember(e) => Pos(d) < Pos(e)
<1>1. /\ Pos(d) \in DOMAIN file.order /\ file.order[Pos(d)] = d /\ Pos(d) \in Nat
      /\ Pos(e) \in DOMAIN file.order /\ file.order[Pos(e)] = e /\ Pos(e) \in Nat
  BY Places1
<1>2. Pos(d) = Pos(e) => d = e
  BY <1>1
<1>3. d = Container /\ IsMember(e) => Pos(d) < Pos(e)
  BY <1>1, FilesAssumption DEF Ordered
<1> QED BY <1>1, <1>2, <1>3

\* The bounds of a declaration in HEAD, the line it starts on, and the end of
\* the container's body.
HS(d) == HeadExtent(d).start
HE(d) == HeadExtent(d).end
HL(d) == LineStartOf(head, HS(d))
HB    == ContainerBodyEnd(head, HeadExtent(Container))

Solid(n) == n \in 1..Len(head) /\ head[n] \notin {NL, Tab}

LEMMA HeadBounds ==
  ASSUME file \in Files, head = HeadText(file), file.style # "sections",
         NEW d \in file.inHead
  PROVE  /\ d \in Symbols /\ Len(head) \in Nat
         /\ HL(d) \in Nat /\ HS(d) \in Nat /\ HE(d) \in Nat
         /\ HL(d) <= HS(d) /\ HS(d) < HE(d) /\ HE(d) <= Len(head)
         /\ Solid(HS(d) + 1) /\ Solid(HE(d))
         /\ d = Container => HB \in Nat /\ HS(d) < HB /\ HB <= HE(d)
<1>1. Len(head) \in Nat /\ Within(HeadExtent(d), head)
  BY Extents, LenProperties
<1>2. /\ HS(d) \in Nat /\ HE(d) \in 1..Len(head) /\ HS(d) < HE(d)
      /\ head[HS(d) + 1] \notin {NL, Tab}
  BY <1>1 DEF Within, HS, HE
<1>3. d \in Symbols /\ SetOut(file, file.inHead, head)
  BY FilesAssumption DEF FileType
<1>4. /\ Pos(d) \in DOMAIN file.order /\ file.order[Pos(d)] = d
  BY <1>3, Places1
<1>5. head[HE(d)] \notin {NL, Tab}
  BY <1>3, <1>4 DEF SetOut, HE, HeadExtent
<1>6. d = Container => HB \in (HS(d) + 1)..HE(d)
  BY <1>3, <1>4 DEF SetOut, HB, HS, HE, HeadExtent
<1>7. HL(d) \in 0..HS(d)
  BY <1>2, LineStarts DEF HL
<1> QED BY <1>1, <1>2, <1>3, <1>5, <1>6, <1>7 DEF Solid

LEMMA HeadLaid ==
  ASSUME file \in Files, head = HeadText(file), file.style # "sections",
         NEW d \in file.inHead, NEW e \in file.inHead, Pos(d) < Pos(e)
  PROVE  IF d = Container /\ IsMember(e) THEN HS(d) < HL(e) /\ HE(e) <= HB
                                         ELSE HE(d) <= HL(e)
<1>1. d \in Symbols /\ e \in Symbols /\ SetOut(file, file.inHead, head)
  BY FilesAssumption DEF FileType
<1>2. /\ Pos(d) \in DOMAIN file.order /\ file.order[Pos(d)] = d
      /\ Pos(e) \in DOMAIN file.order /\ file.order[Pos(e)] = e
  BY <1>1, Places1
<1> QED BY <1>1, <1>2 DEF SetOut, HS, HE, HL, HB, HeadExtent

\* The same of the worktree.
LEMMA WorkBounds ==
  ASSUME file \in Files, head = HeadText(file), file.style # "sections",
         NEW d \in file.inWork
  PROVE  /\ d \in Symbols
         /\ WorkExtent(d).start \in Nat /\ WorkExtent(d).end \in 1..Len(work)
         /\ WorkExtent(d).start < WorkExtent(d).end
         /\ work[WorkExtent(d).end] # NL
<1>1. work \in Seq(Tokens) /\ Within(WorkExtent(d), work) /\ Len(work) \in Nat
  BY Extents, LenProperties
<1>2. d \in Symbols /\ SetOut(file, file.inWork, work)
  BY FilesAssumption DEF FileType, work
<1>3. /\ Pos(d) \in DOMAIN file.order /\ file.order[Pos(d)] = d
  BY <1>2, Places1
<1>4. work[WorkExtent(d).end] # NL
  BY <1>2, <1>3 DEF SetOut, WorkExtent
<1> QED BY <1>1, <1>2, <1>4 DEF Within

\* The bounds of a declaration in the worktree, the line it starts on, and the
\* end of the container's body.
WS(d) == WorkExtent(d).start
WE(d) == WorkExtent(d).end
WL(d) == LineStartOf(work, WS(d))
WB    == ContainerBodyEnd(work, WorkExtent(Container))

LEMMA WorkLaid ==
  ASSUME file \in Files, head = HeadText(file), file.style # "sections",
         NEW d \in file.inWork, NEW e \in file.inWork, Pos(d) < Pos(e)
  PROVE  IF d = Container /\ IsMember(e) THEN WS(d) < WL(e) /\ WE(e) <= WB
                                         ELSE WE(d) <= WL(e)
<1>1. d \in Symbols /\ e \in Symbols /\ SetOut(file, file.inWork, work)
  BY FilesAssumption DEF FileType, work
<1>2. /\ Pos(d) \in DOMAIN file.order /\ file.order[Pos(d)] = d
      /\ Pos(e) \in DOMAIN file.order /\ file.order[Pos(e)] = e
  BY <1>1, Places1
<1> QED BY <1>1, <1>2 DEF SetOut, WS, WE, WL, WB, WorkExtent

\* A declaration of the worktree lies in no other but its container.
LEMMA WorkNesting ==
  ASSUME file \in Files, head = HeadText(file), file.style # "sections",
         NEW d \in file.inWork, NEW e \in file.inWork, d # e
  PROVE  /\ InExtent(WorkExtent(d), WorkExtent(e)) <=> e = Container /\ IsMember(d)
         /\ WorkExtent(d) # WorkExtent(e)
<1>1. ASSUME NEW x \in file.inWork
      PROVE  /\ x \in Symbols /\ WS(x) \in Nat /\ WE(x) \in Nat
             /\ WS(x) < WE(x) /\ WL(x) \in Nat /\ WL(x) <= WS(x)
             /\ x = Container => WB \in Nat /\ WB <= WE(x)
  <2>1. /\ x \in Symbols /\ WS(x) \in Nat /\ WE(x) \in 1..Len(work)
        /\ WS(x) < WE(x)
    BY WorkBounds DEF WS, WE
  <2>2. WL(x) \in 0..WS(x)
    BY <2>1, LineStarts DEF WL
  <2>3. x = Container => WB \in (WS(x) + 1)..WE(x)
    <3>1. SetOut(file, file.inWork, work)
      BY FilesAssumption DEF work
    <3>2. Pos(x) \in DOMAIN file.order /\ file.order[Pos(x)] = x
      BY <2>1, Places1
    <3> QED BY <3>1, <3>2 DEF SetOut, WB, WS, WE, WorkExtent
  <2> QED BY <2>1, <2>2, <2>3
<1>2. /\ Pos(d) < Pos(e) \/ Pos(e) < Pos(d)
      /\ Pos(d) \in Nat /\ Pos(e) \in Nat
      /\ e = Container /\ IsMember(d) => Pos(e) < Pos(d)
  BY <1>1, PosOrder
<1>3. ~IsMember(Container)
  BY SymbolsAssumption DEF IsMember
<1>4. /\ WS(e) <= WS(d) /\ WE(d) <= WE(e) <=> e = Container /\ IsMember(d)
      /\ WS(d) # WS(e)
  <2>1. CASE Pos(d) < Pos(e)
    <3>1. IF d = Container /\ IsMember(e) THEN WS(d) < WL(e) /\ WE(e) <= WB
                                          ELSE WE(d) <= WL(e)
      BY <2>1, WorkLaid
    <3> QED BY <1>1, <1>2, <1>3, <2>1, <3>1
  <2>2. CASE Pos(e) < Pos(d)
    <3>1. IF e = Container /\ IsMember(d) THEN WS(e) < WL(d) /\ WE(d) <= WB
                                          ELSE WE(e) <= WL(d)
      BY <2>2, WorkLaid
    <3> QED BY <1>1, <1>2, <1>3, <2>2, <3>1
  <2> QED BY <1>2, <2>1, <2>2
<1> QED BY <1>4 DEF WS, WE, InExtent

\* Either text: what it declares, in which version.
OneText(S, v, src) ==
  \/ S = file.inHead /\ v = "old" /\ src = head
  \/ S = file.inWork /\ v = "new" /\ src = work

Starts(S, src, d) == Extent(file, S, src, d).start
Ends(S, src, d)   == Extent(file, S, src, d).end
Lines(S, src, d)  == LineStartOf(src, Starts(S, src, d))
BodyEnd(S, src)   == ContainerBodyEnd(src, Extent(file, S, src, Container))

\* How it is laid out: bounds of a declaration, and of two.
Bounded(S, src, d) ==
  /\ Lines(S, src, d) \in Nat /\ Starts(S, src, d) \in Nat /\ Ends(S, src, d) \in Nat
  /\ Lines(S, src, d) <= Starts(S, src, d) /\ Starts(S, src, d) < Ends(S, src, d)
  /\ Ends(S, src, d) <= Len(src)
  /\ src[Starts(S, src, d) + 1] \notin {NL, Tab} /\ src[Ends(S, src, d)] \notin {NL, Tab}
  /\ d = Container => /\ BodyEnd(S, src) \in Nat
                      /\ Starts(S, src, d) < BodyEnd(S, src)
                      /\ BodyEnd(S, src) <= Ends(S, src, d)
                      /\ file.style = "braces" => BodyEnd(S, src) < Ends(S, src, d)

Apart(S, src, d, e) ==
  IF d = Container /\ IsMember(e)
    THEN Starts(S, src, d) < Lines(S, src, e) /\ Ends(S, src, e) <= BodyEnd(S, src)
    ELSE Ends(S, src, d) <= Lines(S, src, e)

LEMMA TextLaid ==
  ASSUME file \in Files, head = HeadText(file), file.style # "sections",
         NEW S, NEW v, NEW src, OneText(S, v, src)
  PROVE  /\ src \in Seq(Tokens) /\ Len(src) \in Nat /\ S \subseteq Symbols
         /\ Labelled(file, S, v, src)
         /\ \A d \in S : Bounded(S, src, d)
         /\ \A d, e \in S : Pos(d) < Pos(e) => Apart(S, src, d, e)
         /\ \A d \in S : IsMember(d) => Container \in S
<1>1. /\ src \in Seq(Tokens) /\ S \subseteq Symbols /\ Parsed(file, S, src)
      /\ SetOut(file, S, src) /\ Labelled(file, S, v, src)
  BY FilesAssumption DEF OneText, work, FileType, Parsed
<1>2. Len(src) \in Nat
  BY <1>1, LenProperties
<1>3. \A d \in S : IsMember(d) => Container \in S
  BY FilesAssumption DEF OneText, IsMember
<1>4. \A d \in S : Pos(d) \in DOMAIN file.order /\ file.order[Pos(d)] = d
  BY <1>1, Places1
<1>5. ASSUME NEW d \in S PROVE Bounded(S, src, d)
  <2>1. /\ Ends(S, src, d) \in 1..Len(src) /\ Starts(S, src, d) \in 0..(Ends(S, src, d) - 1)
        /\ src[Starts(S, src, d) + 1] \notin {NL, Tab}
    BY <1>1 DEF Parsed, Starts, Ends
  <2>2. src[Ends(S, src, d)] \notin {NL, Tab}
    BY <1>1, <1>4 DEF SetOut, Ends
  <2>3. Starts(S, src, d) \in Nat /\ Ends(S, src, d) \in Nat
        /\ Starts(S, src, d) < Ends(S, src, d) /\ Ends(S, src, d) <= Len(src)
    BY <1>2, <2>1
  <2>4. Lines(S, src, d) \in 0..Starts(S, src, d)
    BY <2>3, LineStarts DEF Lines
  <2>5. ASSUME d = Container
        PROVE  /\ BodyEnd(S, src) \in Nat /\ Starts(S, src, d) < BodyEnd(S, src)
               /\ BodyEnd(S, src) <= Ends(S, src, d)
               /\ file.style = "braces" => BodyEnd(S, src) < Ends(S, src, d)
    <3>1. BodyEnd(S, src) \in (Starts(S, src, d) + 1)..Ends(S, src, d)
      BY <1>1, <1>4, <2>5 DEF SetOut, BodyEnd, Starts, Ends
    <3>2. ASSUME file.style = "braces" PROVE BodyEnd(S, src) < Ends(S, src, d)
      <4> DEFINE e == Ends(S, src, d)
                 solid == {i \in (Starts(S, src, d) + 1)..e : src[i] \notin {NL, Tab}}
      <4>1. e \in solid /\ solid \subseteq 0..e /\ solid # {} /\ e \in Nat
        BY <2>2, <2>3
      <4>2. e \in DOMAIN src
        BY <1>1, <1>2, <2>3, LenProperties
      <4>3. src[e] = Closing
        BY <1>1, <2>5, <3>2, <4>2 DEF Labelled, Ends
      <4>4. BodyEnd(S, src) =
              IF src[Max(solid)] = Closing
                THEN Max({Starts(S, src, d), LineStartOf(src, Max(solid) - 1)}) ELSE e
        BY <2>5 DEF BodyEnd, ContainerBodyEnd, Starts, Ends
      <4> HIDE DEF solid, e
      <4>5. Max(solid) = e
        <5>1. Max(solid) \in solid /\ Max(solid) >= e
          BY <4>1, MaxOf
        <5>2. Max(solid) \in 0..e
          BY <4>1, <5>1
        <5> QED BY <4>1, <5>1, <5>2
      <4>6. e - 1 \in Nat
        BY <2>3 DEF e
      <4>7. LineStartOf(src, e - 1) \in 0..(e - 1) /\ Starts(S, src, d) \in 0..(e - 1)
        BY <2>3, <4>6, LineStarts DEF e
      <4>8. BodyEnd(S, src) = Max({Starts(S, src, d), LineStartOf(src, e - 1)})
        BY <4>3, <4>4, <4>5
      <4>9. BodyEnd(S, src) \in 0..(e - 1)
        BY <4>6, <4>7, <4>8, MaxOf
      <4> QED BY <4>1, <4>9 DEF e
    <3> QED BY <2>3, <3>1, <3>2
  <2> QED BY <2>1, <2>2, <2>3, <2>4, <2>5 DEF Bounded
<1>6. ASSUME NEW d \in S, NEW e \in S, Pos(d) < Pos(e) PROVE Apart(S, src, d, e)
  <2>1. /\ Pos(d) \in DOMAIN file.order /\ file.order[Pos(d)] = d
        /\ Pos(e) \in DOMAIN file.order /\ file.order[Pos(e)] = e
    BY <1>4
  <2> QED BY <1>1, <1>6, <2>1 DEF SetOut, Apart, Starts, Ends, Lines, BodyEnd
<1> QED BY <1>1, <1>2, <1>3, <1>5, <1>6

\* Between a container and its members there is nothing but members.
LEMMA NoneBetween ==
  ASSUME file \in Files, head = HeadText(file), file.style # "sections",
         NEW S, NEW v, NEW src, OneText(S, v, src),
         NEW x \in S, NEW y \in S, IsMember(y),
         Pos(Container) < Pos(x), Pos(x) < Pos(y)
  PROVE  IsMember(x)
<1>1. Container \in S
  BY TextLaid
<1>2. SUFFICES ASSUME ~IsMember(x) PROVE FALSE
  OBVIOUS
<1>3. /\ Bounded(S, src, Container) /\ Bounded(S, src, x) /\ Bounded(S, src, y)
      /\ Apart(S, src, Container, x) /\ Apart(S, src, x, y)
  BY <1>1, TextLaid
<1>4. Apart(S, src, Container, y)
  <2>1. Container \in Symbols /\ y \in Symbols
    BY <1>1, TextLaid
  <2>2. Pos(Container) < Pos(y)
    BY <2>1, PosOrder
  <2> QED BY <1>1, <2>2, TextLaid
<1>5. x # Container
  <2>1. Container \in Symbols
    BY <1>1, TextLaid
  <2>2. Pos(Container) \in Nat
    BY <2>1, PosOrder
  <2> QED BY <2>2
<1> QED BY <1>2, <1>3, <1>4, <1>5 DEF Bounded, Apart

\* HEAD and the worktree are such texts.
LEMMA BothTexts ==
  /\ OneText(file.inHead, "old", head) /\ OneText(file.inWork, "new", work)
  /\ \A d : /\ HS(d) = Starts(file.inHead, head, d) /\ HE(d) = Ends(file.inHead, head, d)
            /\ HL(d) = Lines(file.inHead, head, d)
            /\ WS(d) = Starts(file.inWork, work, d) /\ WE(d) = Ends(file.inWork, work, d)
            /\ WL(d) = Lines(file.inWork, work, d)
  /\ HB = BodyEnd(file.inHead, head) /\ WB = BodyEnd(file.inWork, work)
  BY DEF OneText, HS, HE, HL, HB, WS, WE, WL, WB, Starts, Ends, Lines, BodyEnd,
         HeadExtent, WorkExtent

\* The declarations both texts have: what an insertion point is found by.
Both == file.inWork \cap file.inHead

\* A new declaration of a file HEAD has, and not one that brings its container.
NewIn(u) ==
  /\ file.headExists /\ u \in file.inWork \ file.inHead
  /\ IsMember(u) => Container \in file.inHead

\* Where a new declaration may go: in the container, before a member or at the
\* end of the body; after or before a declaration of both texts; or at the end.
Placed(u, place) ==
  \/ /\ IsMember(u) /\ Container \in Both
     /\ (\E a \in Both : IsMember(a) /\ place = HL(a)) \/ place = HB
  \/ \E b \in Both : place = HE(b)
  \/ \E a \in Both : place = HS(a) /\ (IsMember(a) => Container \notin file.inHead)
  \/ place = Len(head)

\* The declarations of both texts before and after u; x is the nearest before,
\* the nearest after.
Earlier(u) == {b \in Both : Pos(b) < Pos(u)}
Later(u)   == {a \in Both : Pos(u) < Pos(a)}
Prev(u, x) == x \in Earlier(u) /\ \A b \in Earlier(u) : Pos(b) <= Pos(x)
Succ(u, x) == x \in Later(u) /\ \A a \in Later(u) : Pos(x) <= Pos(a)

\* Where insertionPoint puts u, by its neighbours.
Pointed(u, place) ==
  \/ \E s \in Both :
       /\ Prev(u, s)
       /\ IF s = Container /\ IsMember(u)
            THEN \/ \E t \in Both : Succ(u, t) /\ IsMember(t) /\ place = HL(t)
                 \/ place = HB /\ \A t \in Both : Succ(u, t) => ~IsMember(t)
            ELSE place = HE(s)
  \/ Earlier(u) = {} /\ \E t \in Both : Succ(u, t) /\ place = HS(t)
  \/ Earlier(u) = {} /\ Later(u) = {} /\ place = Len(head)

LEMMA InsertionPointed ==
  ASSUME file \in Files, head = HeadText(file), file.style # "sections",
         NEW u, NewIn(u)
  PROVE  Pointed(u, InsertionPoint(u))
<1> DEFINE n       == Cardinality(Symbols)
           ds      == file.order
           known   == {i \in DOMAIN ds : ds[i] \in file.inWork \cap file.inHead}
           before  == {i \in known : i < IndexIn(ds, u)}
           after   == {i \in known : i > IndexIn(ds, u)}
           s       == ds[Max(before)]
           t       == ds[Min(after)]
           encloses == /\ InExtent(WorkExtent(u), WorkExtent(s))
                       /\ WorkExtent(u) # WorkExtent(s)
<1>1. /\ file.headExists /\ u \in Symbols /\ u \in file.inWork /\ u \notin Both
      /\ Both \subseteq Symbols /\ Both \subseteq file.inWork /\ Both \subseteq file.inHead
  BY FilesAssumption DEF FileType, NewIn, Both
<1>2. /\ n \in Nat /\ DOMAIN ds = 1..n
      /\ \A d \in Symbols : Pos(d) \in 1..n /\ ds[Pos(d)] = d
      /\ \A i \in DOMAIN ds : ds[i] \in Symbols /\ Pos(ds[i]) = i
  BY Places1
<1>3. InsertionPoint(u) =
        IF before # {} /\ encloses
          THEN IF after # {} /\ InExtent(HeadExtent(t), HeadExtent(s))
                 THEN LineStartOf(head, HeadExtent(t).start)
                 ELSE ContainerBodyEnd(head, HeadExtent(s))
        ELSE IF before # {} THEN HeadExtent(s).end
        ELSE IF after # {} THEN HeadExtent(t).start
        ELSE Len(head)
  BY <1>1 DEF InsertionPoint
<1>4. /\ before \subseteq 0..n /\ after \subseteq Nat
      /\ \A i \in before : ds[i] \in Earlier(u) /\ Pos(ds[i]) = i
      /\ \A i \in after : ds[i] \in Later(u) /\ Pos(ds[i]) = i
  <2>1. \A i \in known : i \in 0..n /\ i \in Nat /\ ds[i] \in Both /\ Pos(ds[i]) = i
    BY <1>2 DEF Both
  <2> HIDE DEF known
  <2> QED BY <2>1 DEF Pos, Earlier, Later
<1>5. /\ \A x \in Earlier(u) : Pos(x) \in before
      /\ \A x \in Later(u) : Pos(x) \in after
  BY <1>1, <1>2 DEF Both, Pos, Earlier, Later
<1> HIDE DEF n, ds, known, before, after
<1>6. before # {} => Prev(u, s) /\ s \in Both
  <2>1. before # {} => Max(before) \in before /\ \A y \in before : Max(before) >= y
    BY <1>2, <1>4, MaxOf
  <2> QED BY <1>2, <1>4, <1>5, <2>1 DEF Prev, Earlier
<1>7. after # {} => Succ(u, t) /\ t \in Both
  <2>1. after # {} => Min(after) \in after /\ \A y \in after : Min(after) <= y
    BY <1>4, MinOf
  <2> QED BY <1>4, <1>5, <2>1 DEF Succ, Later
<1>8. before = {} => Earlier(u) = {}
  BY <1>5
<1>9. after = {} => Later(u) = {}
  BY <1>5
<1> HIDE DEF s, t
<1>10. before # {} => (encloses <=> s = Container /\ IsMember(u))
  BY <1>1, <1>6, WorkNesting
<1> HIDE DEF encloses
<1>11. CASE before # {} /\ encloses
  <2>1. s = Container /\ s \in Both /\ IsMember(u) /\ Prev(u, s)
    BY <1>6, <1>10, <1>11
  <2>2. ASSUME after # {}
        PROVE  InExtent(HeadExtent(t), HeadExtent(s)) <=> IsMember(t)
    <3>1. t \in Both /\ t \in file.inHead /\ s \in file.inHead /\ Pos(s) < Pos(t)
      <4>1. /\ t \in Both /\ Pos(s) < Pos(u) /\ Pos(u) < Pos(t) /\ Pos(s) \in Nat
            /\ Pos(t) \in Nat /\ Pos(u) \in Nat
        BY <1>1, <1>7, <2>1, <2>2, PosOrder DEF Prev, Succ, Earlier, Later
      <4> QED BY <1>1, <2>1, <4>1
    <3>2. /\ HL(t) \in Nat /\ HS(t) \in Nat /\ HE(t) \in Nat /\ HE(s) \in Nat
          /\ HL(t) <= HS(t) /\ HS(t) < HE(t) /\ HS(s) \in Nat /\ HB \in Nat /\ HB <= HE(s)
      BY <2>1, <3>1, HeadBounds
    <3>3. IF IsMember(t) THEN HS(s) < HL(t) /\ HE(t) <= HB ELSE HE(s) <= HL(t)
      BY <2>1, <3>1, HeadLaid
    <3> QED BY <3>2, <3>3 DEF InExtent, HS, HE
  <2>3. CASE after # {} /\ IsMember(t)
    <3>1. InsertionPoint(u) = HL(t)
      BY <1>3, <1>11, <2>2, <2>3 DEF HL, HS
    <3> QED BY <1>7, <2>1, <2>3, <3>1 DEF Pointed
  <2>4. CASE after # {} /\ ~IsMember(t)
    <3>1. InsertionPoint(u) = HB
      BY <1>3, <1>11, <2>1, <2>2, <2>4 DEF HB
    <3>2. ASSUME NEW x \in Both, Succ(u, x) PROVE x = t
      <4>1. /\ Succ(u, t) /\ t \in Both /\ Pos(t) <= Pos(x) /\ Pos(x) <= Pos(t)
        BY <1>7, <2>4, <3>2 DEF Succ
      <4>2. Pos(x) \in Nat /\ Pos(t) \in Nat /\ (x = t \/ Pos(x) < Pos(t) \/ Pos(t) < Pos(x))
        BY <1>1, <4>1, PosOrder
      <4> QED BY <4>1, <4>2
    <3> QED BY <2>1, <2>4, <3>1, <3>2 DEF Pointed
  <2>5. CASE after = {}
    <3>1. InsertionPoint(u) = HB
      BY <1>3, <1>11, <2>1, <2>5 DEF HB
    <3> QED BY <1>9, <2>1, <2>5, <3>1 DEF Pointed, Succ
  <2> QED BY <2>3, <2>4, <2>5
<1>12. CASE before # {} /\ ~encloses
  <2>1. InsertionPoint(u) = HE(s)
    BY <1>3, <1>12 DEF HE
  <2> QED BY <1>6, <1>10, <1>12, <2>1 DEF Pointed
<1>13. CASE before = {} /\ after # {}
  <2>1. InsertionPoint(u) = HS(t)
    BY <1>3, <1>13 DEF HS
  <2> QED BY <1>7, <1>8, <1>13, <2>1 DEF Pointed
<1>14. CASE before = {} /\ after = {}
  BY <1>3, <1>8, <1>9, <1>14 DEF Pointed
<1> QED BY <1>11, <1>12, <1>13, <1>14

LEMMA InsertionPlaced ==
  ASSUME file \in Files, head = HeadText(file), file.style # "sections",
         NEW u, NewIn(u)
  PROVE  Placed(u, InsertionPoint(u))
<1>1. Pointed(u, InsertionPoint(u))
  BY InsertionPointed
<1>2. ASSUME Earlier(u) = {}, NEW t \in Both, Succ(u, t), IsMember(t),
             Container \in file.inHead
      PROVE  FALSE
  <2>1. Container \in Both /\ t \in Symbols /\ u \in Symbols /\ Container \in Symbols
    BY <1>2, FilesAssumption DEF Both, IsMember, NewIn, FileType
  <2>2. /\ Pos(Container) < Pos(t) /\ Pos(Container) \in Nat
        /\ Pos(t) \in Nat /\ Pos(u) \in Nat
        /\ Container = u \/ Pos(Container) < Pos(u) \/ Pos(u) < Pos(Container)
    BY <1>2, <2>1, PosOrder
  <2>3. ~(Pos(Container) < Pos(u)) /\ (Pos(u) < Pos(Container) => Pos(t) <= Pos(Container))
    BY <1>2, <2>1 DEF Earlier, Later, Succ
  <2>4. Container # u
    BY <2>1 DEF NewIn, Both
  <2> QED BY <2>2, <2>3, <2>4
<1> QED BY <1>1, <1>2 DEF Pointed, Placed

\* The edit of e, from start on, leaves the place clear, and is not one of a
\* blank beginning of the file that something is inserted before.
Clear(e, start, place) ==
  /\ place <= start \/ HE(e) <= place
  /\ e \notin file.inWork /\ place <= start => \E n \in 1..start : head[n] # NL

\* An edit after a solid token is grounded.
LEMMA After ==
  ASSUME NEW n, Solid(n), NEW start \in Nat, n <= start
  PROVE  \E i \in 1..start : head[i] # NL
  BY DEF Solid

\* Nothing goes inside the range of an edit but a member into a container that
\* is replaced whole, and what Misplaced describes.
LEMMA InsertionClear ==
  ASSUME file \in Files, head = HeadText(file), file.style # "sections",
         NEW u, NewIn(u), ~LandsInside(u),
         NEW e \in file.inHead, e = Container => ~IsMember(u),
         NEW start \in HL(e)..HS(e), e \in file.inWork => start = HS(e)
  PROVE  Clear(e, start, InsertionPoint(u))
<1> DEFINE P == InsertionPoint(u)
<1>1. /\ Both \subseteq file.inHead /\ Both \subseteq file.inWork
      /\ P \in 0..Len(head) /\ Len(head) \in Nat
  BY InsertionWithin, Extents, LenProperties DEF Both
<1>2. ASSUME NEW d \in file.inHead
      PROVE  /\ HL(d) \in Nat /\ HS(d) \in Nat /\ HE(d) \in Nat
             /\ HL(d) <= HS(d) /\ HS(d) + 1 <= HE(d) /\ HE(d) <= Len(head)
             /\ Solid(HS(d) + 1) /\ Solid(HE(d))
             /\ d = Container => HB \in Nat /\ HS(d) + 1 <= HB /\ HB <= HE(d)
  BY <1>2, HeadBounds
<1>3. ASSUME NEW d \in file.inHead, d # e
      PROVE  /\ Pos(d) < Pos(e) \/ Pos(e) < Pos(d)
             /\ d = Container /\ IsMember(e) => Pos(d) < Pos(e)
             /\ e = Container /\ IsMember(d) => Pos(e) < Pos(d)
             /\ Pos(d) \in Nat /\ Pos(e) \in Nat
  BY <1>3, PosOrder, HeadBounds
<1>4. ASSUME NEW d \in file.inHead, Pos(d) < Pos(e)
      PROVE  IF d = Container /\ IsMember(e) THEN HS(d) + 1 <= HL(e) /\ HE(e) <= HB
                                             ELSE HE(d) <= HL(e)
  BY <1>2, <1>4, HeadLaid
<1>5. ASSUME NEW d \in file.inHead, Pos(e) < Pos(d)
      PROVE  IF e = Container /\ IsMember(d) THEN HS(e) + 1 <= HL(d) /\ HE(d) <= HB
                                             ELSE HE(e) <= HL(d)
  BY <1>2, <1>5, HeadLaid
<1>6. start \in Nat /\ HL(e) <= start /\ start <= HS(e)
  BY <1>2
<1>7. ~IsMember(Container)
  BY SymbolsAssumption DEF IsMember
<1> HIDE DEF P
<1>8. ASSUME IsMember(u), Container \in Both, NEW a \in Both, IsMember(a), P = HL(a)
      PROVE  Clear(e, start, P)
  <2>1. HS(Container) + 1 <= HL(a)
    <3>1. Pos(Container) < Pos(a)
      BY <1>1, <1>8, PosOrder, HeadBounds
    <3>2. HS(Container) < HL(a)
      BY <1>1, <1>8, <3>1, HeadLaid
    <3> QED BY <1>1, <1>2, <1>8, <3>2
  <2>2. P <= start => \E n \in 1..start : head[n] # NL
    <3>1. P <= start => HS(Container) + 1 <= start
      BY <1>1, <1>2, <1>6, <1>8, <2>1
    <3> QED BY <1>1, <1>2, <1>6, <1>8, <3>1, After
  <2>3. P <= start \/ HE(e) <= P
    <3>1. CASE a = e
      BY <1>1, <1>2, <1>8, <3>1
    <3>2. CASE a # e /\ Pos(a) < Pos(e)
      BY <1>1, <1>2, <1>4, <1>6, <1>7, <1>8, <3>2
    <3>3. CASE a # e /\ Pos(e) < Pos(a)
      BY <1>1, <1>2, <1>5, <1>6, <1>8, <3>3
    <3> QED BY <1>1, <1>3, <3>1, <3>2, <3>3
  <2> QED BY <2>2, <2>3 DEF Clear
<1>9. ASSUME IsMember(u), Container \in Both, P = HB PROVE Clear(e, start, P)
  <2>1. Container \in file.inHead /\ e # Container
    BY <1>1, <1>9
  <2>2. P <= start => \E n \in 1..start : head[n] # NL
    <3>1. P <= start => HS(Container) + 1 <= start
      BY <1>2, <1>6, <1>9, <2>1
    <3> QED BY <1>2, <1>6, <2>1, <3>1, After
  <2>3. P <= start \/ HE(e) <= P
    <3>1. CASE Pos(Container) < Pos(e)
      BY <1>2, <1>4, <1>6, <1>9, <2>1, <3>1
    <3>2. CASE Pos(e) < Pos(Container)
      BY <1>2, <1>5, <1>6, <1>7, <1>9, <2>1, <3>2
    <3> QED BY <1>3, <2>1, <3>1, <3>2
  <2> QED BY <2>2, <2>3 DEF Clear
<1>10. ASSUME NEW b \in Both, P = HE(b) PROVE Clear(e, start, P)
  <2>1. b \in file.inHead
    BY <1>1
  <2>2. P <= start => \E n \in 1..start : head[n] # NL
    BY <1>2, <1>6, <1>10, <2>1, After
  <2>3. P <= start \/ HE(e) <= P
    <3>1. CASE b = e
      BY <1>2, <1>10, <3>1
    <3>2. CASE b # e /\ Pos(b) < Pos(e)
      BY <1>2, <1>4, <1>6, <1>10, <2>1, <3>2
    <3>3. CASE b # e /\ Pos(e) < Pos(b) /\ ~(e = Container /\ IsMember(b))
      BY <1>2, <1>5, <1>6, <1>10, <2>1, <3>3
    <3>4. CASE Pos(e) < Pos(b) /\ e = Container /\ IsMember(b)
      <4>1. HS(e) < P /\ P <= HE(e)
        BY <1>2, <1>5, <1>10, <2>1, <3>4
      <4>2. ~(HS(e) < P /\ P < HE(e))
        BY <3>4 DEF LandsInside, NewIn, OnlyWork, P, HS, HE
      <4> QED BY <1>1, <1>2, <4>1, <4>2
    <3> QED BY <1>3, <2>1, <3>1, <3>2, <3>3, <3>4
  <2> QED BY <2>2, <2>3 DEF Clear
<1>11. ASSUME NEW a \in Both, P = HS(a), IsMember(a) => Container \notin file.inHead
       PROVE  Clear(e, start, P)
  <2>1. a \in file.inHead /\ ~(e = Container /\ IsMember(a))
    BY <1>1, <1>11
  <2>2. CASE a = e
    BY <1>1, <1>2, <1>11, <2>2 DEF Clear
  <2>3. CASE a # e /\ Pos(a) < Pos(e)
    <3>1. P + 1 <= start
      BY <1>2, <1>4, <1>6, <1>11, <2>1, <2>3
    <3>2. \E n \in 1..start : head[n] # NL
      BY <1>2, <1>6, <1>11, <2>1, <3>1, After
    <3> QED BY <1>1, <1>6, <3>1, <3>2 DEF Clear
  <2>4. CASE a # e /\ Pos(e) < Pos(a)
    <3>1. HE(e) <= P /\ start < P
      BY <1>2, <1>5, <1>6, <1>11, <2>1, <2>4
    <3> QED BY <1>1, <1>6, <3>1 DEF Clear
  <2> QED BY <1>3, <2>1, <2>2, <2>3, <2>4
<1>12. ASSUME P = Len(head) PROVE Clear(e, start, P)
  <2>1. HE(e) <= P /\ start < P
    BY <1>1, <1>2, <1>6, <1>12
  <2> QED BY <1>1, <1>6, <2>1 DEF Clear
<1>13. Placed(u, P)
  BY InsertionPlaced DEF P
<1>14. Clear(e, start, P)
  BY <1>8, <1>9, <1>10, <1>11, <1>12, <1>13 DEF Placed
<1> QED BY <1>14 DEF P

-----------------------------------------------------------------------------
(* Where the insertion points are to the declarations of both texts, and to *)
(* each other.                                                             *)

\* Of some declarations one comes first.
LEMMA SuccExists ==
  ASSUME file \in Files, NEW u, NEW a, a \in Later(u)
  PROVE  \E t \in Both : Succ(u, t)
<1> DEFINE T == {Pos(x) : x \in Later(u)}
<1>1. Both \subseteq Symbols /\ Later(u) \subseteq Both
  BY FilesAssumption DEF Both, FileType, Later
<1>2. \A x \in Later(u) : Pos(x) \in Nat
  BY <1>1, PosOrder
<1>3. T \subseteq Nat /\ T # {}
  BY <1>2
<1> HIDE DEF T
<1>4. PICK n \in T : \A m \in T : n <= m
  BY <1>3, LeastNat
<1>5. PICK t \in Later(u) : Pos(t) = n
  BY <1>4 DEF T
<1>6. \A x \in Later(u) : Pos(t) <= Pos(x)
  BY <1>4, <1>5 DEF T
<1> QED BY <1>1, <1>5, <1>6 DEF Succ

\* The nearest on each side is one.
LEMMA NearestOne ==
  ASSUME file \in Files, NEW u
  PROVE  /\ \A x, y : Prev(u, x) /\ Prev(u, y) => x = y
         /\ \A x, y : Succ(u, x) /\ Succ(u, y) => x = y
<1>1. Both \subseteq Symbols
  BY FilesAssumption DEF Both, FileType
<1>2. ASSUME NEW x, NEW y, Prev(u, x), Prev(u, y) PROVE x = y
  <2>1. x \in Symbols /\ y \in Symbols /\ Pos(x) <= Pos(y) /\ Pos(y) <= Pos(x)
    BY <1>1, <1>2 DEF Prev, Earlier
  <2>2. Pos(x) \in Nat /\ Pos(y) \in Nat /\ (x = y \/ Pos(x) < Pos(y) \/ Pos(y) < Pos(x))
    BY <2>1, PosOrder
  <2> QED BY <2>1, <2>2
<1>3. ASSUME NEW x, NEW y, Succ(u, x), Succ(u, y) PROVE x = y
  <2>1. x \in Symbols /\ y \in Symbols /\ Pos(x) <= Pos(y) /\ Pos(y) <= Pos(x)
    BY <1>1, <1>3 DEF Succ, Later
  <2>2. Pos(x) \in Nat /\ Pos(y) \in Nat /\ (x = y \/ Pos(x) < Pos(y) \/ Pos(y) < Pos(x))
    BY <2>1, PosOrder
  <2> QED BY <2>1, <2>2
<1> QED BY <1>2, <1>3

\* What stands between the container and a member in the worktree is a member.
LEMMA Inside ==
  ASSUME file \in Files, head = HeadText(file), file.style # "sections"
  PROVE  \A x, y \in file.inWork :
           IsMember(y) /\ Pos(Container) < Pos(x) /\ Pos(x) < Pos(y) => IsMember(x)
  BY NoneBetween, BothTexts

\* The bounds of two declarations of HEAD, the first before the second.
Stands(d, e) ==
  /\ HS(d) \in Nat /\ HE(d) \in Nat /\ HL(e) \in Nat /\ HS(e) \in Nat /\ HE(e) \in Nat
  /\ HS(d) < HE(d) /\ HL(e) <= HS(e) /\ HS(e) < HE(e)
  /\ HS(d) < HL(e) /\ HS(d) < HS(e)
  /\ ~(d = Container /\ IsMember(e)) => HE(d) <= HL(e) /\ HE(d) <= HS(e)
  /\ d = Container => /\ HB \in Nat /\ HS(d) < HB /\ HB <= HE(d)
                      /\ IsMember(e) => HE(e) <= HB
                      /\ ~IsMember(e) => HB <= HS(e)

LEMMA HeadStands ==
  ASSUME file \in Files, head = HeadText(file), file.style # "sections"
  PROVE  \A d, e \in file.inHead : Pos(d) < Pos(e) => Stands(d, e)
<1>1. ASSUME NEW d \in file.inHead, NEW e \in file.inHead, Pos(d) < Pos(e)
      PROVE  Stands(d, e)
  <2>1. /\ HS(d) \in Nat /\ HE(d) \in Nat /\ HS(d) < HE(d)
        /\ d = Container => HB \in Nat /\ HS(d) < HB /\ HB <= HE(d)
    BY HeadBounds
  <2>2. /\ HL(e) \in Nat /\ HS(e) \in Nat /\ HE(e) \in Nat
        /\ HL(e) <= HS(e) /\ HS(e) < HE(e)
    BY HeadBounds
  <2>3. IF d = Container /\ IsMember(e) THEN HS(d) < HL(e) /\ HE(e) <= HB
                                        ELSE HE(d) <= HL(e)
    BY <1>1, HeadLaid
  <2> QED BY <2>1, <2>2, <2>3 DEF Stands
<1> QED BY <1>1

\* After all that both texts have before it, ...
LEMMA PointAfter ==
  ASSUME file \in Files, head = HeadText(file), file.style # "sections",
         NEW u, NewIn(u), NEW b \in Both, Pos(b) < Pos(u)
  PROVE  HS(b) + 1 <= InsertionPoint(u)
<1> DEFINE P == InsertionPoint(u)
<1>1. Pointed(u, P)
  BY InsertionPointed
<1> HIDE DEF P
<1>2. /\ b \in Earlier(u) /\ b \in file.inHead /\ Both \subseteq file.inHead
      /\ Both \subseteq Symbols
  BY FilesAssumption DEF Earlier, Both, FileType
<1>3. PICK s \in Both :
       /\ Prev(u, s)
       /\ IF s = Container /\ IsMember(u)
            THEN \/ \E t \in Both : Succ(u, t) /\ IsMember(t) /\ P = HL(t)
                 \/ P = HB /\ \A t \in Both : Succ(u, t) => ~IsMember(t)
            ELSE P = HE(s)
  BY <1>1, <1>2 DEF Pointed
<1>4. s \in file.inHead /\ Pos(b) <= Pos(s) /\ Pos(s) < Pos(u)
  BY <1>2, <1>3 DEF Prev, Earlier
<1>5. /\ HS(s) \in Nat /\ HE(s) \in Nat /\ HS(s) < HE(s) /\ HS(b) \in Nat
      /\ s = Container => HB \in Nat /\ HS(s) < HB
  BY <1>2, <1>4, HeadBounds
<1>6. HS(b) <= HS(s)
  <2>1. b = s \/ Pos(b) < Pos(s)
    <3>1. Pos(b) \in Nat /\ Pos(s) \in Nat /\ (b = s \/ Pos(b) < Pos(s) \/ Pos(s) < Pos(b))
      BY <1>2, PosOrder
    <3> QED BY <1>4, <3>1
  <2>2. CASE b = s
    BY <1>5, <2>2
  <2>3. CASE Pos(b) < Pos(s)
    <3>1. Stands(b, s)
      BY <1>2, <1>4, <2>3, HeadStands
    <3> QED BY <3>1 DEF Stands
  <2> QED BY <2>1, <2>2, <2>3
<1>7. HS(s) + 1 <= P
  <2>1. ASSUME NEW t \in Both, Succ(u, t), P = HL(t) PROVE HS(s) + 1 <= P
    <3>1. t \in file.inHead /\ Pos(s) < Pos(t)
      <4>1. /\ t \in file.inHead /\ Pos(u) < Pos(t) /\ t \in Symbols /\ u \in Symbols
            /\ s \in Symbols
        BY <1>2, <2>1, FilesAssumption DEF Succ, Later, NewIn, FileType
      <4>2. Pos(t) \in Nat /\ Pos(u) \in Nat /\ Pos(s) \in Nat
        BY <4>1, PosOrder
      <4> QED BY <1>4, <4>1, <4>2
    <3>2. Stands(s, t)
      BY <1>4, <3>1, HeadStands
    <3> QED BY <2>1, <3>2 DEF Stands
  <2>2. CASE s = Container /\ IsMember(u) /\ P = HB
    BY <1>5, <2>2
  <2>3. CASE P = HE(s)
    BY <1>5, <2>3
  <2> QED BY <1>3, <2>1, <2>2, <2>3
<1>8. P \in Nat
  <2>1. P \in 0..Len(head) /\ Len(head) \in Nat
    BY InsertionWithin, Extents, LenProperties DEF P
  <2> QED BY <2>1
<1>9. HS(b) + 1 <= P
  BY <1>5, <1>6, <1>7, <1>8
<1> QED BY <1>9 DEF P

\* ... before all they have after it, ...
LEMMA PointBefore ==
  ASSUME file \in Files, head = HeadText(file), file.style # "sections",
         NEW u, NewIn(u), NEW a \in Both, Pos(u) < Pos(a)
  PROVE  InsertionPoint(u) <= HS(a)
<1> DEFINE P == InsertionPoint(u)
<1>1. Pointed(u, P)
  BY InsertionPointed
<1> HIDE DEF P
<1>2. /\ a \in Later(u) /\ a \in file.inHead /\ Both \subseteq file.inHead
      /\ Both \subseteq Symbols /\ Both \subseteq file.inWork
      /\ u \in file.inWork /\ u \in Symbols /\ a \in Symbols
  BY FilesAssumption DEF Later, Both, FileType, NewIn
<1>3. ASSUME NEW s \in Both, Prev(u, s)
      PROVE  Pos(s) < Pos(u) /\ Pos(s) < Pos(a) /\ s \in file.inHead /\ Stands(s, a)
  <2>1. /\ Pos(s) < Pos(u) /\ Pos(s) \in Nat /\ Pos(u) \in Nat /\ Pos(a) \in Nat
        /\ s \in file.inHead
    BY <1>2, <1>3, PosOrder DEF Prev, Earlier
  <2>2. Pos(s) < Pos(a)
    BY <2>1
  <2> QED BY <1>2, <2>1, <2>2, HeadStands
<1>4. ASSUME NEW t \in Both, Succ(u, t)
      PROVE  /\ HL(t) \in Nat /\ HS(t) \in Nat /\ HS(a) \in Nat
             /\ HL(t) <= HS(t) /\ HS(t) <= HS(a)
  <2>1. t \in file.inHead /\ Pos(t) <= Pos(a) /\ t \in Symbols
    BY <1>2, <1>4 DEF Succ
  <2>2. HL(t) \in Nat /\ HS(t) \in Nat /\ HL(t) <= HS(t)
    BY <2>1, HeadBounds
  <2>3. Pos(t) \in Nat /\ Pos(a) \in Nat /\ (t = a \/ Pos(t) < Pos(a) \/ Pos(a) < Pos(t))
    BY <1>2, <2>1, PosOrder
  <2>4. CASE t = a
    BY <2>2, <2>4
  <2>5. CASE Pos(t) < Pos(a)
    <3>1. Stands(t, a)
      BY <1>2, <2>1, <2>5, HeadStands
    <3> QED BY <2>2, <3>1 DEF Stands
  <2> QED BY <2>1, <2>3, <2>4, <2>5
<1>5. ASSUME NEW s \in Both, Prev(u, s), s = Container, IsMember(u), P = HB,
             \A t \in Both : Succ(u, t) => ~IsMember(t)
      PROVE  P <= HS(a)
  <2>1. PICK t \in Both : Succ(u, t)
    BY <1>2, SuccExists
  <2>2. ~IsMember(t) /\ t \in file.inWork /\ Pos(t) <= Pos(a) /\ Pos(u) < Pos(t) /\ t \in Symbols
    BY <1>2, <1>5, <2>1 DEF Succ, Later
  <2>3. Pos(s) < Pos(u) /\ Stands(s, a)
    BY <1>3, <1>5
  <2>4. ~IsMember(a)
    <3>1. /\ Pos(t) \in Nat /\ Pos(a) \in Nat /\ Pos(u) \in Nat /\ Pos(s) \in Nat
          /\ t = a \/ Pos(t) < Pos(a) \/ Pos(a) < Pos(t)
      BY <1>2, <2>2, PosOrder
    <3>2. (t = a \/ Pos(t) < Pos(a)) /\ Pos(Container) < Pos(t)
      BY <1>5, <2>2, <2>3, <3>1
    <3>3. a \in file.inWork
      BY <1>2
    <3> QED BY <2>2, <3>2, <3>3, Inside
  <2> QED BY <1>5, <2>3, <2>4 DEF Stands
<1>6. ASSUME NEW s \in Both, Prev(u, s), ~(s = Container /\ IsMember(u)), P = HE(s)
      PROVE  P <= HS(a)
  <2>1. Pos(s) < Pos(u) /\ Stands(s, a)
    BY <1>3, <1>6
  <2>2. ~(s = Container /\ IsMember(a))
    <3>1. a \in file.inWork
      BY <1>2
    <3> QED BY <1>2, <1>6, <2>1, <3>1, Inside
  <2> QED BY <1>6, <2>1, <2>2 DEF Stands
<1>7. P <= HS(a)
  BY <1>1, <1>2, <1>4, <1>5, <1>6 DEF Pointed
<1> QED BY <1>7 DEF P

\* ... and, of a member, in the container.
LEMMA PointInside ==
  ASSUME file \in Files, head = HeadText(file), file.style # "sections",
         NEW u, NewIn(u), IsMember(u)
  PROVE  HS(Container) < InsertionPoint(u) /\ InsertionPoint(u) <= HE(Container)
<1> DEFINE P == InsertionPoint(u)
<1>1. Pointed(u, P)
  BY InsertionPointed
<1>2. P \in Nat
  <2>1. P \in 0..Len(head) /\ Len(head) \in Nat
    BY InsertionWithin, Extents, LenProperties
  <2> QED BY <2>1
<1>3. /\ Both \subseteq file.inHead /\ Both \subseteq Symbols /\ Both \subseteq file.inWork
      /\ u \in file.inWork /\ u \in Symbols /\ Container \in Both /\ Container \in Symbols
  BY FilesAssumption, SymbolsAssumption DEF Both, FileType, NewIn, IsMember
<1>4. Pos(Container) < Pos(u)
  BY <1>3, PosOrder
<1>5. HS(Container) + 1 <= P
  BY <1>3, <1>4, PointAfter
<1> HIDE DEF P
<1>6. HS(Container) \in Nat /\ HE(Container) \in Nat /\ HB \in Nat /\ HB <= HE(Container)
  BY <1>3, HeadBounds
<1>7. PICK s \in Both :
       /\ Prev(u, s)
       /\ IF s = Container /\ IsMember(u)
            THEN \/ \E t \in Both : Succ(u, t) /\ IsMember(t) /\ P = HL(t)
                 \/ P = HB /\ \A t \in Both : Succ(u, t) => ~IsMember(t)
            ELSE P = HE(s)
  <2>1. Container \in Earlier(u)
    BY <1>3, <1>4 DEF Earlier
  <2> QED BY <1>1, <2>1 DEF Pointed
<1>8. Pos(Container) <= Pos(s) /\ Pos(s) < Pos(u)
  BY <1>3, <1>4, <1>7 DEF Prev, Earlier
<1>9. ASSUME NEW t \in Both, IsMember(t)
      PROVE  HL(t) \in Nat /\ HE(t) \in Nat /\ HL(t) <= HE(Container) /\ HE(t) <= HE(Container)
  <2>1. Stands(Container, t)
    <3>1. Pos(Container) < Pos(t)
      BY <1>3, <1>9, PosOrder
    <3> QED BY <1>3, <3>1, HeadStands
  <2> QED BY <1>9, <2>1 DEF Stands
<1>10. ASSUME s = Container PROVE P <= HE(Container)
  BY <1>6, <1>7, <1>9, <1>10
<1>11. ASSUME s # Container PROVE P <= HE(Container)
  <2>1. Pos(Container) < Pos(s)
    <3>1. /\ Pos(Container) \in Nat /\ Pos(s) \in Nat
          /\ s = Container \/ Pos(Container) < Pos(s) \/ Pos(s) < Pos(Container)
      BY <1>3, PosOrder
    <3> QED BY <1>8, <1>11, <3>1
  <2>2. IsMember(s)
    <3>1. s \in file.inWork
      BY <1>3
    <3> QED BY <1>3, <1>8, <2>1, <3>1, Inside
  <2> QED BY <1>7, <1>9, <1>11, <2>2
<1>12. P <= HE(Container)
  BY <1>10, <1>11
<1>13. HS(Container) < P
  BY <1>2, <1>5, <1>6
<1> QED BY <1>12, <1>13 DEF P

\* Two points go as their declarations do, and where they differ HEAD has more
\* than blanks between them.
Spaced(m, n) == m <= n /\ (m < n => \E k \in (m + 1)..n : Solid(k))

LEMMA PointsOrdered ==
  ASSUME file \in Files, head = HeadText(file), file.style # "sections",
         NEW u, NewIn(u), NEW v, NewIn(v), Pos(u) < Pos(v)
  PROVE  Spaced(InsertionPoint(u), InsertionPoint(v))
<1> DEFINE P == InsertionPoint(u)
           Q == InsertionPoint(v)
<1>1. Pointed(u, P) /\ Pointed(v, Q)
  BY InsertionPointed
<1>2. P \in Nat /\ Q \in Nat
  <2>1. P \in 0..Len(head) /\ Q \in 0..Len(head) /\ Len(head) \in Nat
    BY InsertionWithin, Extents, LenProperties
  <2> QED BY <2>1
<1>3. /\ Both \subseteq file.inHead /\ Both \subseteq Symbols /\ Both \subseteq file.inWork
      /\ u \in file.inWork /\ u \in Symbols /\ v \in file.inWork /\ v \in Symbols
      /\ u \notin Both /\ v \notin Both
  BY FilesAssumption DEF Both, FileType, NewIn
<1>4. CASE \E z \in Both : Pos(u) < Pos(z) /\ Pos(z) < Pos(v)
  <2>1. PICK z \in Both : Pos(u) < Pos(z) /\ Pos(z) < Pos(v)
    BY <1>4
  <2>2. P <= HS(z)
    BY <2>1, PointBefore
  <2>3. HS(z) + 1 <= Q
    BY <2>1, PointAfter
  <2>4. HS(z) \in Nat /\ Solid(HS(z) + 1)
    BY <1>3, HeadBounds
  <2> HIDE DEF P, Q
  <2>5. HS(z) + 1 \in (P + 1)..Q /\ P <= Q
    BY <1>2, <2>2, <2>3, <2>4
  <2>6. Spaced(P, Q)
    BY <2>4, <2>5 DEF Spaced
  <2> QED BY <2>6 DEF P, Q
<1>5. CASE ~(\E z \in Both : Pos(u) < Pos(z) /\ Pos(z) < Pos(v))
  <2>1. ASSUME NEW z \in Both
        PROVE  /\ Pos(z) < Pos(u) <=> Pos(z) < Pos(v)
               /\ Pos(u) < Pos(z) <=> Pos(v) < Pos(z)
    <3>1. /\ Pos(z) \in Nat /\ Pos(u) \in Nat /\ Pos(v) \in Nat
          /\ Pos(u) < Pos(z) \/ Pos(z) < Pos(u)
          /\ Pos(v) < Pos(z) \/ Pos(z) < Pos(v)
      BY <1>3, PosOrder
    <3> QED BY <1>5, <3>1
  <2>2. Earlier(u) = Earlier(v) /\ Later(u) = Later(v)
    BY <2>1 DEF Earlier, Later
  <2>3. \A x : (Prev(u, x) <=> Prev(v, x)) /\ (Succ(u, x) <=> Succ(v, x))
    BY <2>2 DEF Prev, Succ
  <2> HIDE DEF P, Q
  <2>4. P = Q => Spaced(P, Q)
    BY <1>2 DEF Spaced
  <2>5. ASSUME Earlier(u) = {} PROVE Spaced(P, Q)
    <3>1. P = Q
      <4>1. CASE Later(u) = {}
        <5>1. \A x : ~Succ(u, x)
          BY <4>1 DEF Succ
        <5>2. \A x : ~Prev(u, x)
          BY <2>5 DEF Prev
        <5> QED BY <1>1, <2>3, <5>1, <5>2 DEF Pointed
      <4>2. CASE Later(u) # {}
        <5>1. \A x : ~Prev(u, x)
          BY <2>5 DEF Prev
        <5>2. PICK t \in Both : Succ(u, t) /\ P = HS(t)
          BY <1>1, <4>2, <5>1 DEF Pointed
        <5>3. PICK r \in Both : Succ(v, r) /\ Q = HS(r)
          BY <1>1, <2>2, <2>3, <4>2, <5>1 DEF Pointed
        <5>4. t = r
          BY <2>3, <5>2, <5>3, NearestOne
        <5> QED BY <5>2, <5>3, <5>4
      <4> QED BY <4>1, <4>2
    <3> QED BY <2>4, <3>1
  <2>6. ASSUME Earlier(u) # {} PROVE Spaced(P, Q)
    <3>1. PICK s \in Both :
           /\ Prev(u, s)
           /\ IF s = Container /\ IsMember(u)
                THEN \/ \E t \in Both : Succ(u, t) /\ IsMember(t) /\ P = HL(t)
                     \/ P = HB /\ \A t \in Both : Succ(u, t) => ~IsMember(t)
                ELSE P = HE(s)
      BY <1>1, <2>6 DEF Pointed
    <3>2. PICK r \in Both :
           /\ Prev(v, r)
           /\ IF r = Container /\ IsMember(v)
                THEN \/ \E t \in Both : Succ(v, t) /\ IsMember(t) /\ Q = HL(t)
                     \/ Q = HB /\ \A t \in Both : Succ(v, t) => ~IsMember(t)
                ELSE Q = HE(r)
      BY <1>1, <2>2, <2>6 DEF Pointed
    <3>3. r = s
      BY <2>3, <3>1, <3>2, NearestOne
    <3>4. CASE ~(s = Container /\ IsMember(u)) /\ ~(s = Container /\ IsMember(v))
      BY <2>4, <3>1, <3>2, <3>3, <3>4
    <3>5. CASE s = Container /\ IsMember(u) /\ IsMember(v)
      <4>1. CASE P = HB /\ \A t \in Both : Succ(u, t) => ~IsMember(t)
        BY <2>3, <2>4, <3>2, <3>3, <3>5, <4>1
      <4>2. CASE \E t \in Both : Succ(u, t) /\ IsMember(t) /\ P = HL(t)
        <5>1. PICK t \in Both : Succ(u, t) /\ IsMember(t) /\ P = HL(t)
          BY <4>2
        <5>2. PICK q \in Both : Succ(v, q) /\ IsMember(q) /\ Q = HL(q)
          BY <2>3, <3>2, <3>3, <3>5, <5>1
        <5>3. t = q
          BY <2>3, <5>1, <5>2, NearestOne
        <5> QED BY <2>4, <5>1, <5>2, <5>3
      <4> QED BY <3>1, <3>5, <4>1, <4>2
    <3>6. CASE s = Container /\ ~IsMember(u) /\ IsMember(v)
      <4>1. Pos(Container) < Pos(u)
        BY <3>1, <3>6 DEF Prev, Earlier
      <4> QED BY <1>3, <3>6, <4>1, Inside
    <3>7. CASE s = Container /\ IsMember(u) /\ ~IsMember(v)
      <4>1. Q = HE(s)
        BY <3>2, <3>3, <3>7
      <4>2. HB \in Nat /\ HE(s) \in Nat /\ HB <= HE(s) /\ Solid(HE(s))
        BY <1>3, <3>7, HeadBounds
      <4>3. ASSUME NEW t \in Both, Succ(u, t), IsMember(t) PROVE FALSE
        <5>1. Pos(v) < Pos(t) /\ t \in file.inWork
          BY <1>3, <2>3, <4>3 DEF Succ, Later
        <5>2. Pos(Container) < Pos(v)
          BY <3>2, <3>3, <3>7 DEF Prev, Earlier
        <5> QED BY <1>3, <3>7, <4>3, <5>1, <5>2, Inside
      <4>4. P = HB
        BY <3>1, <3>7, <4>3
      <4>5. P < Q => Q \in (P + 1)..Q
        BY <4>1, <4>2, <4>4
      <4> QED BY <4>1, <4>2, <4>4, <4>5 DEF Spaced
    <3> QED BY <3>4, <3>5, <3>6, <3>7
  <2>7. Spaced(P, Q)
    BY <2>5, <2>6
  <2> QED BY <2>7 DEF P, Q
<1> QED BY <1>4, <1>5

-----------------------------------------------------------------------------
(* What the planner makes of a file. *)

\* A new declaration, and not one that brings its container.
Newcomer(u) == u \in file.inWork \ file.inHead /\ (IsMember(u) => Container \in file.inHead)

\* The edit of a declaration of both texts, of HEAD's alone, or of the
\* worktree's alone.
Edits(o, a) ==
  \/ a \in Both /\ o = Replacement(a)
  \/ a \in file.inHead \ file.inWork /\ o = Deletion(a)
  \/ /\ Newcomer(a) /\ o.kind = "insert" /\ o.start = InsertionPoint(a)
     /\ o.seq = WS(a) /\ o.wstart = WS(a) /\ o.wend = WE(a)
     /\ o.text = InsertionText(work, WorkExtent(a))

IsPreface(o) == ~file.headExists /\ file.preface /\ o = PrefaceInsertion

Planned(o, A) == IsPreface(o) \/ \E a \in A : Edits(o, a)

\* Every edit is of a declaration that is taken, or the preface's.  While
\* anchors are named nothing is brought along yet.
Origins ==
  file.style # "sections" =>
    \A i \in DOMAIN ops : /\ Planned(ops[i], Taken)
                          /\ pc = "plan" => \E a \in Asked : Edits(ops[i], a)

\* And all that is taken has its edit; the preface of a new file is one edit.
Complete ==
  file.style # "sections" =>
    /\ pc = "plan" => \A a \in Asked : \E i \in DOMAIN ops : Edits(ops[i], a)
    /\ pc \notin {"plan", "refused"} =>
         /\ \A a \in Taken : \E i \in DOMAIN ops : Edits(ops[i], a)
         /\ ~file.headExists /\ file.preface =>
              \E i \in DOMAIN ops : \A j \in DOMAIN ops : IsPreface(ops[j]) <=> i = j

\* What an anchor asks for.
Subject(d) == IF OnlyWork(d) THEN Widened(d) ELSE d

\* An anchor that is named becomes the edit of what it asks for.
LEMMA ClassifiedEdits ==
  ASSUME file \in Files, NEW d \in Symbols, OnlyHead(d) \/ d \in file.inWork
  PROVE  Edits(Classified(d), Subject(d))
<1>1. CASE OnlyHead(d)
  <2>1. d \in file.inHead \ file.inWork /\ Subject(d) = d /\ Classified(d) = Deletion(d)
    BY <1>1 DEF OnlyHead, OnlyWork, Subject, Classified
  <2> QED BY <2>1 DEF Edits
<1>2. CASE ~OnlyHead(d) /\ OnlyWork(d)
  <2> DEFINE w == Widened(d)
  <2>1. /\ d \in file.inWork /\ Classified(d) = Insertion(d) /\ Subject(d) = w
        /\ d \in Members => Container \in file.inWork
        /\ file.headExists \/ file.inHead = {}
    BY <1>2, FilesAssumption DEF Classified, Subject
  <2>2. Newcomer(w)
    <3>1. CASE Escalated(d)
      <4>1. w = Container /\ Container \in file.inWork /\ Container \notin file.inHead
        BY <2>1, <3>1 DEF Escalated, Widened, IsMember
      <4> QED BY <4>1, SymbolsAssumption DEF Newcomer, IsMember
    <3>2. CASE ~Escalated(d)
      <4>1. w = d /\ d \notin file.inHead /\ (IsMember(d) => Container \in file.inHead)
        BY <1>2, <2>1, <3>2 DEF Escalated, Widened, OnlyWork
      <4> QED BY <2>1, <4>1 DEF Newcomer
    <3> QED BY <3>1, <3>2
  <2> HIDE DEF w
  <2>3. /\ Insertion(d).kind = "insert" /\ Insertion(d).start = InsertionPoint(w)
        /\ Insertion(d).wstart = WS(w) /\ Insertion(d).wend = WE(w)
        /\ Insertion(d).seq = WS(w)
        /\ Insertion(d).text = InsertionText(work, WorkExtent(w))
    BY DEF Insertion, WS, WE, w
  <2> QED BY <2>1, <2>2, <2>3 DEF Edits
<1>3. CASE ~OnlyHead(d) /\ ~OnlyWork(d)
  <2>1. d \in Both /\ Subject(d) = d /\ Classified(d) = Replacement(d)
    BY <1>3 DEF Classified, OnlyHead, OnlyWork, Both, Subject
  <2> QED BY <2>1 DEF Edits
<1> QED BY <1>1, <1>2, <1>3

\* Where the edit of a comes from and goes to.
LEMMA EditsFields ==
  ASSUME file \in Files, head = HeadText(file), file.style # "sections",
         NEW o, NEW a, Edits(o, a)
  PROVE  /\ a \in Symbols
         /\ a \in file.inHead \/ a \in file.inWork
         /\ ~IsPreface(o)
         /\ a \in file.inWork => /\ o.wstart = WS(a) /\ o.wend = WE(a) /\ o.kind # "delete"
                                 /\ WS(a) \in Nat /\ WE(a) \in Nat /\ WS(a) < WE(a)
         /\ a \notin file.inWork => o.wend = 0 /\ o.kind = "delete"
         /\ a \in file.inHead => /\ o.kind # "insert" /\ o.end = HE(a)
                                 /\ o.start \in HL(a)..HS(a)
                                 /\ a \in file.inWork => o.kind = "replace" /\ o.start = HS(a)
         /\ a \notin file.inHead => o.kind = "insert" /\ Newcomer(a) /\ o.start = InsertionPoint(a)
<1>1. /\ a \in file.inHead \/ a \in file.inWork
      /\ a \in Symbols
  BY FilesAssumption DEF Edits, Both, Newcomer, FileType
<1>2. CASE a \in Both /\ o = Replacement(a)
  <2>1. a \in file.inHead /\ a \in file.inWork
    BY <1>2 DEF Both
  <2>2. /\ o.kind = "replace" /\ o.start = HS(a) /\ o.end = HE(a)
        /\ o.wstart = WS(a) /\ o.wend = WE(a)
    BY <1>2 DEF Replacement, HS, HE, WS, WE
  <2>3. HS(a) \in HL(a)..HS(a)
    BY <2>1, HeadBounds
  <2>4. WS(a) \in Nat /\ WE(a) \in Nat /\ WS(a) < WE(a)
    <3>1. work \in Seq(Tokens) /\ Len(work) \in Nat
      BY Extents, LenProperties
    <3>2. WS(a) \in Nat /\ WE(a) \in 1..Len(work) /\ WS(a) < WE(a)
      BY <2>1, WorkBounds DEF WS, WE
    <3> QED BY <3>1, <3>2
  <2>5. ~IsPreface(o)
    BY <2>2 DEF IsPreface, PrefaceInsertion
  <2> QED BY <1>1, <2>1, <2>2, <2>3, <2>4, <2>5
<1>3. CASE a \in file.inHead \ file.inWork /\ o = Deletion(a)
  <2>1. /\ o.kind = "delete" /\ o.start = LineStart(head, HS(a)) /\ o.end = HE(a)
        /\ o.wend = 0
    BY <1>3 DEF Deletion, HS, HE
  <2>2. LineStart(head, HS(a)) \in HL(a)..HS(a)
    BY <1>3, HeadBounds, LineStarts DEF HL
  <2>3. ~IsPreface(o)
    BY <2>1 DEF IsPreface, PrefaceInsertion
  <2> QED BY <1>1, <1>3, <2>1, <2>2, <2>3
<1>4. CASE /\ Newcomer(a) /\ o.kind = "insert" /\ o.start = InsertionPoint(a)
           /\ o.seq = WS(a) /\ o.wstart = WS(a) /\ o.wend = WE(a)
           /\ o.text = InsertionText(work, WorkExtent(a))
  <2>1. a \in file.inWork /\ a \notin file.inHead
    BY <1>4 DEF Newcomer
  <2>2. WS(a) \in Nat /\ WE(a) \in Nat /\ WS(a) < WE(a)
    <3>1. work \in Seq(Tokens) /\ Len(work) \in Nat
      BY Extents, LenProperties
    <3>2. WS(a) \in Nat /\ WE(a) \in 1..Len(work) /\ WS(a) < WE(a)
      BY <2>1, WorkBounds DEF WS, WE
    <3> QED BY <3>1, <3>2
  <2>3. ~IsPreface(o)
    BY <1>4, <2>2 DEF IsPreface, PrefaceInsertion
  <2> QED BY <1>1, <1>4, <2>1, <2>2, <2>3
<1> QED BY <1>2, <1>3, <1>4 DEF Edits

\* What an asked edit's text names is brought along.
LEMMA WantedIsBrought ==
  ASSUME file \in Files, head = HeadText(file), file.style # "sections",
         NEW o, NEW u \in Asked, Edits(o, u), NEW y \in Symbols, Wanted(o, y)
  PROVE  y \in Taken
<1>1. PICK x \in file.inWork :
        /\ <<x, y>> \in file.refs /\ o.wend > o.wstart
        /\ InExtent(WorkExtent(x), [start |-> o.wstart, end |-> o.wend])
  BY DEF Wanted, RefersTo
<1>2. u \in file.inWork /\ o.wstart = WS(u) /\ o.wend = WE(u)
  <2>1. ~(u \in file.inHead \ file.inWork /\ o = Deletion(u))
    BY <1>1 DEF Deletion
  <2>2. u \in file.inWork
    BY <2>1 DEF Edits, Newcomer, Both
  <2> QED BY <2>2, EditsFields
<1>3. InExtent(WorkExtent(x), WorkExtent(u))
  BY <1>1, <1>2 DEF InExtent, WS, WE
<1>4. x \in Carries(u)
  BY <1>2, <1>3, WorkNesting DEF Carries, IsMember
<1>5. OnlyWork(y) /\ ~IsMember(y)
  BY DEF Wanted
<1> QED BY <1>1, <1>2, <1>4, <1>5 DEF Brought, Taken

\* And what is brought along is named by the text of an asked edit.
LEMMA BroughtIsWanted ==
  ASSUME file \in Files, head = HeadText(file), file.style # "sections",
         \A a \in Asked : \E i \in DOMAIN ops : Edits(ops[i], a),
         NEW y \in Brought, y \notin Asked
  PROVE  y \in ReferencedSiblings /\ OnlyWork(y) /\ Subject(y) = y
<1>1. PICK u \in Asked : \E x \in Carries(u) : x \in file.inWork /\ <<x, y>> \in file.refs
  BY DEF Brought
<1>2. PICK x \in Carries(u) : x \in file.inWork /\ <<x, y>> \in file.refs
  BY <1>1
<1>3. y \in Symbols /\ OnlyWork(y) /\ ~IsMember(y) /\ y \in file.inWork
  BY DEF Brought, OnlyWork
<1>4. PICK i \in DOMAIN ops : Edits(ops[i], u)
  OBVIOUS
<1>5. u \in file.inWork
  BY <1>2, FilesAssumption DEF Carries
<1>6. ops[i].wstart = WS(u) /\ ops[i].wend = WE(u) /\ WS(u) \in Nat /\ WE(u) \in Nat /\ WS(u) < WE(u)
  BY <1>4, <1>5, EditsFields
<1>7. ASSUME NEW z \in file.inWork
      PROVE  InExtent(WorkExtent(z), [start |-> ops[i].wstart, end |-> ops[i].wend])
               <=> z = u \/ (u = Container /\ IsMember(z))
  <2>1. InExtent(WorkExtent(z), [start |-> ops[i].wstart, end |-> ops[i].wend])
               <=> InExtent(WorkExtent(z), WorkExtent(u))
    BY <1>6 DEF InExtent, WS, WE
  <2>2. CASE z = u
    BY <1>6, <2>1, <2>2 DEF InExtent, WS, WE
  <2>3. CASE z # u
    BY <1>5, <2>1, <2>3, WorkNesting
  <2> QED BY <2>2, <2>3
<1>8. x = u \/ (u = Container /\ IsMember(x))
  BY <1>2 DEF Carries, IsMember
<1>9. Wanted(ops[i], y)
  <2>1. RefersTo(ops[i], y)
    BY <1>2, <1>6, <1>7, <1>8 DEF RefersTo
  <2>2. ~InExtent(WorkExtent(y), [start |-> ops[i].wstart, end |-> ops[i].wend])
    BY <1>3, <1>7
  <2> QED BY <1>3, <2>1, <2>2 DEF Wanted
<1>10. Widened(y) = y
  BY <1>3 DEF Widened, Escalated
<1>11. y \notin named
  BY <1>3, <1>10 DEF Asked
<1> QED BY <1>3, <1>9, <1>10, <1>11 DEF ReferencedSiblings, Subject

\* The planner reads nothing but the file and HEAD's text.
LEMMA PlannedStays ==
  ASSUME file' = file, head' = head
  PROVE  /\ \A u : InsertionPoint(u)' = InsertionPoint(u)
         /\ \A o, a : Edits(o, a)' <=> Edits(o, a)
         /\ \A o : IsPreface(o)' <=> IsPreface(o)
<1>1. ASSUME NEW d
      PROVE  HeadExtent(d)' = HeadExtent(d) /\ WorkExtent(d)' = WorkExtent(d) /\ work' = work
  BY DEF HeadExtent, WorkExtent, work
<1>2. \A e : Replacement(e)' = Replacement(e)
  BY <1>1 DEF Replacement
<1>3. \A e : Deletion(e)' = Deletion(e)
  BY <1>1 DEF Deletion
<1>4. \A u : WS(u)' = WS(u) /\ WE(u)' = WE(u)
  BY <1>1 DEF WS, WE
<1>5. \A u : Newcomer(u)' <=> Newcomer(u)
  BY DEF Newcomer
<1>6. \A u : InsertionPoint(u)' = InsertionPoint(u)
  BY <1>1 DEF InsertionPoint
<1>7. \A u : InsertionText(work, WorkExtent(u))' = InsertionText(work, WorkExtent(u))
  BY <1>1 DEF InsertionText
<1>8. Both' = Both
  BY DEF Both
<1>9. \A o, a : Edits(o, a)' <=> Edits(o, a)
  BY <1>2, <1>3, <1>4, <1>5, <1>6, <1>7, <1>8 DEF Edits
<1>10. PrefaceInsertion' = PrefaceInsertion
  BY <1>1 DEF PrefaceInsertion, PrefaceEnd
<1>11. \A o : IsPreface(o)' <=> IsPreface(o)
  BY <1>10 DEF IsPreface
<1> QED BY <1>6, <1>9, <1>11

\* Naming another anchor takes nothing back.
LEMMA TakenGrows ==
  ASSUME file' = file, named \subseteq named'
  PROVE  Asked \subseteq Asked' /\ Taken \subseteq Taken'
<1>1. ASSUME NEW d
      PROVE  OnlyWork(d)' = OnlyWork(d) /\ Widened(d)' = Widened(d) /\ Carries(d)' = Carries(d)
  BY DEF OnlyWork, Widened, Escalated, Carries
<1>2. Asked \subseteq Asked'
  BY <1>1 DEF Asked
<1>3. Brought \subseteq Brought'
  BY <1>1, <1>2 DEF Brought
<1> QED BY <1>2, <1>3 DEF Taken

LEMMA TakenStays ==
  ASSUME file' = file, named' = named
  PROVE  Asked' = Asked /\ Taken' = Taken
<1>1. ASSUME NEW d
      PROVE  OnlyWork(d)' = OnlyWork(d) /\ Widened(d)' = Widened(d) /\ Carries(d)' = Carries(d)
  BY DEF OnlyWork, Widened, Escalated, Carries
<1>2. Asked' = Asked
  BY <1>1 DEF Asked
<1>3. Brought' = Brought
  BY <1>1, <1>2 DEF Brought
<1> QED BY <1>2, <1>3 DEF Taken

\* What a concatenation holds.
Joins(r, s, t) ==
  /\ \A i \in DOMAIN r : (\E j \in DOMAIN s : r[i] = s[j]) \/ \E j \in DOMAIN t : r[i] = t[j]
  /\ \A j \in DOMAIN s : \E i \in DOMAIN r : r[i] = s[j]
  /\ \A j \in DOMAIN t : \E i \in DOMAIN r : r[i] = t[j]

LEMMA ConcatHolds ==
  ASSUME NEW S, NEW s \in Seq(S), NEW t \in Seq(S)
  PROVE  s \o t \in Seq(S) /\ Joins(s \o t, s, t)
<1>1. /\ s \o t \in Seq(S) /\ Len(s \o t) = Len(s) + Len(t)
      /\ \A k \in 1..Len(s) + Len(t) :
           (s \o t)[k] = IF k <= Len(s) THEN s[k] ELSE t[k - Len(s)]
      /\ Len(s) \in Nat /\ Len(t) \in Nat
      /\ DOMAIN s = 1..Len(s) /\ DOMAIN t = 1..Len(t) /\ DOMAIN (s \o t) = 1..Len(s \o t)
  BY ConcatProperties, LenProperties
<1>2. ASSUME NEW i \in DOMAIN (s \o t)
      PROVE  \/ \E j \in DOMAIN s : (s \o t)[i] = s[j]
             \/ \E j \in DOMAIN t : (s \o t)[i] = t[j]
  <2>1. i \in 1..(Len(s) + Len(t)) /\ i \in Nat
    BY <1>1
  <2>2. CASE i <= Len(s)
    BY <1>1, <2>1, <2>2
  <2>3. CASE i > Len(s)
    <3>1. i - Len(s) \in DOMAIN t /\ (s \o t)[i] = t[i - Len(s)]
      BY <1>1, <2>1, <2>3
    <3> QED BY <3>1
  <2> QED BY <1>1, <2>1, <2>2, <2>3
<1>3. ASSUME NEW j \in DOMAIN s PROVE j \in DOMAIN (s \o t) /\ (s \o t)[j] = s[j]
  BY <1>1, <1>3
<1>4. ASSUME NEW j \in DOMAIN t
      PROVE  Len(s) + j \in DOMAIN (s \o t) /\ (s \o t)[Len(s) + j] = t[j]
  <2>1. j \in Nat /\ j >= 1 /\ j <= Len(t)
    BY <1>1, <1>4
  <2>2. /\ Len(s) + j \in 1..(Len(s) + Len(t)) /\ ~(Len(s) + j <= Len(s))
        /\ (Len(s) + j) - Len(s) = j
    BY <1>1, <2>1
  <2> QED BY <1>1, <2>2
<1>5. \A j \in DOMAIN s : \E i \in DOMAIN (s \o t) : (s \o t)[i] = s[j]
  BY <1>3
<1>6. \A j \in DOMAIN t : \E i \in DOMAIN (s \o t) : (s \o t)[i] = t[j]
  BY <1>4
<1> QED BY <1>1, <1>2, <1>5, <1>6 DEF Joins

\* A sequence of a finite set holds all of it.
LEMMA SeqsHoldAll ==
  ASSUME NEW S, IsFiniteSet(S), NEW s \in SetToSeqs(S)
  PROVE  /\ Cardinality(S) \in Nat /\ s \in [1..Cardinality(S) -> S]
         /\ \A y \in S : \E i \in DOMAIN s : s[i] = y
<1> DEFINE n == Cardinality(S)
<1>1. n \in Nat
  BY FS_CardinalityType
<1>2. s \in [1..n -> S] /\ \A i, j \in 1..n : i # j => s[i] # s[j]
  BY DEF SetToSeqs
<1>3. IsFiniteSet(1..n) /\ Cardinality(1..n) = n
  BY <1>1, FS_Interval
<1>4. s \in Injection(1..n, S)
  BY <1>2 DEF Injection, IsInjective
<1>5. s \in Surjection(1..n, S)
  BY <1>3, <1>4, FS_Injection
<1> QED BY <1>1, <1>2, <1>5 DEF Surjection

\* Naming an anchor.
LEMMA NamedPlanned ==
  ASSUME PlanInv, Origins, Complete, file.style # "sections",
         NEW d \in Symbols, PlanSymbol(d)
  PROVE  Origins' /\ Complete'
<1>1. file \in Files /\ head = HeadText(file) /\ ops \in Seq(OpOf(head))
  BY DEF PlanInv
<1>2. /\ pc = "plan" /\ pc' = pc /\ file' = file /\ head' = head
      /\ ops' = Append(ops, Classified(d)) /\ named' = named \cup {d}
      /\ OnlyHead(d) \/ d \in file.inWork
  BY DEF PlanSymbol
<1>3. Asked \subseteq Asked' /\ Asked' \subseteq Taken'
  BY <1>2, TakenGrows DEF Taken
<1>4. Asked' = Asked \cup {Subject(d)}
  <2>1. \A e : OnlyWork(e)' = OnlyWork(e) /\ Widened(e)' = Widened(e)
    BY <1>2 DEF OnlyWork, Widened, Escalated
  <2>2. Asked' = {Widened(e) : e \in (named \cup {d}) \cap {x \in Symbols : OnlyWork(x)}}
                   \cup {e \in named \cup {d} : ~OnlyWork(e)}
    BY <1>2, <2>1 DEF Asked
  <2>3. CASE OnlyWork(d)
    <3>1. {e \in named \cup {d} : ~OnlyWork(e)} = {e \in named : ~OnlyWork(e)}
      BY <2>3
    <3>2. {Widened(e) : e \in (named \cup {d}) \cap {x \in Symbols : OnlyWork(x)}}
            = {Widened(e) : e \in named \cap {x \in Symbols : OnlyWork(x)}} \cup {Widened(d)}
      BY <2>3
    <3> QED BY <2>2, <2>3, <3>1, <3>2 DEF Asked, Subject
  <2>4. CASE ~OnlyWork(d)
    <3>1. {e \in named \cup {d} : ~OnlyWork(e)} = {e \in named : ~OnlyWork(e)} \cup {d}
      BY <2>4
    <3>2. (named \cup {d}) \cap {x \in Symbols : OnlyWork(x)}
            = named \cap {x \in Symbols : OnlyWork(x)}
      BY <2>4
    <3> QED BY <2>2, <2>4, <3>1, <3>2 DEF Asked, Subject
  <2> QED BY <2>3, <2>4
<1>5. Edits(Classified(d), Subject(d))
  BY <1>1, <1>2, ClassifiedEdits
<1>6. /\ \A i \in DOMAIN ops' : ops'[i] = Classified(d) \/ (i \in DOMAIN ops /\ ops'[i] = ops[i])
      /\ \A i \in DOMAIN ops : i \in DOMAIN ops' /\ ops'[i] = ops[i]
      /\ \E i \in DOMAIN ops' : ops'[i] = Classified(d)
  <2>1. Classified(d) \in OpOf(head)
    BY <1>1, <1>2, ClassifiedIsAnEdit
  <2>2. /\ ops' \in Seq(OpOf(head)) /\ Len(ops') = Len(ops) + 1 /\ Len(ops) \in Nat
        /\ \A i \in 1..Len(ops) : ops'[i] = ops[i]
        /\ ops'[Len(ops) + 1] = Classified(d)
    BY <1>1, <1>2, <2>1, AppendProperties, LenProperties
  <2>3. DOMAIN ops' = 1..(Len(ops) + 1) /\ DOMAIN ops = 1..Len(ops)
    BY <1>1, <2>2, LenProperties
  <2>4. Len(ops) + 1 \in DOMAIN ops'
    BY <2>2, <2>3
  <2> QED BY <2>2, <2>3, <2>4
<1>7. \A i \in DOMAIN ops' : \E a \in Asked' : Edits(ops'[i], a)
  <2>1. \A i \in DOMAIN ops : \E a \in Asked' : Edits(ops[i], a)
    BY <1>2, <1>3 DEF Origins
  <2> QED BY <1>4, <1>5, <1>6, <2>1
<1>8. \A a \in Asked' : \E i \in DOMAIN ops' : Edits(ops'[i], a)
  <2>1. \A a \in Asked : \E i \in DOMAIN ops : Edits(ops[i], a)
    BY <1>2 DEF Complete
  <2>2. \A a \in Asked : \E i \in DOMAIN ops' : Edits(ops'[i], a)
    BY <1>6, <2>1
  <2> QED BY <1>4, <1>5, <1>6, <2>2
<1>9. \A o, a : Edits(o, a)' <=> Edits(o, a)
  BY <1>2, PlannedStays
<1>10. \A i \in DOMAIN ops' : \E a \in Taken' : Edits(ops'[i], a)
  BY <1>3, <1>7
<1>11. Origins'
  BY <1>7, <1>9, <1>10 DEF Origins, Planned
<1>12. Complete'
  BY <1>2, <1>8, <1>9 DEF Complete
<1> QED BY <1>11, <1>12

\* Finishing the file.
LEMMA FinishedPlanned ==
  ASSUME PlanInv, Origins, Complete, file.style # "sections", FinishFile
  PROVE  Origins' /\ Complete'
<1>1. file \in Files /\ head = HeadText(file) /\ ops \in Seq(OpOf(head))
  BY DEF PlanInv
<1>2. PICK siblings \in SetToSeqs(ReferencedSiblings) :
        ops' = ops \o [i \in DOMAIN siblings |-> Classified(siblings[i])] \o Preamble
  BY DEF FinishFile
<1> DEFINE more == [i \in DOMAIN siblings |-> Classified(siblings[i])]
           base == ops \o more
<1>3. pc = "plan" /\ pc' = "coalesce" /\ UNCHANGED <<file, named, head>>
  BY DEF FinishFile
<1>4. ReferencedSiblings \subseteq Symbols /\ IsFiniteSet(ReferencedSiblings)
  <2>1. ReferencedSiblings \subseteq Symbols
    BY <1>1, FilesAssumption DEF ReferencedSiblings, FileType
  <2> QED BY <2>1, SymbolsAssumption, FS_Subset
<1>5. /\ Cardinality(ReferencedSiblings) \in Nat
      /\ siblings \in [1..Cardinality(ReferencedSiblings) -> ReferencedSiblings]
      /\ \A y \in ReferencedSiblings : \E i \in DOMAIN siblings : siblings[i] = y
  BY <1>4, SeqsHoldAll
<1>6. ASSUME NEW y \in ReferencedSiblings
      PROVE  /\ Classified(y) \in OpOf(head)
             /\ y \in Taken /\ Edits(Classified(y), y)
  <2>1. PICK i \in DOMAIN ops : Wanted(ops[i], y)
    BY DEF ReferencedSiblings
  <2>2. /\ y \in file.inWork /\ y \in Symbols /\ Subject(y) = y
    BY <1>4, <2>1 DEF ReferencedSiblings, Wanted, Subject, Widened, Escalated
  <2>3. PICK u \in Asked : Edits(ops[i], u)
    BY <1>3 DEF Origins
  <2>4. y \in Taken
    BY <1>1, <2>1, <2>2, <2>3, WantedIsBrought
  <2>5. Edits(Classified(y), Subject(y))
    BY <1>1, <2>2, ClassifiedEdits
  <2>6. Classified(y) \in OpOf(head)
    BY <1>1, <2>2, ClassifiedIsAnEdit
  <2> QED BY <2>2, <2>4, <2>5, <2>6
<1>7. more \in Seq(OpOf(head)) /\ DOMAIN more = DOMAIN siblings
  <2>1. more \in [1..Cardinality(ReferencedSiblings) -> OpOf(head)]
    BY <1>5, <1>6
  <2> HIDE DEF more
  <2>2. more \in Seq(OpOf(head))
    BY <1>5, <2>1, SeqDef
  <2> QED BY <2>2 DEF more
<1>8. \A i \in DOMAIN more : \E y \in ReferencedSiblings : more[i] = Classified(y)
  BY <1>5
<1>9. \A y \in ReferencedSiblings : \E i \in DOMAIN more : more[i] = Classified(y)
  BY <1>5
<1>10. Preamble \in Seq(OpOf(head))
  BY <1>1, PreambleIsEdits
<1>11. ops' = base \o Preamble
  BY <1>2
<1> HIDE DEF more
<1>12. base \in Seq(OpOf(head)) /\ Joins(base, ops, more)
  BY <1>1, <1>7, ConcatHolds
<1> HIDE DEF base
<1>13. Joins(ops', base, Preamble)
  BY <1>10, <1>11, <1>12, ConcatHolds
<1>14. \A i \in DOMAIN base : \E a \in Taken : Edits(base[i], a)
  <2>1. \A j \in DOMAIN ops : \E a \in Taken : Edits(ops[j], a)
    BY <1>3 DEF Origins, Taken
  <2>2. \A j \in DOMAIN more : \E a \in Taken : Edits(more[j], a)
    BY <1>6, <1>8
  <2> QED BY <1>12, <2>1, <2>2 DEF Joins
<1>15. \A i \in DOMAIN ops' : Planned(ops'[i], Taken)
  <2>1. \A j \in DOMAIN Preamble : IsPreface(Preamble[j])
    BY DEF Preamble, IsPreface
  <2> QED BY <1>13, <1>14, <2>1 DEF Planned, Joins
<1>16. \A a \in Taken : \E i \in DOMAIN ops' : Edits(ops'[i], a)
  <2>1. ASSUME NEW a \in Taken PROVE \E i \in DOMAIN base : Edits(base[i], a)
    <3>0. \A b \in Asked : \E i \in DOMAIN ops : Edits(ops[i], b)
      BY <1>3 DEF Complete
    <3>1. CASE a \in Asked
      <4>1. \E j \in DOMAIN ops : Edits(ops[j], a)
        BY <3>0, <3>1
      <4> QED BY <1>12, <4>1 DEF Joins
    <3>2. CASE a \in Brought /\ a \notin Asked
      <4>1. a \in ReferencedSiblings
        BY <1>1, <3>0, <3>2, BroughtIsWanted
      <4> QED BY <1>6, <1>9, <1>12, <4>1 DEF Joins
    <3> QED BY <3>1, <3>2 DEF Taken
  <2> QED BY <1>13, <2>1 DEF Joins
<1>17. ASSUME ~file.headExists, file.preface
       PROVE  \E i \in DOMAIN ops' : \A j \in DOMAIN ops' : IsPreface(ops'[j]) <=> i = j
  <2>1. Preamble = <<PrefaceInsertion>>
    BY <1>17 DEF Preamble
  <2>2. /\ Len(base) \in Nat /\ DOMAIN base = 1..Len(base)
        /\ Len(Preamble) = 1 /\ Preamble[1] = PrefaceInsertion
        /\ ops' \in Seq(OpOf(head)) /\ Len(ops') = Len(base) + 1
        /\ \A k \in 1..(Len(base) + Len(Preamble)) :
             ops'[k] = IF k <= Len(base) THEN base[k] ELSE Preamble[k - Len(base)]
    <3>1. Len(Preamble) = 1 /\ Preamble[1] = PrefaceInsertion
      BY <2>1
    <3>2. /\ base \o Preamble \in Seq(OpOf(head))
          /\ Len(base \o Preamble) = Len(base) + Len(Preamble)
          /\ \A k \in 1..(Len(base) + Len(Preamble)) :
               (base \o Preamble)[k] = IF k <= Len(base) THEN base[k] ELSE Preamble[k - Len(base)]
      BY <1>10, <1>12, ConcatProperties
    <3>3. Len(base) \in Nat /\ DOMAIN base = 1..Len(base)
      BY <1>12, LenProperties
    <3> QED BY <1>11, <3>1, <3>2, <3>3
  <2>3. DOMAIN ops' = 1..(Len(base) + 1)
    BY <2>2, LenProperties
  <2>4. \A k \in 1..Len(base) : ops'[k] = base[k]
    BY <2>2
  <2>5. ops'[Len(base) + 1] = PrefaceInsertion
    <3>1. Len(base) + 1 \in 1..(Len(base) + Len(Preamble)) /\ ~(Len(base) + 1 <= Len(base))
          /\ (Len(base) + 1) - Len(base) = 1
      BY <2>2
    <3> QED BY <2>2, <3>1
  <2>6. \A k \in 1..Len(base) : ~IsPreface(ops'[k])
    BY <1>1, <1>14, <2>2, <2>4, EditsFields
  <2>7. IsPreface(ops'[Len(base) + 1])
    BY <1>17, <2>5 DEF IsPreface
  <2>8. \A j \in DOMAIN ops' : IsPreface(ops'[j]) <=> Len(base) + 1 = j
    BY <2>2, <2>3, <2>6, <2>7
  <2>9. Len(base) + 1 \in DOMAIN ops'
    BY <2>2, <2>3
  <2> QED BY <2>8, <2>9
<1>18. /\ \A o, a : Edits(o, a)' <=> Edits(o, a)
       /\ \A o : IsPreface(o)' <=> IsPreface(o)
       /\ Taken' = Taken
  BY <1>3, PlannedStays, TakenStays
<1>19. Origins'
  BY <1>3, <1>15, <1>18 DEF Origins, Planned
<1>20. Complete'
  BY <1>3, <1>16, <1>17, <1>18 DEF Complete
<1> QED BY <1>19, <1>20

\* Every edit is of what is taken, and all that is taken is edited, whatever
\* step is made.
LEMMA PlannedStep ==
  ASSUME PlanInv, Origins, Complete, [Next]_vars
  PROVE  Origins' /\ Complete'
<1>1. ASSUME UNCHANGED <<file, named, head, ops>>, pc' = "plan" => pc = "plan",
             pc' \notin {"plan", "refused"} => pc \notin {"plan", "refused"}
      PROVE  Origins' /\ Complete'
  <2>1. /\ \A o, a : Edits(o, a)' <=> Edits(o, a)
        /\ \A o : IsPreface(o)' <=> IsPreface(o)
        /\ Taken' = Taken /\ Asked' = Asked
    BY <1>1, PlannedStays, TakenStays
  <2>2. Origins'
    BY <1>1, <2>1 DEF Origins, Planned
  <2>3. Complete'
    BY <1>1, <2>1 DEF Complete
  <2> QED BY <2>2, <2>3
<1>2. file' = file
  BY DEF Next, PlanSymbol, FinishFile, Refuse, Apply, InheritEOF, Finished, vars
<1>3. CASE file.style = "sections"
  BY <1>2, <1>3 DEF Origins, Complete
<1>4. CASE file.style # "sections"
  <2>1. ASSUME Refuse \/ Apply \/ InheritEOF \/ Finished \/ UNCHANGED vars
        PROVE  /\ UNCHANGED <<file, named, head, ops>> /\ (pc' = "plan" => pc = "plan")
               /\ pc' \notin {"plan", "refused"} => pc \notin {"plan", "refused"}
    BY <2>1 DEF Refuse, Apply, InheritEOF, Finished, vars, spliceVars, ApplyEdits, Coalesce,
       Coalesced, MergeTies, Merged, Splice, Panic, AllSpliced
  <2> QED BY <1>1, <1>4, <2>1, NamedPlanned, FinishedPlanned DEF Next
<1> QED BY <1>3, <1>4

-----------------------------------------------------------------------------
(* The edits are tidy. *)

\* A kept range is of a declaration of HEAD: it ends where that ends, starts on
\* its line, and replaces it only when the worktree has it too.
LEMMA RangeOfKept ==
  ASSUME file \in Files, head = HeadText(file), file.style # "sections",
         NEW A, NEW o, Planned(o, A), o.kind # "insert"
  PROVE  \E e \in file.inHead :
           /\ o.end = HE(e) /\ o.start \in HL(e)..HS(e)
           /\ e \in file.inWork =>
                /\ o.kind = "replace" /\ o.start = HS(e)
                /\ o.wstart = WS(e) /\ o.wend = WE(e)
                /\ o.text = SubSeq(work, WS(e) + 1, WE(e))
           /\ o.kind = "replace" => e \in file.inWork
<1>1. PICK e : Edits(o, e)
  BY DEF Planned, IsPreface, PrefaceInsertion
<1>2. /\ e \in file.inHead
      /\ o.end = HE(e) /\ o.start \in HL(e)..HS(e)
      /\ e \in file.inWork => /\ o.kind = "replace" /\ o.start = HS(e)
                              /\ o.wstart = WS(e) /\ o.wend = WE(e)
      /\ e \notin file.inWork => o.kind = "delete"
  BY <1>1, EditsFields
<1>3. e \in file.inWork => o.text = SubSeq(work, WS(e) + 1, WE(e))
  BY <1>1 DEF Edits, Replacement, Newcomer, WS, WE
<1> QED BY <1>2, <1>3

\* What is kept of the anchors' edits is tidy and grounded.
LEMMA KeptIsTidy ==
  ASSUME file \in Files, head = HeadText(file), file.style # "sections",
         file.headExists, ~Misplaced, KeptOnce,
         \A i \in DOMAIN kept : Planned(kept[i], Taken)
  PROVE  KeptTidy /\ KeptGrounded
<1>1. ASSUME NEW i \in DOMAIN kept, kept[i].kind # "insert"
      PROVE  /\ head[kept[i].end] # NL
             /\ kept[i].kind = "replace" => kept[i].text # <<>> /\ ~EndsInNL(kept[i].text)
             /\ \A j \in DOMAIN kept : kept[j].kind = "insert" =>
                  /\ kept[j].start <= kept[i].start \/ kept[i].end <= kept[j].start
                  /\ kept[i].kind = "delete" /\ kept[j].start <= kept[i].start =>
                       \E n \in 1..kept[i].start : head[n] # NL
  <2> DEFINE o == kept[i]
  <2>1. PICK e \in file.inHead :
           /\ o.end = HE(e) /\ o.start \in HL(e)..HS(e)
           /\ e \in file.inWork =>
                /\ o.kind = "replace" /\ o.start = HS(e)
                /\ o.wstart = WS(e) /\ o.wend = WE(e)
                /\ o.text = SubSeq(work, WS(e) + 1, WE(e))
           /\ o.kind = "replace" => e \in file.inWork
    BY <1>1, RangeOfKept
  <2>2. head[o.end] # NL
    BY <2>1, HeadBounds DEF Solid
  <2>3. ASSUME o.kind = "replace" PROVE o.text # <<>> /\ ~EndsInNL(o.text)
    <3>1. /\ WS(e) \in Nat /\ WE(e) \in 1..Len(work) /\ WS(e) < WE(e)
          /\ work[WE(e)] # NL /\ o.text = SubSeq(work, WS(e) + 1, WE(e))
      BY <2>1, <2>3, WorkBounds DEF WS, WE
    <3>2. work \in Seq(Tokens) /\ Len(work) \in Nat
      BY Extents, LenProperties
    <3> QED BY <3>1, <3>2, PieceEnds
  <2>4. ASSUME NEW j \in DOMAIN kept, kept[j].kind = "insert"
        PROVE  Clear(e, o.start, kept[j].start)
    <3>0. PICK u \in Taken : Edits(kept[j], u)
      BY DEF Planned, IsPreface
    <3>1. /\ NewIn(u) /\ kept[j].start = InsertionPoint(u)
          /\ kept[j].wstart = WS(u) /\ kept[j].wend = WE(u)
      BY <2>4, <3>0 DEF Edits, Replacement, Deletion, Newcomer, NewIn
    <3>2. ASSUME e = Container, IsMember(u) PROVE FALSE
      <4>1. Container \in file.inWork /\ u \in file.inWork /\ u # Container
        BY <3>1, <3>2, FilesAssumption, SymbolsAssumption DEF NewIn, IsMember
      <4>2. /\ o.kind = "replace" /\ o.wstart = WS(e) /\ o.wend = WE(e)
        BY <2>1, <3>2, <4>1
      <4>3. WS(e) <= WS(u) /\ WE(u) <= WE(e)
        BY <3>2, <4>1, WorkNesting DEF InExtent, WS, WE
      <4>4. WS(u) < WE(u)
        BY <4>1, WorkBounds DEF WS, WE
      <4>5. CarriedBy(kept[j], o)
        BY <3>1, <4>2, <4>3, <4>4 DEF CarriedBy
      <4> QED BY <1>1, <2>4, <4>5 DEF KeptOnce
    <3>3. ~LandsInside(u)
      BY <3>1 DEF Misplaced
    <3>4. e \in file.inWork => o.start = HS(e)
      BY <2>1
    <3> HIDE DEF o
    <3> QED BY <2>1, <3>1, <3>2, <3>3, <3>4, InsertionClear
  <2>5. o.kind = "delete" => e \notin file.inWork
    BY <2>1
  <2> QED BY <2>1, <2>2, <2>3, <2>4, <2>5 DEF Clear
<1> QED BY <1>1 DEF KeptTidy, KeptGrounded

\* Two insertions go as their declarations do.
LEMMA KeptIsSpaced ==
  ASSUME file \in Files, head = HeadText(file), file.style # "sections",
         \A i \in DOMAIN kept : Planned(kept[i], Taken)
  PROVE  KeptSpaced
<1>1. ASSUME NEW i \in DOMAIN kept, NEW j \in DOMAIN kept,
             kept[i].kind = "insert", kept[j].kind = "insert", kept[i].start < kept[j].start
      PROVE  \E n \in (kept[i].start + 1)..kept[j].start : head[n] # NL
  <2>1. ASSUME NEW n \in DOMAIN kept, kept[n].kind = "insert"
        PROVE  \/ kept[n].start = 0 /\ ~file.headExists
               \/ \E u \in Symbols : NewIn(u) /\ kept[n].start = InsertionPoint(u)
    <3>1. CASE IsPreface(kept[n])
      BY <3>1 DEF IsPreface, PrefaceInsertion
    <3>2. CASE \E u \in Taken : Edits(kept[n], u)
      <4>1. PICK u \in Taken : Edits(kept[n], u)
        BY <3>2
      <4>2. u \in Symbols /\ Newcomer(u) /\ kept[n].start = InsertionPoint(u)
        BY <2>1, <4>1, EditsFields
      <4>3. ~file.headExists => InsertionPoint(u) = 0
        BY DEF InsertionPoint
      <4> QED BY <4>2, <4>3 DEF NewIn, Newcomer
    <3> QED BY <3>1, <3>2 DEF Planned
  <2>2. file.headExists
    BY <1>1, <2>1 DEF NewIn
  <2>3. PICK u \in Symbols : NewIn(u) /\ kept[i].start = InsertionPoint(u)
    BY <1>1, <2>1, <2>2
  <2>4. PICK v \in Symbols : NewIn(v) /\ kept[j].start = InsertionPoint(v)
    BY <1>1, <2>1, <2>2
  <2>5. InsertionPoint(u) \in Nat /\ InsertionPoint(v) \in Nat
    <3>1. InsertionPoint(u) \in 0..Len(head) /\ InsertionPoint(v) \in 0..Len(head)
          /\ Len(head) \in Nat
      BY InsertionWithin, Extents, LenProperties
    <3> QED BY <3>1
  <2>6. u = v \/ Pos(u) < Pos(v) \/ Pos(v) < Pos(u)
    BY PosOrder
  <2>7. Pos(v) < Pos(u) => InsertionPoint(v) <= InsertionPoint(u)
    BY <2>3, <2>4, PointsOrdered DEF Spaced
  <2>8. Pos(u) < Pos(v)
    BY <1>1, <2>3, <2>4, <2>5, <2>6, <2>7
  <2>9. Spaced(InsertionPoint(u), InsertionPoint(v))
    BY <2>3, <2>4, <2>8, PointsOrdered
  <2>10. PICK n \in (InsertionPoint(u) + 1)..InsertionPoint(v) : Solid(n)
    BY <1>1, <2>3, <2>4, <2>9 DEF Spaced
  <2> QED BY <2>3, <2>4, <2>10 DEF Solid
<1> QED BY <1>1 DEF KeptSpaced

\* So of every file without sections the kept edits are tidy at every moment.
LEMMA TidyAlways ==
  ASSUME PlanInv, Origins, Chosen, KeptOnce, ~Misplaced, file.style # "sections"
  PROVE  KeptTidy /\ KeptGrounded /\ KeptSpaced
<1>1. file \in Files /\ head = HeadText(file)
  BY DEF PlanInv
<1>2. \A i \in DOMAIN kept : Planned(kept[i], Taken)
  <2>1. \A i \in DOMAIN kept : \E j \in DOMAIN ops : kept[i] = ops[j]
    BY DEF Chosen
  <2> QED BY <2>1 DEF Origins
<1>3. KeptSpaced
  BY <1>1, <1>2, KeptIsSpaced
<1>4. CASE file.headExists
  BY <1>1, <1>2, <1>3, <1>4, KeptIsTidy
<1>5. CASE ~file.headExists
  <2>1. file.inHead = {}
    BY <1>1, <1>5, FilesAssumption
  <2>2. \A i \in DOMAIN kept : kept[i].kind = "insert"
    BY <1>1, <1>2, <2>1, RangeOfKept
  <2> QED BY <1>3, <2>2 DEF KeptTidy, KeptGrounded
<1> QED BY <1>4, <1>5

\* The staged file's end, once the last edit is spliced.
EndsInv == ~Misplaced => EndsAsBefore

\* Whether an insertion lands in the container is settled by the anchors.
LEMMA MisplacedStays ==
  ASSUME UNCHANGED <<file, named, head>>
  PROVE  Misplaced' = Misplaced /\ work' = work
<1>1. ASSUME NEW d
      PROVE  /\ OnlyWork(d)' = OnlyWork(d)
             /\ InsertionPoint(d)' = InsertionPoint(d)
             /\ HeadExtent(d)' = HeadExtent(d)
  BY PlannedStays DEF OnlyWork, Widened, Escalated, Carries, HeadExtent
<1>2. Taken' = Taken
  BY TakenStays
<1>3. ASSUME NEW d PROVE LandsInside(d)' = LandsInside(d)
  BY <1>1 DEF LandsInside
<1> QED BY <1>2, <1>3 DEF Misplaced, work

LEMMA EndsStep ==
  ASSUME PlanInv, Origins, SpliceInv, EndsInv, [Next]_vars
  PROVE  EndsInv'
<1>1. /\ file \in Files /\ head = HeadText(file) /\ out \in Seq(Tokens)
      /\ Chosen /\ KeptOnce /\ EndInherited
  BY DEF PlanInv, SpliceInv, SpliceTypeOK
<1>2. ASSUME InheritEOF, ~Misplaced, file.style # "sections"
      PROVE  Len(out') > 0 =>
               (EndsInNL(out') <=> EndsInNL(IF file.headExists THEN head ELSE work))
  <2>1. /\ pc = "spliced"
        /\ out' = IF /\ ~file.headExists /\ Len(out) > 0
                     /\ EndsInNL(work) /\ ~EndsInNL(out)
                    THEN Append(out, NL) ELSE out
    BY <1>2 DEF InheritEOF
  <2>2. out = <<>> \/ (EndsInNL(out) <=> EndsInNL(head))
    BY <1>1, <1>2, <2>1, TidyAlways DEF EndInherited
  <2>3. CASE file.headExists
    BY <1>1, <2>1, <2>2, <2>3, EmptySeq
  <2>4. CASE ~file.headExists
    <3>1. ~EndsInNL(head)
      BY <1>1, <2>4, EmptySeq DEF HeadText, EndsInNL
    <3>2. EndsInNL(Append(out, NL))
      BY <1>1, TokensAssumption, AppendProperties, LenProperties DEF EndsInNL
    <3> QED BY <2>1, <2>2, <2>4, <3>1, <3>2, EmptySeq
  <2> QED BY <2>3, <2>4
<1>3. CASE InheritEOF
  <2>1. UNCHANGED <<file, named, head>>
    BY <1>3 DEF InheritEOF
  <2>2. Misplaced' = Misplaced /\ work' = work
    BY <2>1, MisplacedStays
  <2> QED BY <1>2, <1>3, <2>1, <2>2 DEF EndsInv, EndsAsBefore
<1>4. CASE pc' # "done"
  BY <1>4 DEF EndsInv, EndsAsBefore
<1>5. CASE UNCHANGED vars
  <2>1. UNCHANGED <<file, named, head, pc, out>>
    BY <1>5 DEF vars, spliceVars
  <2>2. Misplaced' = Misplaced /\ work' = work
    BY <2>1, MisplacedStays
  <2> QED BY <2>1, <2>2 DEF EndsInv, EndsAsBefore
<1> QED
  BY <1>3, <1>4, <1>5 DEF Next, PlanSymbol, Refuse, FinishFile, Apply, Finished, ApplyEdits,
     Coalesce, Coalesced, MergeTies, Merged, Splice, Panic, AllSpliced

-----------------------------------------------------------------------------
(* What is kept: one edit of each declaration that decides.                *)

\* The moment after the last splice, of a file without sections.
Built ==
  /\ PlanInv /\ SpliceInv /\ Origins /\ Complete
  /\ pc = "spliced" /\ file.style # "sections" /\ ~Misplaced

LEMMA BuiltMeans ==
  ASSUME Built
  PROVE  /\ file \in Files /\ head = HeadText(file) /\ file.style # "sections"
         /\ SpliceTypeOK /\ KeptDisjoint /\ KeptOnce /\ EditedBy(out, DOMAIN kept)
         /\ \A i \in DOMAIN kept : kept[i] \in OpOf(head) /\ Planned(kept[i], Taken)
         /\ \A a \in Taken : \E i \in DOMAIN ops : Edits(ops[i], a)
         /\ \A i \in DOMAIN ops : Settled(ops[i])
<1>1. /\ file \in Files /\ head = HeadText(file) /\ file.style # "sections"
      /\ SpliceTypeOK /\ KeptDisjoint /\ KeptOnce /\ Chosen /\ Accounted
      /\ pc = "spliced"
  BY DEF Built, PlanInv, SpliceInv
<1>2. EditedBy(out, DOMAIN kept)
  <2>1. AsEdited
    BY EditedAll DEF Built, SpliceInv
  <2>2. KeptTidy /\ KeptSpaced
    BY TidyAlways DEF Built, SpliceInv
  <2> QED BY <1>1, <2>1, <2>2 DEF AsEdited
<1>3. \A i \in DOMAIN kept : kept[i] \in OpOf(head)
  BY <1>1, ElementOfSeq, LenProperties DEF SpliceTypeOK
<1>4. \A i \in DOMAIN kept : Planned(kept[i], Taken)
  BY <1>1 DEF Chosen, Built, Origins
<1>5. \A a \in Taken : \E i \in DOMAIN ops : Edits(ops[i], a)
  BY <1>1 DEF Built, Complete
<1>6. \A i \in DOMAIN ops : Settled(ops[i])
  BY <1>1 DEF Accounted, Looked
<1> QED BY <1>1, <1>2, <1>3, <1>4, <1>5, <1>6

\* What is taken in its own right, not along with its container.
Deciders == {a \in Taken : Decider(a) = a}

LEMMA DecidersAre ==
  /\ Container \in Taken => Container \in Deciders
  /\ \A a \in Deciders : a \in Taken /\ (IsMember(a) => Container \notin Taken)
  /\ \A d : Decider(d) \in Taken => Decider(d) \in Deciders
  /\ \A d : \/ Decider(d) = d
            \/ Decider(d) = Container /\ IsMember(d) /\ Container \in Taken
  /\ \A a \in Taken : a \in Deciders \/ (IsMember(a) /\ Container \in Taken)
  BY SymbolsAssumption DEF Deciders, Decider, IsMember

\* Two edits of HEAD's ranges overlap only when one is in the other.
LEMMA RangesOverlap ==
  ASSUME file \in Files, head = HeadText(file), file.style # "sections",
         NEW o, NEW a \in file.inHead, Edits(o, a),
         NEW k, NEW b \in file.inHead, Edits(k, b), a # b
  PROVE  /\ Overlap(o, k) => \/ a = Container /\ IsMember(b) /\ k.end - k.start < o.end - o.start
                             \/ b = Container /\ IsMember(a)
         /\ b = Container /\ IsMember(a) => Overlap(o, k) /\ o # k
<1>1. /\ o.end = HE(a) /\ o.start \in HL(a)..HS(a) /\ a \in Symbols
      /\ k.end = HE(b) /\ k.start \in HL(b)..HS(b) /\ b \in Symbols
  BY EditsFields
<1>2. /\ HL(a) \in Nat /\ HS(a) \in Nat /\ HE(a) \in Nat /\ HS(a) < HE(a)
      /\ HL(b) \in Nat /\ HS(b) \in Nat /\ HE(b) \in Nat /\ HS(b) < HE(b)
  BY HeadBounds
<1>3. /\ o.start \in Nat /\ HL(a) <= o.start /\ o.start <= HS(a)
      /\ k.start \in Nat /\ HL(b) <= k.start /\ k.start <= HS(b)
  BY <1>1, <1>2
<1>4. /\ Pos(a) < Pos(b) \/ Pos(b) < Pos(a)
      /\ b = Container /\ IsMember(a) => Pos(b) < Pos(a)
      /\ Pos(a) \in Nat /\ Pos(b) \in Nat
  BY <1>1, PosOrder
<1>5. ~IsMember(Container)
  BY SymbolsAssumption DEF IsMember
<1>6. CASE Pos(a) < Pos(b)
  <2>1. Stands(a, b)
    BY <1>6, HeadStands
  <2>2. ~(b = Container /\ IsMember(a))
    BY <1>4, <1>6
  <2>3. CASE a = Container /\ IsMember(b)
    <3>1. HE(b) <= HB /\ HB <= HE(a) /\ HS(a) < HL(b) /\ HB \in Nat
      BY <2>1, <2>3 DEF Stands
    <3>2. k.end - k.start < o.end - o.start
      BY <1>1, <1>2, <1>3, <3>1
    <3> QED BY <2>2, <2>3, <3>2
  <2>4. CASE ~(a = Container /\ IsMember(b))
    <3>1. HE(a) <= HL(b)
      BY <2>1, <2>4 DEF Stands
    <3>2. ~(k.start < o.end)
      BY <1>1, <1>2, <1>3, <3>1
    <3> QED BY <2>2, <3>2 DEF Overlap
  <2> QED BY <2>3, <2>4
<1>7. CASE Pos(b) < Pos(a)
  <2>1. Stands(b, a)
    BY <1>7, HeadStands
  <2>2. CASE b = Container /\ IsMember(a)
    <3>1. HE(a) <= HB /\ HB <= HE(b) /\ HS(b) < HL(a) /\ HB \in Nat
      BY <2>1, <2>2 DEF Stands
    <3>2. o.start < k.end /\ k.start < o.end /\ k.start < o.start
      BY <1>1, <1>2, <1>3, <3>1
    <3>3. o # k
      BY <1>3, <3>2
    <3> QED BY <2>2, <3>2, <3>3 DEF Overlap
  <2>3. CASE ~(b = Container /\ IsMember(a))
    <3>1. HE(b) <= HL(a)
      BY <2>1, <2>3 DEF Stands
    <3>2. ~(o.start < k.end)
      BY <1>1, <1>2, <1>3, <3>1
    <3> QED BY <2>3, <3>2 DEF Overlap
  <2> QED BY <2>2, <2>3
<1> QED BY <1>4, <1>6, <1>7

\* What decides has its edit kept.
LEMMA EditKept ==
  ASSUME Built, NEW a \in Deciders
  PROVE  \E i \in DOMAIN kept : Edits(kept[i], a)
<1>1. /\ file \in Files /\ head = HeadText(file) /\ file.style # "sections"
      /\ \A i \in DOMAIN kept : Planned(kept[i], Taken)
  BY BuiltMeans
<1>2. a \in Taken /\ (IsMember(a) => Container \notin Taken)
  BY DecidersAre
<1>3. PICK n \in DOMAIN ops : Edits(ops[n], a)
  BY <1>2, BuiltMeans
<1> DEFINE o == ops[n]
<1>4. PICK j \in DOMAIN kept : kept[j] = o \/ (Swallows(kept[j], o) /\ Span(o) <= Span(kept[j]))
  BY BuiltMeans DEF Settled
<1> HIDE DEF o
<1>5. Edits(o, a)
  BY <1>3 DEF o
<1>6. SUFFICES ASSUME Swallows(kept[j], o), Span(o) <= Span(kept[j]) PROVE Edits(kept[j], a)
  BY <1>4, <1>5
<1>7. CASE IsPreface(kept[j])
  <2>1. kept[j].kind = "insert" /\ kept[j].wend = 0
    BY <1>7 DEF IsPreface, PrefaceInsertion
  <2>2. o.kind = "insert" /\ o.wend = 0
    BY <1>6, <2>1 DEF Swallows, SameInsertion
  <2>3. a \notin file.inHead /\ a \notin file.inWork
    BY <1>1, <1>5, <2>2, EditsFields
  <2> QED BY <1>1, <1>5, <2>3, EditsFields
<1>8. CASE \E b \in Taken : Edits(kept[j], b)
  <2>1. PICK b \in Taken : Edits(kept[j], b)
    BY <1>8
  <2>2. SUFFICES ASSUME a # b PROVE FALSE
    BY <2>1
  <2>3. CASE o.kind = "insert" /\ kept[j].kind = "insert"
    <3>1. a \in file.inWork /\ b \in file.inWork
      BY <1>1, <1>5, <2>1, <2>3, EditsFields
    <3>2. WS(a) = WS(b) /\ WE(a) = WE(b)
      BY <1>1, <1>5, <1>6, <2>1, <2>3, <3>1, EditsFields DEF Swallows, SameInsertion
    <3>3. InExtent(WorkExtent(a), WorkExtent(b)) /\ InExtent(WorkExtent(b), WorkExtent(a))
      <4>1. WS(a) \in Nat /\ WE(a) \in Nat
        BY <1>1, <1>5, <3>1, EditsFields
      <4> QED BY <3>2, <4>1 DEF InExtent, WS, WE
    <3>4. b = Container /\ IsMember(a) /\ a = Container
      BY <1>1, <2>2, <3>1, <3>3, WorkNesting
    <3> QED BY <2>2, <3>4
  <2>4. CASE o.kind = "insert" /\ kept[j].kind # "insert"
    <3>1. a \in file.inWork /\ a \notin file.inHead /\ CarriedBy(o, kept[j])
      BY <1>1, <1>5, <1>6, <2>4, EditsFields DEF Swallows
    <3>2. kept[j].kind = "replace" /\ WS(b) <= WS(a) /\ WE(a) <= WE(b) /\ b \in file.inWork
      BY <1>1, <1>5, <2>1, <3>1, EditsFields DEF CarriedBy
    <3>3. InExtent(WorkExtent(a), WorkExtent(b))
      BY <3>2 DEF InExtent, WS, WE
    <3>4. b = Container /\ IsMember(a)
      BY <1>1, <2>2, <3>1, <3>2, <3>3, WorkNesting
    <3> QED BY <1>2, <2>1, <3>4
  <2>5. CASE o.kind # "insert"
    <3>1. a \in file.inHead
      BY <1>1, <1>5, <2>5, EditsFields
    <3>2. kept[j].kind # "insert" /\ Overlap(o, kept[j])
      BY <1>6, <2>5 DEF Swallows
    <3>3. b \in file.inHead
      BY <1>1, <2>1, <3>2, EditsFields
    <3>4. \/ kept[j].end - kept[j].start < o.end - o.start
          \/ b = Container /\ IsMember(a)
      BY <1>1, <1>5, <2>1, <2>2, <3>1, <3>2, <3>3, RangesOverlap
    <3>5. kept[j].end - kept[j].start \in Nat /\ o.end - o.start \in Nat
      <4>1. /\ o.end = HE(a) /\ o.start \in HL(a)..HS(a)
            /\ kept[j].end = HE(b) /\ kept[j].start \in HL(b)..HS(b)
        BY <1>1, <1>5, <2>1, <3>1, <3>3, EditsFields
      <4>2. /\ HL(a) \in Nat /\ HS(a) \in Nat /\ HE(a) \in Nat /\ HS(a) < HE(a)
            /\ HL(b) \in Nat /\ HS(b) \in Nat /\ HE(b) \in Nat /\ HS(b) < HE(b)
        BY <1>1, <3>1, <3>3, HeadBounds
      <4> QED BY <4>1, <4>2
    <3>6. o.end - o.start <= kept[j].end - kept[j].start
      BY <1>6, <2>5, <3>2 DEF Span
    <3>7. b = Container /\ IsMember(a)
      BY <3>4, <3>5, <3>6
    <3> QED BY <1>2, <2>1, <3>7
  <2> QED BY <2>3, <2>4, <2>5
<1> QED BY <1>1, <1>7, <1>8 DEF Planned

\* No other edit is kept but the preface's, ...
LEMMA KeptDecides ==
  ASSUME Built, NEW i \in DOMAIN kept
  PROVE  IsPreface(kept[i]) \/ \E a \in Deciders : Edits(kept[i], a)
<1>1. /\ file \in Files /\ head = HeadText(file) /\ file.style # "sections"
      /\ Planned(kept[i], Taken) /\ KeptDisjoint /\ KeptOnce
  BY BuiltMeans
<1>2. SUFFICES ASSUME NEW a \in Taken, Edits(kept[i], a), a \notin Deciders PROVE FALSE
  BY <1>1 DEF Planned
<1>3. IsMember(a) /\ Container \in Taken /\ Container \in Deciders /\ a # Container
  BY <1>2, DecidersAre
<1>4. PICK j \in DOMAIN kept : Edits(kept[j], Container)
  BY <1>3, EditKept
<1>5. CASE a \in file.inHead /\ Container \in file.inHead
  <2>1. Overlap(kept[i], kept[j]) /\ kept[i] # kept[j]
    BY <1>1, <1>2, <1>3, <1>4, <1>5, RangesOverlap
  <2>2. kept[i].kind # "insert" /\ kept[j].kind # "insert"
    BY <1>1, <1>2, <1>4, <1>5, EditsFields
  <2>3. kept[i].end <= kept[j].start \/ kept[j].end <= kept[i].start
    BY <1>1, <2>1, <2>2 DEF KeptDisjoint
  <2>4. /\ kept[i].start \in Nat /\ kept[i].end \in Nat
        /\ kept[j].start \in Nat /\ kept[j].end \in Nat
    <3>1. kept[i] \in OpOf(head) /\ kept[j] \in OpOf(head) /\ Len(head) \in Nat
      BY BuiltMeans, LenProperties DEF SpliceTypeOK
    <3> QED BY <3>1 DEF OpOf
  <2> QED BY <2>1, <2>3, <2>4 DEF Overlap
<1>6. CASE a \notin file.inHead
  <2>1. a \in file.inWork /\ Container \in file.inHead /\ Container \in file.inWork
        /\ kept[i].kind = "insert"
    BY <1>1, <1>2, <1>3, <1>6, EditsFields, FilesAssumption DEF Newcomer, IsMember
  <2>2. kept[j].kind = "replace"
    BY <1>1, <1>4, <2>1, EditsFields
  <2>3. InExtent(WorkExtent(a), WorkExtent(Container))
    BY <1>1, <1>3, <2>1, WorkNesting
  <2>4. CarriedBy(kept[i], kept[j])
    <3>1. /\ kept[i].wstart = WS(a) /\ kept[i].wend = WE(a) /\ WS(a) \in Nat
          /\ WE(a) \in Nat /\ WS(a) < WE(a)
      BY <1>1, <1>2, <2>1, EditsFields
    <3>2. kept[j].wstart = WS(Container) /\ kept[j].wend = WE(Container)
          /\ WS(Container) \in Nat /\ WE(Container) \in Nat
      BY <1>1, <1>4, <2>1, EditsFields
    <3> QED BY <2>2, <2>3, <3>1, <3>2 DEF CarriedBy, InExtent, WS, WE
  <2>5. i # j
    BY <2>1, <2>2
  <2> QED BY <1>1, <2>1, <2>4, <2>5 DEF KeptOnce
<1>7. a \in file.inHead => Container \in file.inHead
  BY <1>1, <1>3, FilesAssumption DEF IsMember
<1> QED BY <1>5, <1>6, <1>7

\* ... each once, ...
LEMMA EditOnce ==
  ASSUME Built, NEW i \in DOMAIN kept, NEW j \in DOMAIN kept, NEW a,
         Edits(kept[i], a), Edits(kept[j], a)
  PROVE  i = j
<1>1. /\ file \in Files /\ head = HeadText(file) /\ file.style # "sections"
      /\ KeptDisjoint /\ KeptOnce
  BY BuiltMeans
<1>2. SUFFICES ASSUME i # j PROVE FALSE
  OBVIOUS
<1>3. CASE a \in file.inHead
  <2>1. /\ kept[i].kind # "insert" /\ kept[j].kind # "insert"
        /\ kept[i].end = HE(a) /\ kept[j].end = HE(a)
        /\ kept[i].start \in HL(a)..HS(a) /\ kept[j].start \in HL(a)..HS(a)
    BY <1>1, <1>3, EditsFields
  <2>2. HL(a) \in Nat /\ HS(a) \in Nat /\ HE(a) \in Nat /\ HS(a) < HE(a)
    BY <1>1, <1>3, HeadBounds
  <2>3. kept[i].end <= kept[j].start \/ kept[j].end <= kept[i].start
    BY <1>1, <1>2, <2>1 DEF KeptDisjoint
  <2> QED BY <2>1, <2>2, <2>3
<1>4. CASE a \notin file.inHead
  <2>1. /\ kept[i].kind = "insert" /\ kept[j].kind = "insert" /\ a \in file.inWork
        /\ kept[i].wstart = WS(a) /\ kept[i].wend = WE(a) /\ WS(a) < WE(a)
        /\ kept[j].wstart = WS(a) /\ kept[j].wend = WE(a)
        /\ WS(a) \in Nat /\ WE(a) \in Nat
    BY <1>1, <1>4, EditsFields
  <2>2. SameInsertion(kept[i], kept[j])
    BY <2>1 DEF SameInsertion
  <2> QED BY <1>1, <1>2, <2>1, <2>2 DEF KeptOnce
<1> QED BY <1>3, <1>4

\* ... and a new file's preface, once.
LEMMA PrefaceKept ==
  ASSUME Built, ~file.headExists, file.preface
  PROVE  \E i \in DOMAIN kept : \A j \in DOMAIN kept : IsPreface(kept[j]) <=> i = j
<1>1. PICK n \in DOMAIN ops : \A m \in DOMAIN ops : IsPreface(ops[m]) <=> n = m
  BY DEF Built, Complete
<1>2. IsPreface(ops[n]) /\ ops[n] = PrefaceInsertion
  BY <1>1 DEF IsPreface
<1>3. PICK i \in DOMAIN kept : kept[i] = ops[n] \/ Swallows(kept[i], ops[n])
  BY BuiltMeans DEF Settled
<1>4. kept[i] = ops[n]
  <2>1. ~Swallows(kept[i], ops[n])
    BY <1>2 DEF Swallows, SameInsertion, CarriedBy, PrefaceInsertion
  <2> QED BY <1>3, <2>1
<1>5. ASSUME NEW j \in DOMAIN kept, IsPreface(kept[j]), i # j PROVE FALSE
  <2>1. kept[j] = kept[i]
    BY <1>2, <1>4, <1>5 DEF IsPreface
  <2>2. Accounted /\ Looked = DOMAIN ops
    BY DEF Built, SpliceInv, Looked
  <2>3. PICK a, b \in DOMAIN ops : a # b /\ ops[a] = kept[i] /\ ops[b] = kept[i]
    BY <1>5, <2>1, <2>2 DEF Accounted
  <2>4. a = n /\ b = n
    BY <1>1, <1>2, <1>4, <2>3 DEF IsPreface
  <2> QED BY <2>3, <2>4
<1>6. \A j \in DOMAIN kept : IsPreface(kept[j]) <=> i = j
  BY <1>2, <1>4, <1>5
<1> QED BY <1>6

-----------------------------------------------------------------------------
(* What the edits take from HEAD and what they bring from the worktree.    *)

\* The tokens of the declarations are different.
LEMMA TokensApart ==
  /\ \A d, v : Own(d, v) \notin {Tab, Preface, Closing}
  /\ \A d, v, e, w : Own(d, v) = Own(e, w) => d = e /\ (v = w \/ d = Container)
  /\ \A v, w : Own(Container, v) = Own(Container, w)
  /\ Preface # Tab /\ Closing # Tab /\ Preface # Closing
<1>1. ASSUME NEW d, NEW v
      PROVE  /\ d = Container => Own(d, v) = Opening(Container)
             /\ d # Container => Own(d, v) = Text(d, v)
  BY DEF Own
<1>2. \A d : Opening(d).k = "open"
  BY DEF Opening
<1>3. \A d, v : Text(d, v).k = "text" /\ Text(d, v).d = d /\ Text(d, v).v = v
  BY DEF Text
<1>4. Tab.k = "tab" /\ Preface.k = "preface" /\ Closing.k = "close"
  BY DEF Tab, Preface, Closing
<1>5. ASSUME NEW d, NEW v PROVE Own(d, v).k \in {"open", "text"}
  <2>1. CASE d = Container
    <3>1. Own(d, v) = Opening(Container)
      BY <1>1, <2>1
    <3> QED BY <1>2, <3>1
  <2>2. CASE d # Container
    <3>1. Own(d, v) = Text(d, v)
      BY <1>1, <2>2
    <3> QED BY <1>3, <3>1
  <2> QED BY <2>1, <2>2
<1>6. ASSUME NEW d, NEW v PROVE Own(d, v) \notin {Tab, Preface, Closing}
  BY <1>4, <1>5
<1>7. ASSUME NEW d, NEW v, NEW e, NEW w, Own(d, v) = Own(e, w)
      PROVE  d = e /\ (v = w \/ d = Container)
  <2>1. CASE d = Container /\ e = Container
    BY <2>1
  <2>2. CASE d = Container /\ e # Container
    <3>1. Own(d, v) = Opening(Container) /\ Own(e, w) = Text(e, w)
      BY <1>1, <2>2
    <3>2. Opening(Container) = Text(e, w)
      BY <1>7, <3>1
    <3>3. Opening(Container).k = "open" /\ Text(e, w).k = "text"
      BY <1>2, <1>3
    <3> QED BY <3>2, <3>3
  <2>3. CASE d # Container /\ e = Container
    <3>1. Own(e, w) = Opening(Container) /\ Own(d, v) = Text(d, v)
      BY <1>1, <2>3
    <3>2. Opening(Container) = Text(d, v)
      BY <1>7, <3>1
    <3>3. Opening(Container).k = "open" /\ Text(d, v).k = "text"
      BY <1>2, <1>3
    <3> QED BY <3>2, <3>3
  <2>4. CASE d # Container /\ e # Container
    <3>1. Own(e, w) = Text(e, w) /\ Own(d, v) = Text(d, v)
      BY <1>1, <2>4
    <3>2. Text(d, v) = Text(e, w)
      BY <1>7, <3>1
    <3> QED BY <1>3, <3>2
  <2> QED BY <2>1, <2>2, <2>3, <2>4
<1>8. ASSUME NEW v, NEW w PROVE Own(Container, v) = Own(Container, w)
  BY DEF Own
<1>9. Preface # Tab /\ Closing # Tab /\ Preface # Closing
  BY <1>4
<1> QED BY <1>6, <1>7, <1>8, <1>9

\* Where a text has each of them.
Laden(S, v, src) ==
  /\ \A d \in S : /\ Starts(S, src, d) + 1 \in 1..Len(src)
                  /\ src[Starts(S, src, d) + 1] = Own(d, v)
                  /\ Own(d, v) \in Solids
  /\ \A d, w, m : m \in 1..Len(src) /\ src[m] = Own(d, w) /\ Own(d, w) # NL =>
       d \in S /\ m = Starts(S, src, d) + 1 /\ (v = w \/ d = Container)
  /\ \A m \in 1..Len(src) :
       src[m] = Closing <=>
         file.style = "braces" /\ Container \in S /\ m = Ends(S, src, Container)
  /\ file.style = "braces" /\ Container \in S =>
       Ends(S, src, Container) \in 1..Len(src) /\ Closing \in Solids
  /\ \A m \in 1..Len(src) : src[m] = Preface <=> file.preface /\ m = 1
  /\ \A m \in 1..Len(src) :
       src[m] \in {NL, Tab, Preface, Closing} \cup {Own(d, v) : d \in S}

LEMMA TextLaden ==
  ASSUME file \in Files, head = HeadText(file), file.style # "sections",
         NEW S, NEW v, NEW src, OneText(S, v, src)
  PROVE  Laden(S, v, src)
<1>1. /\ src \in Seq(Tokens) /\ Len(src) \in Nat /\ S \subseteq Symbols
      /\ Labelled(file, S, v, src)
      /\ \A d \in S : Bounded(S, src, d)
  BY TextLaid
<1>2. DOMAIN src = 1..Len(src) /\ \A m \in 1..Len(src) : src[m] \in Tokens
  BY <1>1, LenProperties, ElementOfSeq
<1>3. ASSUME NEW m \in 1..Len(src)
      PROVE  /\ src[m] \in {NL, Tab, Preface, Closing} \cup {Own(d, v) : d \in S}
             /\ src[m] = Preface <=> file.preface /\ m = 1
             /\ src[m] = Closing <=>
                  file.style = "braces" /\ Container \in S /\ m = Ends(S, src, Container)
             /\ \A d \in S : src[m] = Own(d, v) <=> m = Starts(S, src, d) + 1
  BY <1>1, <1>2 DEF Labelled, Starts, Ends
<1>4. ASSUME NEW d \in S
      PROVE  /\ Starts(S, src, d) + 1 \in 1..Len(src)
             /\ src[Starts(S, src, d) + 1] = Own(d, v)
             /\ Own(d, v) \in Solids
             /\ Ends(S, src, d) \in 1..Len(src) /\ src[Ends(S, src, d)] # NL
  <2>1. Bounded(S, src, d)
    BY <1>1
  <2>2. /\ Starts(S, src, d) + 1 \in 1..Len(src) /\ Ends(S, src, d) \in 1..Len(src)
        /\ src[Starts(S, src, d) + 1] # NL /\ src[Ends(S, src, d)] # NL
    BY <1>1, <2>1 DEF Bounded
  <2>3. src[Starts(S, src, d) + 1] = Own(d, v)
    BY <1>3, <2>2
  <2> QED BY <1>2, <2>2, <2>3 DEF Solids
<1>5. ASSUME NEW d, NEW w, NEW m \in 1..Len(src), src[m] = Own(d, w), Own(d, w) # NL
      PROVE  d \in S /\ m = Starts(S, src, d) + 1 /\ (v = w \/ d = Container)
  <2>1. PICK e \in S : src[m] = Own(e, v)
    BY <1>3, <1>5, TokensApart
  <2>2. Own(e, v) = Own(d, w)
    BY <1>5, <2>1
  <2>3. d = e /\ (v = w \/ d = Container)
    <3>1. e = d /\ (v = w \/ e = Container)
      BY <2>2, TokensApart
    <3> QED BY <3>1
  <2> QED BY <1>3, <2>1, <2>3
<1>6. file.style = "braces" /\ Container \in S =>
        Ends(S, src, Container) \in 1..Len(src) /\ Closing \in Solids
  BY <1>2, <1>3, <1>4 DEF Solids
<1> QED BY <1>3, <1>4, <1>5, <1>6 DEF Laden

\* Where an edit of a takes from, in either text.
Froms(S, src, a) == {Starts(S, src, a), LineStart(src, Starts(S, src, a))}

\* What lies in it: a, with its members and its delimiter.
Spans(S, src, a, b) ==
  /\ b \in Nat /\ b <= Starts(S, src, a)
  /\ \A d \in S : (b < Starts(S, src, d) + 1 /\ Starts(S, src, d) + 1 <= Ends(S, src, a))
                    <=> d = a \/ (a = Container /\ IsMember(d))
  /\ file.style = "braces" /\ Container \in S =>
       ((b < Ends(S, src, Container) /\ Ends(S, src, Container) <= Ends(S, src, a))
          <=> a = Container)
  /\ file.preface => b >= 1

LEMMA TextSpans ==
  ASSUME file \in Files, head = HeadText(file), file.style # "sections",
         NEW S, NEW v, NEW src, OneText(S, v, src),
         NEW a \in S, NEW b \in Froms(S, src, a)
  PROVE  Spans(S, src, a, b)
<1>1. /\ src \in Seq(Tokens) /\ Len(src) \in Nat /\ S \subseteq Symbols
      /\ \A d \in S : Bounded(S, src, d)
      /\ \A d, e \in S : Pos(d) < Pos(e) => Apart(S, src, d, e)
  BY TextLaid
<1>2. /\ Starts(S, src, a) \in Nat /\ Lines(S, src, a) \in Nat /\ Ends(S, src, a) \in Nat
      /\ Starts(S, src, a) < Ends(S, src, a)
  BY <1>1 DEF Bounded
<1>3. LineStart(src, Starts(S, src, a)) \in Lines(S, src, a)..Starts(S, src, a)
  BY <1>2, LineStarts DEF Lines
<1>4. b \in Nat /\ Lines(S, src, a) <= b /\ b <= Starts(S, src, a)
  <2>1. Lines(S, src, a) <= Starts(S, src, a)
    BY <1>1 DEF Bounded
  <2> QED BY <1>2, <1>3, <2>1 DEF Froms
<1>5. ASSUME NEW d \in S, d # a
      PROVE  /\ (b < Starts(S, src, d) + 1 /\ Starts(S, src, d) + 1 <= Ends(S, src, a))
                    <=> (a = Container /\ IsMember(d))
             /\ d = Container /\ file.style = "braces" =>
                  ~(b < Ends(S, src, d) /\ Ends(S, src, d) <= Ends(S, src, a))
  <2>1. /\ Pos(a) < Pos(d) \/ Pos(d) < Pos(a)
        /\ a = Container /\ IsMember(d) => Pos(a) < Pos(d)
        /\ Pos(a) \in Nat /\ Pos(d) \in Nat
    BY <1>1, <1>5, PosOrder
  <2>2. Bounded(S, src, a) /\ Bounded(S, src, d)
    BY <1>1
  <2>3. ~IsMember(Container)
    BY SymbolsAssumption DEF IsMember
  <2>4. CASE Pos(a) < Pos(d)
    <3>1. Apart(S, src, a, d)
      BY <1>1, <2>4
    <3>2. CASE a = Container /\ IsMember(d)
      BY <1>4, <2>2, <2>3, <3>1, <3>2 DEF Bounded, Apart
    <3>3. CASE ~(a = Container /\ IsMember(d))
      BY <1>4, <2>2, <3>1, <3>3 DEF Bounded, Apart
    <3> QED BY <3>2, <3>3
  <2>5. CASE Pos(d) < Pos(a)
    <3>1. Apart(S, src, d, a)
      BY <1>1, <2>5
    <3>2. ~(a = Container /\ IsMember(d))
      BY <2>1, <2>5
    <3>3. CASE d = Container /\ IsMember(a)
      <4>0. /\ Ends(S, src, a) \in Nat /\ Starts(S, src, d) \in Nat /\ Ends(S, src, d) \in Nat
            /\ Lines(S, src, a) \in Nat
            /\ BodyEnd(S, src) \in Nat /\ Ends(S, src, a) <= BodyEnd(S, src)
            /\ Starts(S, src, d) < Lines(S, src, a)
            /\ BodyEnd(S, src) <= Ends(S, src, d)
            /\ file.style = "braces" => BodyEnd(S, src) < Ends(S, src, d)
        BY <2>2, <3>1, <3>3 DEF Bounded, Apart
      <4>1. file.style = "braces" => Ends(S, src, a) < Ends(S, src, d)
        BY <4>0
      <4>2. ~(b < Starts(S, src, d) + 1)
        BY <1>2, <1>4, <4>0
      <4> QED BY <3>2, <4>0, <4>1, <4>2
    <3>4. CASE ~(d = Container /\ IsMember(a))
      <4>1. Ends(S, src, d) <= b /\ ~(b < Ends(S, src, d)) /\ ~(b < Starts(S, src, d) + 1)
        BY <1>4, <2>2, <3>1, <3>4 DEF Bounded, Apart
      <4> QED BY <3>2, <4>1
    <3> QED BY <3>3, <3>4
  <2> QED BY <2>1, <2>4, <2>5
<1>6. \A d \in S : (b < Starts(S, src, d) + 1 /\ Starts(S, src, d) + 1 <= Ends(S, src, a))
                    <=> d = a \/ (a = Container /\ IsMember(d))
  <2>1. b < Starts(S, src, a) + 1 /\ Starts(S, src, a) + 1 <= Ends(S, src, a)
    BY <1>2, <1>4
  <2> QED BY <1>5, <2>1
<1>7. file.style = "braces" /\ Container \in S =>
       ((b < Ends(S, src, Container) /\ Ends(S, src, Container) <= Ends(S, src, a))
          <=> a = Container)
  BY <1>2, <1>4, <1>5
<1>8. ASSUME file.preface PROVE b >= 1
  <2>1. Laden(S, v, src)
    BY TextLaden
  <2>2. 1 \in 1..Len(src)
    BY <1>1, <1>2 DEF Bounded
  <2>3. src[1] = Preface
    BY <1>8, <2>1, <2>2 DEF Laden
  <2>4. Starts(S, src, a) >= 1
    <3>1. src[Starts(S, src, a) + 1] = Own(a, v)
      BY <2>1 DEF Laden
    <3>2. Starts(S, src, a) # 0
      BY <2>3, <3>1, TokensApart
    <3> QED BY <1>2, <3>2
  <2>5. LineStart(src, Starts(S, src, a)) >= 1
    <3> DEFINE off == Starts(S, src, a)
               start == LineStartOf(src, off)
    <3>1. start \in 0..off
      BY <1>2, LineStarts
    <3>2. CASE start = 0
      <4>1. ~(\A i \in (start + 1)..off : src[i] = Tab)
        <5>1. 1 \in (start + 1)..off
          BY <1>2, <2>4, <3>2
        <5> QED BY <2>3, <5>1, TokensApart
      <4>2. LineStart(src, off) = off
        BY <4>1 DEF LineStart
      <4> QED BY <2>4, <4>2
    <3>3. CASE start # 0
      <4>1. LineStart(src, off) \in start..off
        BY <1>2, LineStarts
      <4> QED BY <1>2, <3>1, <3>3, <4>1
    <3> QED BY <3>2, <3>3
  <2> QED BY <2>4, <2>5 DEF Froms
<1> QED BY <1>4, <1>6, <1>7, <1>8 DEF Spans

-----------------------------------------------------------------------------
(* Which edit drops a place of HEAD, and which covers one of the worktree. *)

\* What an edit's text is of the worktree: the offsets it goes from and to.
From(o) == IF o.kind = "insert" THEN LineStart(work, o.wstart) ELSE o.wstart
To(o)   == IF IsPreface(o) THEN PrefaceEnd ELSE o.wend

Covers(i, n) == From(kept[i]) < n /\ n <= To(kept[i])
Drops(i, n)  == kept[i].kind # "insert" /\ kept[i].start < n /\ n <= kept[i].end

\* The text t is the worktree's between two offsets.
PieceOf(t, b, e) ==
  /\ b \in Nat /\ e \in Nat /\ b <= e /\ e <= Len(work)
  /\ DOMAIN t = 1..(e - b) /\ \A k \in 1..(e - b) : t[k] = work[b + k]

LEMMA PieceIs ==
  ASSUME work \in Seq(Tokens), NEW b \in Nat, NEW e \in Nat, b <= e, e <= Len(work)
  PROVE  PieceOf(SubSeq(work, b + 1, e), b, e)
<1> DEFINE t == SubSeq(work, b + 1, e)
<1>1. b + 1 \in Int /\ e \in Int /\ Len(work) \in Nat
  BY LenProperties
<1>2. \A i \in (b + 1)..e : work[i] \in Tokens
  BY <1>1, ElementOfSeq
<1>3. /\ t \in Seq(Tokens)
      /\ Len(t) = IF b + 1 <= e THEN e - (b + 1) + 1 ELSE 0
      /\ \A i \in 1..(e - (b + 1) + 1) : t[i] = work[(b + 1) + i - 1]
  BY <1>1, <1>2, SubSeqProperties
<1> HIDE DEF t
<1>4. Len(t) = e - b /\ \A k \in 1..(e - b) : t[k] = work[b + k]
  <2>1. \A k \in 1..(e - b) : (b + 1) + k - 1 = b + k
    OBVIOUS
  <2>2. e - (b + 1) + 1 = e - b
    OBVIOUS
  <2> QED BY <1>3, <2>1, <2>2
<1>5. DOMAIN t = 1..(e - b)
  BY <1>3, <1>4, LenProperties
<1>6. PieceOf(t, b, e)
  BY <1>1, <1>4, <1>5 DEF PieceOf
<1> QED BY <1>6 DEF t

\* The preface is the first token and the newlines after it.
LEMMA PrefaceIs ==
  ASSUME file \in Files, head = HeadText(file), file.style # "sections", file.preface
  PROVE  /\ PrefaceEnd \in Nat /\ 1 <= PrefaceEnd /\ PrefaceEnd <= Len(work)
         /\ \A n \in 2..PrefaceEnd : work[n] = NL
         /\ PieceOf(PrefaceInsertion.text, 0, PrefaceEnd)
<1>1. work \in Seq(Tokens) /\ Len(work) \in Nat /\ work # <<>>
  BY Extents, LenProperties, FilesAssumption DEF work
<1>2. 1 \in 0..Len(work)
  BY <1>1, EmptySeq
<1>3. Drop(work, 1) \in Seq(Tokens) /\ Len(Drop(work, 1)) = Len(work) - 1
  BY <1>1, <1>2, DropText
<1> DEFINE b == BlankLen(Drop(work, 1))
<1>4. b \in 0..(Len(work) - 1) /\ \A i \in 1..b : Drop(work, 1)[i] = NL
  BY <1>3, BlankLenFact
<1>5. \A i \in 1..(Len(work) - 1) : Drop(work, 1)[i] = work[1 + i]
  BY <1>1, <1>2, DropElements
<1> HIDE DEF b
<1>6. \A n \in 2..(1 + b) : work[n] = NL
  <2>1. ASSUME NEW n \in 2..(1 + b) PROVE work[n] = NL
    <3>1. n - 1 \in 1..b /\ n - 1 \in 1..(Len(work) - 1) /\ 1 + (n - 1) = n
      BY <1>1, <1>4, <2>1
    <3> QED BY <1>4, <1>5, <3>1
  <2> QED BY <2>1
<1>7. PrefaceEnd = 1 \/ PrefaceEnd = 1 + b
  BY DEF PrefaceEnd, b
<1>8. /\ PrefaceEnd \in Nat /\ 1 <= PrefaceEnd /\ PrefaceEnd <= Len(work)
      /\ \A n \in 2..PrefaceEnd : work[n] = NL
  BY <1>1, <1>2, <1>4, <1>6, <1>7
<1>9. PrefaceInsertion.text = SubSeq(work, 0 + 1, PrefaceEnd)
  <2>1. PrefaceInsertion.text = SubSeq(work, 1, PrefaceEnd)
    BY DEF PrefaceInsertion, Take
  <2> QED BY <2>1
<1> QED BY <1>1, <1>8, <1>9, PieceIs

\* What an edit of a does: its text is the worktree's, its range is HEAD's, each
\* the declaration's.
LEMMA EditIs ==
  ASSUME file \in Files, head = HeadText(file), file.style # "sections",
         NEW i, NEW a, Edits(kept[i], a)
  PROVE  /\ PieceOf(Added(kept[i]), From(kept[i]), To(kept[i]))
         /\ a \in file.inWork =>
              From(kept[i]) \in Froms(file.inWork, work, a) /\ To(kept[i]) = WE(a)
         /\ a \notin file.inWork => To(kept[i]) = 0
         /\ a \in file.inHead =>
              /\ kept[i].kind # "insert" /\ kept[i].end = HE(a)
              /\ kept[i].start \in Froms(file.inHead, head, a)
         /\ a \notin file.inHead => kept[i].kind = "insert"
<1> DEFINE o == kept[i]
<1>1. work \in Seq(Tokens) /\ Len(work) \in Nat
  BY Extents, LenProperties
<1>2. ~IsPreface(o)
  BY EditsFields
<1>3. CASE a \in Both /\ o = Replacement(a)
  <2>1. a \in file.inHead /\ a \in file.inWork
    BY <1>3 DEF Both
  <2>2. /\ o.kind = "replace" /\ o.start = HS(a) /\ o.end = HE(a)
        /\ o.text = SubSeq(work, WS(a) + 1, WE(a)) /\ o.wstart = WS(a) /\ o.wend = WE(a)
    <3>1. o = Replacement(a)
      BY <1>3
    <3> HIDE DEF o
    <3> QED BY <3>1 DEF Replacement, HS, HE, WS, WE
  <2>3. WS(a) \in Nat /\ WE(a) \in Nat /\ WS(a) <= WE(a) /\ WE(a) <= Len(work)
    BY <1>1, <2>1, WorkBounds DEF WS, WE
  <2>4. From(o) = WS(a) /\ To(o) = WE(a) /\ Added(o) = SubSeq(work, WS(a) + 1, WE(a))
    BY <1>2, <2>2 DEF From, To, Added
  <2>5. PieceOf(Added(o), From(o), To(o))
    BY <1>1, <2>3, <2>4, PieceIs
  <2> QED BY <2>1, <2>2, <2>4, <2>5, BothTexts DEF Froms
<1>4. CASE a \in file.inHead \ file.inWork /\ o = Deletion(a)
  <2>1. /\ o.kind = "delete" /\ o.start = LineStart(head, HS(a)) /\ o.end = HE(a)
        /\ o.wstart = 0 /\ o.wend = 0
    BY <1>4 DEF Deletion, HS, HE
  <2>2. From(o) = 0 /\ To(o) = 0 /\ Added(o) = <<>>
    BY <1>2, <2>1 DEF From, To, Added
  <2>3. DOMAIN <<>> = 1..0
    BY EmptySeq, LenProperties
  <2>4. PieceOf(Added(o), From(o), To(o))
    BY <1>1, <2>2, <2>3 DEF PieceOf
  <2> QED BY <1>4, <2>1, <2>2, <2>4, BothTexts DEF Froms
<1>5. CASE /\ Newcomer(a) /\ o.kind = "insert" /\ o.wstart = WS(a) /\ o.wend = WE(a)
           /\ o.text = InsertionText(work, WorkExtent(a))
  <2>1. a \in file.inWork /\ a \notin file.inHead
    BY <1>5 DEF Newcomer
  <2>2. WS(a) \in Nat /\ WE(a) \in Nat /\ WS(a) <= WE(a) /\ WE(a) <= Len(work)
    BY <1>1, <2>1, WorkBounds DEF WS, WE
  <2>3. LineStart(work, WS(a)) \in Nat /\ LineStart(work, WS(a)) <= WE(a)
    <3>1. LineStart(work, WS(a)) \in 0..WS(a)
      BY <2>2, LineStarts
    <3> QED BY <2>2, <3>1
  <2>4. /\ From(o) = LineStart(work, WS(a)) /\ To(o) = WE(a)
        /\ Added(o) = SubSeq(work, LineStart(work, WS(a)) + 1, WE(a))
    BY <1>2, <1>5 DEF From, To, Added, InsertionText, WS, WE
  <2>5. PieceOf(Added(o), From(o), To(o))
    BY <1>1, <2>2, <2>3, <2>4, PieceIs
  <2> QED BY <1>5, <2>1, <2>4, <2>5, BothTexts DEF Froms
<1> QED BY <1>3, <1>4, <1>5 DEF Edits

\* And the preface's.
LEMMA PrefaceEditIs ==
  ASSUME file \in Files, head = HeadText(file), file.style # "sections",
         NEW i, IsPreface(kept[i])
  PROVE  /\ PieceOf(Added(kept[i]), From(kept[i]), To(kept[i]))
         /\ From(kept[i]) = 0 /\ To(kept[i]) = PrefaceEnd /\ kept[i].kind = "insert"
         /\ file.preface /\ ~file.headExists
<1>1. file.preface /\ ~file.headExists /\ kept[i] = PrefaceInsertion
  BY DEF IsPreface
<1>2. kept[i].kind = "insert" /\ kept[i].wstart = 0 /\ kept[i].text = PrefaceInsertion.text
  BY <1>1 DEF PrefaceInsertion
<1>3. LineStart(work, 0) = 0
  <2>1. LineStart(work, 0) \in 0..0
    BY LineStarts
  <2> QED BY <2>1
<1>4. From(kept[i]) = 0 /\ To(kept[i]) = PrefaceEnd /\ Added(kept[i]) = PrefaceInsertion.text
  BY <1>2, <1>3 DEF From, To, Added
<1> QED BY <1>1, <1>2, <1>4, PrefaceIs

\* The edit of what decides drops and covers what it decides of, ...
Decides(i, a) ==
  /\ \A d \in file.inWork : Covers(i, WS(d) + 1) <=> Decider(d) = a
  /\ \A d \in file.inHead : Drops(i, HS(d) + 1) <=> Decider(d) = a
  /\ file.style = "braces" /\ Container \in file.inWork =>
       (Covers(i, WE(Container)) <=> a = Container)
  /\ file.style = "braces" /\ Container \in file.inHead =>
       (Drops(i, HE(Container)) <=> a = Container)
  /\ file.preface => ~Covers(i, 1) /\ ~Drops(i, 1)

LEMMA EditDecides ==
  ASSUME file \in Files, head = HeadText(file), file.style # "sections",
         NEW i, NEW a \in Deciders, Edits(kept[i], a)
  PROVE  Decides(i, a)
<1>1. \A d : Decider(d) = a <=> d = a \/ (a = Container /\ IsMember(d))
  BY SymbolsAssumption DEF Deciders, Decider, IsMember
<1>2. \A d \in file.inWork : Decider(d) = a => a \in file.inWork
  BY <1>1, FilesAssumption DEF IsMember
<1>3. \A d \in file.inHead : Decider(d) = a => a \in file.inHead
  BY <1>1, FilesAssumption DEF IsMember
<1>4. \A d \in file.inWork : WS(d) \in Nat
  BY WorkBounds DEF WS
<1>5. \A d \in file.inHead : HS(d) \in Nat
  BY HeadBounds
<1>6. CASE a \in file.inWork
  <2>1. From(kept[i]) \in Froms(file.inWork, work, a) /\ To(kept[i]) = WE(a)
    BY <1>6, EditIs
  <2>2. Spans(file.inWork, work, a, From(kept[i]))
    BY <1>6, <2>1, TextSpans, BothTexts
  <2>3. /\ \A d \in file.inWork : Covers(i, WS(d) + 1) <=> Decider(d) = a
        /\ file.style = "braces" /\ Container \in file.inWork =>
             (Covers(i, WE(Container)) <=> a = Container)
        /\ file.preface => ~Covers(i, 1)
    BY <1>1, <2>1, <2>2, BothTexts DEF Spans, Covers
  <2>4. CASE a \in file.inHead
    <3>1. /\ kept[i].kind # "insert" /\ kept[i].end = HE(a)
          /\ kept[i].start \in Froms(file.inHead, head, a)
      BY <2>4, EditIs
    <3>2. Spans(file.inHead, head, a, kept[i].start)
      BY <2>4, <3>1, TextSpans, BothTexts
    <3>3. /\ \A d \in file.inHead : Drops(i, HS(d) + 1) <=> Decider(d) = a
          /\ file.style = "braces" /\ Container \in file.inHead =>
               (Drops(i, HE(Container)) <=> a = Container)
          /\ file.preface => ~Drops(i, 1)
      BY <1>1, <3>1, <3>2, BothTexts DEF Spans, Drops
    <3> QED BY <2>3, <3>3 DEF Decides
  <2>5. CASE a \notin file.inHead
    <3>1. \A n : ~Drops(i, n)
      BY <2>5, EditIs DEF Drops
    <3> QED BY <1>3, <2>3, <2>5, <3>1 DEF Decides
  <2> QED BY <2>4, <2>5
<1>7. CASE a \notin file.inWork
  <2>1. To(kept[i]) = 0 /\ a \in file.inHead
    BY <1>7, EditIs, EditsFields
  <2>2. \A n \in Nat : ~Covers(i, n + 1)
    BY <2>1, EditIs DEF Covers, PieceOf
  <2>3. ~Covers(i, 1)
    <3>1. 1 = 0 + 1
      OBVIOUS
    <3> QED BY <2>2, <3>1
  <2>4. /\ kept[i].kind # "insert" /\ kept[i].end = HE(a)
        /\ kept[i].start \in Froms(file.inHead, head, a)
    BY <2>1, EditIs
  <2>5. Spans(file.inHead, head, a, kept[i].start)
    BY <2>1, <2>4, TextSpans, BothTexts
  <2>6. /\ \A d \in file.inHead : Drops(i, HS(d) + 1) <=> Decider(d) = a
        /\ file.style = "braces" /\ Container \in file.inHead =>
             (Drops(i, HE(Container)) <=> a = Container)
        /\ file.preface => ~Drops(i, 1)
    BY <1>1, <2>4, <2>5, BothTexts DEF Spans, Drops
  <2>7. \A d \in file.inWork : ~Covers(i, WS(d) + 1)
    BY <1>4, <2>2
  <2>8. Container \in file.inWork => ~Covers(i, WE(Container)) /\ a # Container
    <3>1. Container \in file.inWork => WE(Container) \in Nat /\ WE(Container) > 0
      BY WorkBounds DEF WE
    <3> QED BY <1>7, <2>1, <3>1 DEF Covers
  <2> QED BY <1>2, <1>7, <2>3, <2>6, <2>7, <2>8 DEF Decides
<1> QED BY <1>6, <1>7

\* ... and the preface's nothing of any declaration.
Frames(i) ==
  /\ \A d \in file.inWork : ~Covers(i, WS(d) + 1)
  /\ file.style = "braces" /\ Container \in file.inWork => ~Covers(i, WE(Container))
  /\ \A n : ~Drops(i, n)
  /\ file.preface /\ Covers(i, 1)

LEMMA PrefaceFrames ==
  ASSUME file \in Files, head = HeadText(file), file.style # "sections",
         NEW i, IsPreface(kept[i])
  PROVE  Frames(i)
<1>1. /\ From(kept[i]) = 0 /\ To(kept[i]) = PrefaceEnd /\ kept[i].kind = "insert"
      /\ file.preface
  BY PrefaceEditIs
<1>2. /\ PrefaceEnd \in Nat /\ 1 <= PrefaceEnd /\ PrefaceEnd <= Len(work)
      /\ \A n \in 2..PrefaceEnd : work[n] = NL
  BY <1>1, PrefaceIs
<1>3. Laden(file.inWork, "new", work)
  BY TextLaden, BothTexts
<1>4. ASSUME NEW n \in 1..Len(work), work[n] # NL, work[n] # Preface PROVE ~Covers(i, n)
  <2>1. Len(work) \in Nat
    BY Extents, LenProperties
  <2>2. n # 1
    BY <1>1, <1>3, <1>4 DEF Laden
  <2>3. n \notin 2..PrefaceEnd
    BY <1>2, <1>4
  <2> QED BY <1>1, <1>2, <2>1, <2>2, <2>3 DEF Covers
<1>5. ASSUME NEW d \in file.inWork PROVE ~Covers(i, WS(d) + 1)
  <2>1. /\ WS(d) + 1 \in 1..Len(work) /\ work[WS(d) + 1] = Own(d, "new")
        /\ Own(d, "new") \in Solids
    BY <1>3, BothTexts DEF Laden
  <2> QED BY <1>4, <2>1, TokensApart DEF Solids
<1>6. ASSUME file.style = "braces", Container \in file.inWork PROVE ~Covers(i, WE(Container))
  <2>1. /\ WE(Container) \in 1..Len(work) /\ work[WE(Container)] = Closing
        /\ Closing \in Solids
    BY <1>3, <1>6, BothTexts DEF Laden
  <2> QED BY <1>4, <2>1, TokensApart DEF Solids
<1>7. Covers(i, 1) /\ \A n : ~Drops(i, n)
  BY <1>1, <1>2 DEF Covers, Drops
<1> QED BY <1>1, <1>5, <1>6, <1>7 DEF Frames

\* So, of all the edits that are kept.
Assigned(j) ==
  /\ \A d \in file.inWork :
       Covers(j, WS(d) + 1) <=> Decider(d) \in Taken /\ Edits(kept[j], Decider(d))
  /\ \A d \in file.inHead :
       Drops(j, HS(d) + 1) <=> Decider(d) \in Taken /\ Edits(kept[j], Decider(d))
  /\ file.style = "braces" /\ Container \in file.inWork =>
       (Covers(j, WE(Container)) <=> Container \in Taken /\ Edits(kept[j], Container))
  /\ file.style = "braces" /\ Container \in file.inHead =>
       (Drops(j, HE(Container)) <=> Container \in Taken /\ Edits(kept[j], Container))
  /\ file.preface => (Covers(j, 1) <=> IsPreface(kept[j])) /\ ~Drops(j, 1)

LEMMA KeptAssigned ==
  ASSUME Built, NEW j \in DOMAIN kept
  PROVE  Assigned(j) /\ PieceOf(Added(kept[j]), From(kept[j]), To(kept[j]))
<1>1. file \in Files /\ head = HeadText(file) /\ file.style # "sections"
  BY BuiltMeans
<1>2. CASE IsPreface(kept[j])
  <2>1. Frames(j) /\ PieceOf(Added(kept[j]), From(kept[j]), To(kept[j]))
    BY <1>1, <1>2, PrefaceFrames, PrefaceEditIs
  <2>2. \A a : ~Edits(kept[j], a)
    BY <1>1, <1>2, EditsFields
  <2> QED BY <1>2, <2>1, <2>2 DEF Frames, Assigned
<1>3. CASE \E a \in Deciders : Edits(kept[j], a)
  <2>1. PICK a \in Deciders : Edits(kept[j], a)
    BY <1>3
  <2>2. Decides(j, a) /\ PieceOf(Added(kept[j]), From(kept[j]), To(kept[j]))
    BY <1>1, <2>1, EditDecides, EditIs
  <2>3. a \in Taken /\ ~IsPreface(kept[j])
    BY <1>1, <2>1, EditsFields DEF Deciders
  <2>4. ASSUME NEW b, b \in Taken, Decider(b) = b, Edits(kept[j], b) PROVE Decides(j, b)
    <3>1. b \in Deciders
      BY <2>4 DEF Deciders
    <3> QED BY <1>1, <2>4, <3>1, EditDecides
  <2>5. \A d : Decider(d) \in Taken => Decider(Decider(d)) = Decider(d)
    BY DecidersAre DEF Deciders
  <2>6. ASSUME NEW d, Decider(d) \in Taken, Edits(kept[j], Decider(d)) PROVE Decides(j, Decider(d))
    BY <2>4, <2>5, <2>6
  <2>7. Container \in Taken => Decider(Container) = Container
    BY DecidersAre DEF Deciders
  <2>8. ASSUME Container \in Taken, Edits(kept[j], Container) PROVE Decides(j, Container)
    BY <2>4, <2>7, <2>8
  <2>9. ASSUME NEW d \in file.inWork
        PROVE  Covers(j, WS(d) + 1) <=> Decider(d) \in Taken /\ Edits(kept[j], Decider(d))
    BY <2>1, <2>2, <2>3, <2>6 DEF Decides
  <2>10. ASSUME NEW d \in file.inHead
         PROVE  Drops(j, HS(d) + 1) <=> Decider(d) \in Taken /\ Edits(kept[j], Decider(d))
    BY <2>1, <2>2, <2>3, <2>6 DEF Decides
  <2>11. /\ file.style = "braces" /\ Container \in file.inWork =>
              (Covers(j, WE(Container)) <=> Container \in Taken /\ Edits(kept[j], Container))
         /\ file.style = "braces" /\ Container \in file.inHead =>
              (Drops(j, HE(Container)) <=> Container \in Taken /\ Edits(kept[j], Container))
    BY <2>1, <2>2, <2>3, <2>8 DEF Decides
  <2>12. file.preface => (Covers(j, 1) <=> IsPreface(kept[j])) /\ ~Drops(j, 1)
    BY <2>2, <2>3 DEF Decides
  <2> QED BY <2>2, <2>9, <2>10, <2>11, <2>12 DEF Assigned
<1> QED BY <1>2, <1>3, KeptDecides

-----------------------------------------------------------------------------
(* Where each token of the staged text comes from. *)

\* What of HEAD is left, and what of the worktree is brought.
LEMMA LeftAndBrought ==
  ASSUME Built, NEW x
  PROVE  /\ \A l : l \in Remaining(DOMAIN kept, Len(head), x) <=>
                     l \in 1..Len(head) /\ head[l] = x /\ \A j \in DOMAIN kept : ~Drops(j, l)
         /\ \A q \in Brings(DOMAIN kept, x) :
              \E j \in DOMAIN kept : \E n \in 1..Len(work) :
                work[n] = x /\ Covers(j, n) /\ q = <<j, n - From(kept[j])>>
         /\ \A j \in DOMAIN kept : \A n \in 1..Len(work) :
              work[n] = x /\ Covers(j, n) =>
                /\ <<j, n - From(kept[j])>> \in Brings(DOMAIN kept, x)
                /\ From(kept[j]) \in Nat
<1>1. Len(head) \in Nat /\ Len(work) \in Nat
  BY BuiltMeans, Extents, LenProperties
<1>2. \A j \in DOMAIN kept : kept[j].start \in Nat /\ kept[j].end \in Nat
  BY <1>1, BuiltMeans DEF OpOf
<1>3. ASSUME NEW l
      PROVE  l \in Remaining(DOMAIN kept, Len(head), x) <=>
               l \in 1..Len(head) /\ head[l] = x /\ \A j \in DOMAIN kept : ~Drops(j, l)
  <2>1. ASSUME l \in 1..Len(head), NEW j \in DOMAIN kept
        PROVE  ~Drops(j, l) <=> (kept[j].kind # "insert" => l <= kept[j].start \/ kept[j].end < l)
    BY <1>1, <1>2, <2>1 DEF Drops
  <2> QED BY <2>1 DEF Remaining
<1>4. ASSUME NEW q \in Brings(DOMAIN kept, x)
      PROVE  \E j \in DOMAIN kept : \E n \in 1..Len(work) :
               work[n] = x /\ Covers(j, n) /\ q = <<j, n - From(kept[j])>>
  <2>1. PICK j \in DOMAIN kept :
          q \in {j} \X {l \in DOMAIN Added(kept[j]) : Added(kept[j])[l] = x}
    BY <1>4 DEF Brings
  <2>2. PICK l \in DOMAIN Added(kept[j]) : q = <<j, l>> /\ Added(kept[j])[l] = x
    BY <2>1
  <2>3. PieceOf(Added(kept[j]), From(kept[j]), To(kept[j]))
    BY KeptAssigned
  <2> DEFINE n == From(kept[j]) + l
  <2>4. /\ l \in 1..(To(kept[j]) - From(kept[j])) /\ From(kept[j]) \in Nat
        /\ To(kept[j]) \in Nat /\ To(kept[j]) <= Len(work)
        /\ Added(kept[j])[l] = work[n]
    BY <2>2, <2>3 DEF PieceOf
  <2>5. n \in 1..Len(work) /\ n - From(kept[j]) = l /\ Covers(j, n)
    BY <1>1, <2>4 DEF Covers
  <2> HIDE DEF n
  <2> QED BY <2>2, <2>4, <2>5
<1>5. ASSUME NEW j \in DOMAIN kept, NEW n \in 1..Len(work), work[n] = x, Covers(j, n)
      PROVE  /\ <<j, n - From(kept[j])>> \in Brings(DOMAIN kept, x)
             /\ From(kept[j]) \in Nat
  <2>1. PieceOf(Added(kept[j]), From(kept[j]), To(kept[j]))
    BY KeptAssigned
  <2> DEFINE l == n - From(kept[j])
  <2>2. From(kept[j]) \in Nat /\ To(kept[j]) \in Nat
    BY <2>1 DEF PieceOf
  <2>3. l \in 1..(To(kept[j]) - From(kept[j])) /\ From(kept[j]) + l = n
    BY <1>1, <1>5, <2>2 DEF Covers
  <2> HIDE DEF l
  <2>4. l \in DOMAIN Added(kept[j]) /\ Added(kept[j])[l] = x
    BY <1>5, <2>1, <2>3 DEF PieceOf
  <2>5. <<j, l>> \in Brings(DOMAIN kept, x)
    BY <2>4, BringsWhat
  <2> QED BY <2>2, <2>5 DEF l
<1> QED BY <1>3, <1>4, <1>5

LEMMA NewWhere ==
  ASSUME Built, NEW x, NEW i \in DOMAIN kept, NEW n \in 1..Len(work),
         work[n] = x, \A m \in 1..Len(work) : work[m] = x => m = n,
         Covers(i, n), \A j \in DOMAIN kept : Covers(j, n) => j = i,
         \A m \in 1..Len(head) : head[m] = x => \E j \in DOMAIN kept : Drops(j, m)
  PROVE  NewAt(x, i, n - From(kept[i])) /\ From(kept[i]) \in Nat
<1>1. Remaining(DOMAIN kept, Len(head), x) = {}
  <2>1. \A l : l \in Remaining(DOMAIN kept, Len(head), x) =>
                 l \in 1..Len(head) /\ head[l] = x /\ \A j \in DOMAIN kept : ~Drops(j, l)
    BY LeftAndBrought
  <2> QED BY <2>1
<1>2. /\ <<i, n - From(kept[i])>> \in Brings(DOMAIN kept, x)
      /\ From(kept[i]) \in Nat
  BY LeftAndBrought
<1>3. ASSUME NEW q \in Brings(DOMAIN kept, x) PROVE q = <<i, n - From(kept[i])>>
  <2>1. PICK j \in DOMAIN kept, m \in 1..Len(work) :
          work[m] = x /\ Covers(j, m) /\ q = <<j, m - From(kept[j])>>
    BY LeftAndBrought
  <2>2. m = n
    BY <2>1
  <2>3. j = i
    BY <2>1, <2>2
  <2> QED BY <2>1, <2>2, <2>3
<1>4. Brings(DOMAIN kept, x) = {<<i, n - From(kept[i])>>}
  BY <1>2, <1>3
<1> QED BY <1>1, <1>2, <1>4 DEF NewAt

LEMMA OldWhere ==
  ASSUME Built, NEW x, NEW n \in 1..Len(head),
         head[n] = x, \A m \in 1..Len(head) : head[m] = x => m = n,
         \A j \in DOMAIN kept : ~Drops(j, n),
         \A m \in 1..Len(work) : work[m] = x => \A j \in DOMAIN kept : ~Covers(j, m)
  PROVE  OldAt(x, n)
<1>1. \A l : l \in Remaining(DOMAIN kept, Len(head), x) <=>
               l \in 1..Len(head) /\ head[l] = x /\ \A j \in DOMAIN kept : ~Drops(j, l)
  BY LeftAndBrought
<1>2. Remaining(DOMAIN kept, Len(head), x) = {n}
  BY <1>1
<1>3. \A q \in Brings(DOMAIN kept, x) :
        \E j \in DOMAIN kept : \E m \in 1..Len(work) : work[m] = x /\ Covers(j, m)
  BY LeftAndBrought
<1>4. Brings(DOMAIN kept, x) = {}
  BY <1>3
<1> QED BY <1>2, <1>4 DEF OldAt

\* A declaration that is taken comes from the edit of what decides it, ...
LEMMA TakenComes ==
  ASSUME Built, NEW d \in file.inWork, Decider(d) \in Taken
  PROVE  \E i \in DOMAIN kept :
           /\ Edits(kept[i], Decider(d)) /\ From(kept[i]) \in Nat
           /\ NewAt(Own(d, "new"), i, (WS(d) + 1) - From(kept[i]))
<1>1. file \in Files /\ head = HeadText(file) /\ file.style # "sections"
  BY BuiltMeans
<1>2. Laden(file.inWork, "new", work) /\ Laden(file.inHead, "old", head)
  BY <1>1, TextLaden, BothTexts
<1>3. Decider(d) \in Deciders
  BY DecidersAre
<1>4. PICK i \in DOMAIN kept : Edits(kept[i], Decider(d))
  BY <1>3, EditKept
<1>5. /\ WS(d) + 1 \in 1..Len(work) /\ work[WS(d) + 1] = Own(d, "new")
      /\ Own(d, "new") # NL
  BY <1>2, BothTexts DEF Laden, Solids
<1>6. \A m \in 1..Len(work) : work[m] = Own(d, "new") => m = WS(d) + 1
  BY <1>2, <1>5, BothTexts DEF Laden
<1>7. Covers(i, WS(d) + 1)
  BY <1>4, KeptAssigned DEF Assigned
<1>8. ASSUME NEW j \in DOMAIN kept, Covers(j, WS(d) + 1) PROVE j = i
  <2>1. Edits(kept[j], Decider(d))
    BY <1>8, KeptAssigned DEF Assigned
  <2> QED BY <1>4, <2>1, EditOnce
<1>9. ASSUME NEW m \in 1..Len(head), head[m] = Own(d, "new")
      PROVE  \E j \in DOMAIN kept : Drops(j, m)
  <2>1. d \in file.inHead /\ m = HS(d) + 1
    BY <1>2, <1>5, <1>9, BothTexts DEF Laden
  <2>2. Drops(i, HS(d) + 1)
    BY <1>4, <2>1, KeptAssigned DEF Assigned
  <2> QED BY <2>1, <2>2
<1>10. NewAt(Own(d, "new"), i, (WS(d) + 1) - From(kept[i])) /\ From(kept[i]) \in Nat
  BY <1>5, <1>6, <1>7, <1>8, <1>9, NewWhere
<1> QED BY <1>4, <1>10

\* ... one that is not is where it was in HEAD, ...
LEMMA UntakenStays ==
  ASSUME Built, NEW d \in file.inHead, Decider(d) \notin Taken
  PROVE  OldAt(Own(d, "old"), HS(d) + 1)
<1>1. file \in Files /\ head = HeadText(file) /\ file.style # "sections"
  BY BuiltMeans
<1>2. Laden(file.inWork, "new", work) /\ Laden(file.inHead, "old", head)
  BY <1>1, TextLaden, BothTexts
<1>3. /\ HS(d) + 1 \in 1..Len(head) /\ head[HS(d) + 1] = Own(d, "old")
      /\ Own(d, "old") # NL
  BY <1>2, BothTexts DEF Laden, Solids
<1>4. \A m \in 1..Len(head) : head[m] = Own(d, "old") => m = HS(d) + 1
  BY <1>2, <1>3, BothTexts DEF Laden
<1>5. \A j \in DOMAIN kept : ~Drops(j, HS(d) + 1)
  BY KeptAssigned DEF Assigned
<1>6. ASSUME NEW m \in 1..Len(work), work[m] = Own(d, "old"), NEW j \in DOMAIN kept
      PROVE  ~Covers(j, m)
  <2>1. d \in file.inWork /\ m = WS(d) + 1
    BY <1>2, <1>3, <1>6, BothTexts DEF Laden
  <2> QED BY <2>1, KeptAssigned DEF Assigned
<1> QED BY <1>3, <1>4, <1>5, <1>6, OldWhere

\* ... the delimiter goes the way of its container, ...
LEMMA ClosingComes ==
  ASSUME Built, file.style = "braces"
  PROVE  /\ Container \in Taken /\ Container \in file.inWork =>
              \E i \in DOMAIN kept :
                /\ Edits(kept[i], Container) /\ From(kept[i]) \in Nat
                /\ NewAt(Closing, i, WE(Container) - From(kept[i]))
         /\ Container \notin Taken /\ Container \in file.inHead => OldAt(Closing, HE(Container))
<1>1. file \in Files /\ head = HeadText(file) /\ file.style # "sections"
  BY BuiltMeans
<1>2. Laden(file.inWork, "new", work) /\ Laden(file.inHead, "old", head)
  BY <1>1, TextLaden, BothTexts
<1>3. \A m \in 1..Len(work) :
        work[m] = Closing => Container \in file.inWork /\ m = WE(Container)
  BY <1>2, BothTexts DEF Laden
<1>4. \A m \in 1..Len(head) :
        head[m] = Closing => Container \in file.inHead /\ m = HE(Container)
  BY <1>2, BothTexts DEF Laden
<1>5. ASSUME Container \in Taken, Container \in file.inWork
      PROVE  \E i \in DOMAIN kept :
                /\ Edits(kept[i], Container) /\ From(kept[i]) \in Nat
                /\ NewAt(Closing, i, WE(Container) - From(kept[i]))
  <2>1. Container \in Deciders
    BY <1>5, DecidersAre
  <2>2. PICK i \in DOMAIN kept : Edits(kept[i], Container)
    BY <2>1, EditKept
  <2>3. WE(Container) \in 1..Len(work) /\ work[WE(Container)] = Closing
    BY <1>2, <1>5, BothTexts DEF Laden
  <2>4. Covers(i, WE(Container))
    BY <1>5, <2>2, KeptAssigned DEF Assigned
  <2>5. ASSUME NEW j \in DOMAIN kept, Covers(j, WE(Container)) PROVE j = i
    <3>1. Edits(kept[j], Container)
      BY <1>5, <2>5, KeptAssigned DEF Assigned
    <3> QED BY <2>2, <3>1, EditOnce
  <2>6. ASSUME NEW m \in 1..Len(head), head[m] = Closing
        PROVE  \E j \in DOMAIN kept : Drops(j, m)
    <3>1. Container \in file.inHead /\ m = HE(Container)
      BY <1>4, <2>6
    <3>2. Drops(i, HE(Container))
      BY <1>5, <2>2, <3>1, KeptAssigned DEF Assigned
    <3> QED BY <3>1, <3>2
  <2>7. NewAt(Closing, i, WE(Container) - From(kept[i])) /\ From(kept[i]) \in Nat
    BY <1>3, <2>3, <2>4, <2>5, <2>6, NewWhere
  <2> QED BY <2>2, <2>7
<1>6. ASSUME Container \notin Taken, Container \in file.inHead
      PROVE  OldAt(Closing, HE(Container))
  <2>1. HE(Container) \in 1..Len(head) /\ head[HE(Container)] = Closing
    BY <1>2, <1>6, BothTexts DEF Laden
  <2>2. \A j \in DOMAIN kept : ~Drops(j, HE(Container))
    BY <1>6, KeptAssigned DEF Assigned
  <2>3. ASSUME NEW m \in 1..Len(work), work[m] = Closing, NEW j \in DOMAIN kept
        PROVE  ~Covers(j, m)
    BY <1>3, <1>6, <2>3, KeptAssigned DEF Assigned
  <2> QED BY <1>4, <2>1, <2>2, <2>3, OldWhere
<1> QED BY <1>5, <1>6

\* ... and the preface is HEAD's, or the new file's own.
LEMMA PrefaceComes ==
  ASSUME Built, file.preface
  PROVE  /\ file.headExists => OldAt(Preface, 1) /\ head # <<>> /\ head[1] = Preface
         /\ ~file.headExists => \E i \in DOMAIN kept :
              IsPreface(kept[i]) /\ From(kept[i]) = 0 /\ NewAt(Preface, i, 1)
<1>1. file \in Files /\ head = HeadText(file) /\ file.style # "sections"
  BY BuiltMeans
<1>2. Laden(file.inWork, "new", work) /\ Laden(file.inHead, "old", head)
  BY <1>1, TextLaden, BothTexts
<1>3. /\ work # <<>> /\ work \in Seq(Tokens) /\ head \in Seq(Tokens)
      /\ file.headExists => head # <<>>
  BY <1>1, Extents, FilesAssumption DEF work
<1>4. 1 \in 1..Len(work) /\ (file.headExists => 1 \in 1..Len(head))
  BY <1>3, EmptySeq, LenProperties
<1>5. \A m \in 1..Len(work) : work[m] = Preface <=> m = 1
  BY <1>2 DEF Laden
<1>6. \A m \in 1..Len(head) : head[m] = Preface <=> m = 1
  BY <1>2 DEF Laden
<1>7. ASSUME file.headExists PROVE OldAt(Preface, 1) /\ head # <<>> /\ head[1] = Preface
  <2>1. \A j \in DOMAIN kept : ~IsPreface(kept[j])
    BY <1>7 DEF IsPreface
  <2>2. \A j \in DOMAIN kept : ~Drops(j, 1) /\ ~Covers(j, 1)
    BY <2>1, KeptAssigned DEF Assigned
  <2>3. \A m \in 1..Len(work) : work[m] = Preface => \A j \in DOMAIN kept : ~Covers(j, m)
    BY <1>5, <2>2
  <2>4. OldAt(Preface, 1)
    BY <1>4, <1>6, <1>7, <2>2, <2>3, OldWhere
  <2> QED BY <1>3, <1>4, <1>6, <1>7, <2>4
<1>8. ASSUME ~file.headExists
      PROVE  \E i \in DOMAIN kept :
               IsPreface(kept[i]) /\ From(kept[i]) = 0 /\ NewAt(Preface, i, 1)
  <2>1. PICK i \in DOMAIN kept : \A j \in DOMAIN kept : IsPreface(kept[j]) <=> i = j
    BY <1>8, PrefaceKept
  <2>2. IsPreface(kept[i])
    BY <2>1
  <2>3. From(kept[i]) = 0
    BY <1>1, <2>2, PrefaceEditIs
  <2>4. \A j \in DOMAIN kept : Covers(j, 1) <=> i = j
    BY <2>1, KeptAssigned DEF Assigned
  <2>5. Len(head) = 0
    BY <1>1, <1>8, EmptySeq DEF HeadText
  <2>6. \A m \in 1..Len(head) : FALSE
    BY <2>5
  <2>7. NewAt(Preface, i, 1 - From(kept[i]))
    BY <1>4, <1>5, <2>4, <2>6, NewWhere
  <2>8. 1 - From(kept[i]) = 1
    BY <2>3
  <2> QED BY <2>2, <2>3, <2>7, <2>8
<1> QED BY <1>7, <1>8

-----------------------------------------------------------------------------
(* The staged text declares what it should.                                *)

\* Where what survives comes from.
Comes(d) ==
  /\ TokenOf(d) \in Solids
  /\ Decider(d) \in Taken =>
       /\ d \in file.inWork /\ TokenOf(d) = Own(d, "new")
       /\ \E i \in DOMAIN kept : /\ Edits(kept[i], Decider(d)) /\ From(kept[i]) \in Nat
                                 /\ NewAt(TokenOf(d), i, (WS(d) + 1) - From(kept[i]))
  /\ Decider(d) \notin Taken =>
       /\ Decider(d) = d /\ file.headExists /\ d \in file.inHead
       /\ TokenOf(d) = Own(d, "old") /\ OldAt(TokenOf(d), HS(d) + 1)

LEMMA SurvivorComes ==
  ASSUME Built, NEW d \in Survivors
  PROVE  Comes(d)
<1>1. file \in Files /\ head = HeadText(file) /\ file.style # "sections"
  BY BuiltMeans
<1>2. Laden(file.inWork, "new", work) /\ Laden(file.inHead, "old", head)
  BY <1>1, TextLaden, BothTexts
<1>3. Survives(d)
  BY DEF Survivors
<1>4. CASE Decider(d) \in Taken
  <2>1. d \in file.inWork /\ TokenOf(d) = Own(d, "new")
    BY <1>3, <1>4 DEF Survives, TokenOf
  <2>2. TokenOf(d) \in Solids
    BY <1>2, <2>1 DEF Laden
  <2> QED BY <1>4, <2>1, <2>2, TakenComes DEF Comes
<1>5. CASE Decider(d) \notin Taken
  <2>1. d \in file.inHead /\ file.headExists /\ TokenOf(d) = Own(d, "old")
    BY <1>3, <1>5 DEF Survives, TokenOf
  <2>2. TokenOf(d) \in Solids
    BY <1>2, <2>1 DEF Laden
  <2>3. Decider(d) = d
    BY <1>5 DEF Decider
  <2> QED BY <1>5, <2>1, <2>2, <2>3, UntakenStays DEF Comes
<1> QED BY <1>4, <1>5

\* What is left of HEAD is declared, ...
LEMMA LeftDeclared ==
  ASSUME Built, NEW x, NEW l \in 1..Len(head), head[l] = x, x # NL,
         \A j \in DOMAIN kept : ~Drops(j, l)
  PROVE  x \in Declared \cup {NL, Tab}
<1>1. file \in Files /\ head = HeadText(file) /\ file.style # "sections"
  BY BuiltMeans
<1>2. Laden(file.inHead, "old", head)
  BY <1>1, TextLaden, BothTexts
<1>3. x \in {NL, Tab, Preface, Closing} \cup {Own(d, "old") : d \in file.inHead}
  BY <1>2 DEF Laden
<1>4. file.headExists
  BY <1>1, EmptySeq DEF HeadText
<1>5. CASE x = Preface
  <2>1. file.preface
    BY <1>2, <1>5 DEF Laden
  <2> QED BY <1>5, <2>1 DEF Declared
<1>6. CASE x = Closing
  <2>1. file.style = "braces" /\ Container \in file.inHead /\ l = HE(Container)
    BY <1>2, <1>6, BothTexts DEF Laden
  <2>2. Container \notin Taken
    <3>1. SUFFICES ASSUME Container \in Taken PROVE FALSE
      OBVIOUS
    <3>2. PICK i \in DOMAIN kept : Edits(kept[i], Container)
      BY <3>1, DecidersAre, EditKept
    <3> QED BY <2>1, <3>1, <3>2, KeptAssigned DEF Assigned
  <2>3. Survives(Container)
    BY <1>4, <2>1, <2>2, SymbolsAssumption DEF Survives, Decider, IsMember
  <2> QED BY <1>6, <2>1, <2>3 DEF Declared
<1>7. ASSUME NEW d \in file.inHead, x = Own(d, "old") PROVE x \in Declared
  <2>1. l = HS(d) + 1
    BY <1>2, <1>7, BothTexts DEF Laden
  <2>2. Decider(d) \notin Taken
    <3>1. SUFFICES ASSUME Decider(d) \in Taken PROVE FALSE
      OBVIOUS
    <3>2. PICK i \in DOMAIN kept : Edits(kept[i], Decider(d))
      BY <3>1, DecidersAre, EditKept
    <3> QED BY <2>1, <3>1, <3>2, KeptAssigned DEF Assigned
  <2>3. d \in Survivors /\ TokenOf(d) = x
    <3>1. d \in Symbols
      BY <1>1, HeadBounds
    <3> QED BY <1>4, <1>7, <2>2, <3>1 DEF Survivors, Survives, TokenOf
  <2> QED BY <2>3 DEF Declared
<1> QED BY <1>3, <1>5, <1>6, <1>7

\* ... and what an edit brings.
LEMMA BroughtDeclared ==
  ASSUME Built, NEW x, NEW n \in 1..Len(work), work[n] = x, x # NL,
         NEW j \in DOMAIN kept, Covers(j, n)
  PROVE  x \in Declared \cup {NL, Tab}
<1>1. file \in Files /\ head = HeadText(file) /\ file.style # "sections"
  BY BuiltMeans
<1>2. Laden(file.inWork, "new", work)
  BY <1>1, TextLaden, BothTexts
<1>3. x \in {NL, Tab, Preface, Closing} \cup {Own(d, "new") : d \in file.inWork}
  BY <1>2 DEF Laden
<1>4. CASE x = Preface
  <2>1. file.preface
    BY <1>2, <1>4 DEF Laden
  <2> QED BY <1>4, <2>1 DEF Declared
<1>5. CASE x = Closing
  <2>1. file.style = "braces" /\ Container \in file.inWork /\ n = WE(Container)
    BY <1>2, <1>5, BothTexts DEF Laden
  <2>2. Container \in Taken
    BY <2>1, KeptAssigned DEF Assigned
  <2>3. Survives(Container)
    BY <2>1, <2>2, SymbolsAssumption DEF Survives, Decider, IsMember
  <2> QED BY <1>5, <2>1, <2>3 DEF Declared
<1>6. ASSUME NEW d \in file.inWork, x = Own(d, "new") PROVE x \in Declared
  <2>1. n = WS(d) + 1
    BY <1>2, <1>6, BothTexts DEF Laden
  <2>2. Decider(d) \in Taken
    BY <2>1, KeptAssigned DEF Assigned
  <2>3. d \in Survivors /\ TokenOf(d) = x
    <3>1. d \in Symbols
      BY <1>1, WorkBounds
    <3> QED BY <1>6, <2>2, <3>1 DEF Survivors, Survives, TokenOf
  <2> QED BY <2>3 DEF Declared
<1> QED BY <1>3, <1>4, <1>5, <1>6

\* Each token that is declared has its sole place.
LEMMA DeclaredOnce ==
  ASSUME Built, NEW x \in Declared
  PROVE  x \in Solids /\ ((\E l : OldAt(x, l)) \/ (\E i, l : NewAt(x, i, l)))
<1>1. file \in Files /\ head = HeadText(file) /\ file.style # "sections"
  BY BuiltMeans
<1>2. Laden(file.inWork, "new", work) /\ Laden(file.inHead, "old", head)
  BY <1>1, TextLaden, BothTexts
<1>3. ASSUME NEW d \in Survivors, x = TokenOf(d)
      PROVE  x \in Solids /\ ((\E l : OldAt(x, l)) \/ (\E i, l : NewAt(x, i, l)))
  BY <1>3, SurvivorComes DEF Comes
<1>4. ASSUME file.style = "braces", Survives(Container), x = Closing
      PROVE  x \in Solids /\ ((\E l : OldAt(x, l)) \/ (\E i, l : NewAt(x, i, l)))
  <2>1. Decider(Container) = Container
    BY SymbolsAssumption DEF Decider, IsMember
  <2>2. /\ Container \in Taken => Container \in file.inWork
        /\ Container \notin Taken => Container \in file.inHead
    BY <1>4, <2>1 DEF Survives
  <2>3. x \in Solids
    BY <1>2, <1>4, <2>2 DEF Laden
  <2> QED BY <1>4, <2>2, <2>3, ClosingComes
<1>5. ASSUME file.preface, x = Preface
      PROVE  x \in Solids /\ ((\E l : OldAt(x, l)) \/ (\E i, l : NewAt(x, i, l)))
  <2>1. work # <<>> /\ work \in Seq(Tokens) /\ Len(work) \in Nat
    BY <1>1, <1>5, Extents, FilesAssumption, LenProperties DEF work
  <2>2. 1 \in 1..Len(work)
    BY <2>1, EmptySeq
  <2>3. work[1] = Preface /\ work[1] \in Tokens
    BY <1>2, <1>5, <2>1, <2>2, ElementOfSeq DEF Laden
  <2>4. x \in Solids
    BY <1>5, <2>3, FilesAssumption DEF Solids
  <2> QED BY <1>5, <2>4, PrefaceComes
<1> QED BY <1>3, <1>4, <1>5 DEF Declared

LEMMA ContentRight ==
  ASSUME Built
  PROVE  RightContent
<1>1. SpliceTypeOK /\ EditedBy(out, DOMAIN kept)
  BY BuiltMeans
<1>2. out \in Seq(Tokens)
  BY <1>1 DEF SpliceTypeOK
<1>3. ASSUME NEW x \in Declared PROVE TokenCount(out, x) = 1
  BY <1>1, DeclaredOnce, EditedOnce
<1>4. ASSUME NEW p \in DOMAIN out PROVE out[p] \in Declared \cup {NL, Tab}
  <2> DEFINE x == out[p]
  <2>1. x \in Tokens
    BY <1>2, ElementOfSeq, LenProperties
  <2>2. SUFFICES ASSUME x # NL, x \notin Declared \cup {NL, Tab} PROVE FALSE
    OBVIOUS
  <2>3. x \in Solids
    BY <2>1, <2>2 DEF Solids
  <2>4. Remaining(DOMAIN kept, Len(head), x) = {}
    BY <2>2, LeftAndBrought, LeftDeclared
  <2>5. Brings(DOMAIN kept, x) = {}
    BY <2>2, LeftAndBrought, BroughtDeclared
  <2> HIDE DEF x
  <2>6. TokenCount(out, x) = 0
    BY <1>1, <2>3, <2>4, <2>5, EditedNone
  <2>7. {i \in DOMAIN out : out[i] = x} = {}
    <3>1. IsFiniteSet({i \in DOMAIN out : out[i] = x})
      <4>1. DOMAIN out = 1..Len(out) /\ Len(out) \in Nat
        BY <1>2, LenProperties
      <4>2. IsFiniteSet(1..Len(out))
        BY <4>1, FS_Interval
      <4> QED BY <4>1, <4>2, FS_Subset
    <3> QED BY <2>6, <3>1, FS_EmptySet DEF TokenCount
  <2> QED BY <2>7 DEF x
<1> QED BY <1>3, <1>4 DEF RightContent, ToSet

-----------------------------------------------------------------------------
(* The staged text has its declarations in order.                          *)

\* What has one place in the text has it at Place.
LEMMA PlaceIs ==
  ASSUME NEW s \in Seq(Tokens), NEW x, TokenCount(s, x) = 1
  PROVE  \E p \in DOMAIN s : \A q \in DOMAIN s : s[q] = x <=> q = p
<1>1. DOMAIN s = 1..Len(s) /\ Len(s) \in Nat
  BY LenProperties
<1> DEFINE T == {i \in DOMAIN s : s[i] = x}
<1>2. IsFiniteSet(T)
  <2>1. IsFiniteSet(1..Len(s))
    BY <1>1, FS_Interval
  <2> QED BY <1>1, <2>1, FS_Subset
<1>3. Cardinality(T) = 1
  BY DEF TokenCount
<1> HIDE DEF T
<1>4. T # {}
  BY <1>2, <1>3, CountZero
<1>5. PICK p \in T : TRUE
  BY <1>4
<1>6. Cardinality(T \ {p}) = 0 /\ IsFiniteSet(T \ {p})
  <2>1. Cardinality(T \ {p}) = Cardinality(T) - 1
    BY <1>2, <1>5, FS_RemoveElement
  <2>2. IsFiniteSet(T \ {p})
    BY <1>2, FS_Subset
  <2> QED BY <1>3, <2>1, <2>2
<1>7. T \ {p} = {}
  BY <1>6, CountZero
<1>8. \A q \in DOMAIN s : s[q] = x <=> q \in T
  BY DEF T
<1>9. p \in DOMAIN s
  BY <1>5 DEF T
<1> QED BY <1>5, <1>7, <1>8, <1>9

LEMMA PlaceFound ==
  ASSUME out \in Seq(Tokens), RightContent, NEW x \in Declared
  PROVE  /\ Place(x) \in DOMAIN out /\ out[Place(x)] = x
         /\ \A q \in DOMAIN out : out[q] = x => q = Place(x)
<1>1. TokenCount(out, x) = 1
  BY DEF RightContent
<1>2. PICK p \in DOMAIN out : \A q \in DOMAIN out : out[q] = x <=> q = p
  BY <1>1, PlaceIs
<1>3. Place(x) \in DOMAIN out /\ out[Place(x)] = x
  BY <1>2 DEF Place
<1> QED BY <1>2, <1>3

LEMMA PlacesGo ==
  ASSUME out \in Seq(Tokens), RightContent, NEW x \in Declared, NEW y \in Declared,
         InOrder(out, x, y)
  PROVE  Place(x) < Place(y)
  BY PlaceFound DEF InOrder

\* What decides of two declarations goes as they do.
LEMMA DecidersGo ==
  ASSUME file \in Files, head = HeadText(file), file.style # "sections",
         NEW S, NEW v, NEW src, OneText(S, v, src),
         NEW x \in S, NEW y \in S, Pos(x) < Pos(y)
  PROVE  /\ Decider(x) \in S /\ Decider(y) \in S
         /\ Decider(x) = Decider(y) \/ Pos(Decider(x)) < Pos(Decider(y))
<1>1. S \subseteq Symbols /\ \A d \in S : IsMember(d) => Container \in S
  BY TextLaid
<1>2. Decider(x) \in S /\ Decider(y) \in S
  BY <1>1 DEF Decider
<1>3. ~IsMember(Container)
  BY SymbolsAssumption DEF IsMember
<1>4. CASE Container \notin Taken \/ (~IsMember(x) /\ ~IsMember(y))
  BY <1>2, <1>4 DEF Decider
<1>5. CASE Container \in Taken /\ IsMember(x)
  <2>1. Pos(Container) < Pos(x) /\ Pos(Container) \in Nat /\ Pos(x) \in Nat /\ Pos(y) \in Nat
    BY <1>1, <1>5, PosOrder
  <2> QED BY <1>2, <1>5, <2>1 DEF Decider
<1>6. CASE Container \in Taken /\ IsMember(y) /\ ~IsMember(x)
  <2>1. Decider(x) = x /\ Decider(y) = Container
    BY <1>6 DEF Decider
  <2>2. x = Container \/ Pos(x) < Pos(Container) \/ Pos(Container) < Pos(x)
    BY <1>1, <1>6, PosOrder
  <2>3. ~(Pos(Container) < Pos(x))
    BY <1>6, NoneBetween
  <2> QED BY <1>2, <2>1, <2>2, <2>3
<1> QED BY <1>4, <1>5, <1>6

\* An edit starts after all before its declaration and before all after it.
LEMMA StartAfter ==
  ASSUME file \in Files, head = HeadText(file), file.style # "sections",
         NEW o, NEW a \in file.inWork, Edits(o, a), NEW b \in file.inHead,
         Pos(b) < Pos(a), b \in file.inWork \/ a \in file.inHead
  PROVE  HS(b) + 1 <= o.start
<1>1. CASE a \in file.inHead
  <2>1. o.start = HS(a)
    BY <1>1, EditsFields
  <2>2. Stands(b, a)
    BY <1>1, HeadStands
  <2> QED BY <2>1, <2>2 DEF Stands
<1>2. CASE a \notin file.inHead
  <2>1. o.start = InsertionPoint(a) /\ Newcomer(a)
    BY <1>2, EditsFields
  <2>2. file.headExists /\ b \in Both
    BY <1>2, FilesAssumption DEF Both
  <2>3. NewIn(a)
    BY <2>1, <2>2 DEF NewIn, Newcomer
  <2> QED BY <2>1, <2>2, <2>3, PointAfter
<1> QED BY <1>1, <1>2

LEMMA StartBefore ==
  ASSUME file \in Files, head = HeadText(file), file.style # "sections",
         NEW o, NEW a \in file.inWork, Edits(o, a), NEW b \in file.inHead,
         Pos(a) < Pos(b), b \in file.inWork \/ a \in file.inHead
  PROVE  o.start <= HS(b)
<1>1. CASE a \in file.inHead
  <2>1. o.start = HS(a)
    BY <1>1, EditsFields
  <2>2. Stands(a, b)
    BY <1>1, HeadStands
  <2> QED BY <2>1, <2>2 DEF Stands
<1>2. CASE a \notin file.inHead
  <2>1. o.start = InsertionPoint(a) /\ Newcomer(a)
    BY <1>2, EditsFields
  <2>2. file.headExists /\ b \in Both
    BY <1>2, FilesAssumption DEF Both
  <2>3. NewIn(a)
    BY <2>1, <2>2 DEF NewIn, Newcomer
  <2> QED BY <2>1, <2>2, <2>3, PointBefore
<1> QED BY <1>1, <1>2

\* In the worktree declarations begin as they go.
LEMMA WorkGoes ==
  ASSUME file \in Files, head = HeadText(file), file.style # "sections",
         NEW x \in file.inWork, NEW y \in file.inWork, Pos(x) < Pos(y)
  PROVE  WS(x) \in Nat /\ WS(y) \in Nat /\ WS(x) < WS(y)
<1>1. WS(x) \in Nat /\ WS(y) \in Nat /\ WE(x) \in Nat /\ WS(x) < WE(x)
  BY WorkBounds DEF WS, WE
<1>2. WL(y) \in 0..WS(y)
  BY <1>1, LineStarts DEF WL
<1>3. WE(x) <= WL(y) \/ WS(x) < WL(y)
  BY WorkLaid
<1> QED BY <1>1, <1>2, <1>3

\* The edits of two declarations of the worktree go as they do.
LEMMA EditsGo ==
  ASSUME Built, NEW i \in DOMAIN kept, NEW j \in DOMAIN kept,
         NEW a \in file.inWork, NEW b \in file.inWork,
         Edits(kept[i], a), Edits(kept[j], b), Pos(a) < Pos(b)
  PROVE  Ahead(i, j)
<1>1. /\ file \in Files /\ head = HeadText(file) /\ file.style # "sections"
      /\ kept[i] \in OpOf(head) /\ kept[j] \in OpOf(head)
  BY BuiltMeans
<1>2. kept[i].start \in Nat /\ kept[j].start \in Nat
  BY <1>1, Extents, LenProperties DEF OpOf
<1>3. CASE a \in file.inHead
  <2>1. HS(a) + 1 <= kept[j].start /\ kept[i].start = HS(a) /\ HS(a) \in Nat
    BY <1>1, <1>3, StartAfter, EditsFields, HeadBounds
  <2> QED BY <1>2, <2>1 DEF Ahead
<1>4. CASE a \notin file.inHead /\ b \in file.inHead
  <2>1. /\ kept[i].start <= HS(b) /\ kept[j].start = HS(b)
        /\ kept[i].kind = "insert" /\ kept[j].kind # "insert"
    BY <1>1, <1>4, StartBefore, EditsFields
  <2> QED BY <1>2, <2>1 DEF Ahead
<1>5. CASE a \notin file.inHead /\ b \notin file.inHead
  <2>1. /\ Newcomer(a) /\ kept[i].kind = "insert" /\ kept[i].start = InsertionPoint(a)
        /\ Newcomer(b) /\ kept[j].kind = "insert" /\ kept[j].start = InsertionPoint(b)
    BY <1>1, <1>5, EditsFields
  <2>2. kept[i].seq = WS(a) /\ kept[j].seq = WS(b)
    BY <1>5 DEF Edits, Both
  <2>3. WS(a) < WS(b)
    BY <1>1, WorkGoes
  <2>4. kept[i].start <= kept[j].start
    <3>1. CASE file.headExists
      <4>1. NewIn(a) /\ NewIn(b)
        BY <2>1, <3>1 DEF NewIn, Newcomer
      <4> QED BY <1>1, <2>1, <4>1, PointsOrdered DEF Spaced
    <3>2. CASE ~file.headExists
      <4>1. InsertionPoint(a) = 0 /\ InsertionPoint(b) = 0
        BY <3>2 DEF InsertionPoint
      <4> QED BY <2>1, <4>1
    <3> QED BY <3>1, <3>2
  <2> QED BY <1>2, <2>1, <2>2, <2>3, <2>4 DEF Ahead
<1> QED BY <1>3, <1>4, <1>5

\* Two declarations that survive stand as HEAD or the worktree has them.
LEMMA SurvivorsGo ==
  ASSUME Built, NEW x \in Survivors, NEW y \in Survivors, Precedes(x, y)
  PROVE  InOrder(out, TokenOf(x), TokenOf(y))
<1>1. /\ file \in Files /\ head = HeadText(file) /\ file.style # "sections"
      /\ SpliceTypeOK /\ EditedBy(out, DOMAIN kept)
  BY BuiltMeans
<1>2. Comes(x) /\ Comes(y) /\ TokenOf(x) \in Solids /\ TokenOf(y) \in Solids
  BY SurvivorComes DEF Comes
<1>3. /\ Pos(x) < Pos(y)
      /\ (x \in file.inHead /\ y \in file.inHead) \/ (x \in file.inWork /\ y \in file.inWork)
  BY DEF Precedes, Pos
<1>4. x \in file.inHead /\ y \in file.inHead =>
        /\ Decider(x) \in file.inHead /\ Decider(y) \in file.inHead
        /\ Decider(x) = Decider(y) \/ Pos(Decider(x)) < Pos(Decider(y))
  BY <1>1, <1>3, DecidersGo, BothTexts
<1>5. x \in file.inWork /\ y \in file.inWork =>
        /\ Decider(x) \in file.inWork /\ Decider(y) \in file.inWork
        /\ Decider(x) = Decider(y) \/ Pos(Decider(x)) < Pos(Decider(y))
  BY <1>1, <1>3, DecidersGo, BothTexts
<1>6. CASE Decider(x) \in Taken /\ Decider(y) \in Taken
  <2>1. x \in file.inWork /\ y \in file.inWork
    BY <1>2, <1>6 DEF Comes
  <2>2. PICK i \in DOMAIN kept :
          /\ Edits(kept[i], Decider(x)) /\ From(kept[i]) \in Nat
          /\ NewAt(TokenOf(x), i, (WS(x) + 1) - From(kept[i]))
    BY <1>2, <1>6 DEF Comes
  <2>3. PICK j \in DOMAIN kept :
          /\ Edits(kept[j], Decider(y)) /\ From(kept[j]) \in Nat
          /\ NewAt(TokenOf(y), j, (WS(y) + 1) - From(kept[j]))
    BY <1>2, <1>6 DEF Comes
  <2>4. CASE Decider(x) = Decider(y)
    <3>1. i = j
      BY <2>2, <2>3, <2>4, EditOnce
    <3>2. WS(x) \in Nat /\ WS(y) \in Nat /\ WS(x) < WS(y)
      BY <1>1, <1>3, <2>1, WorkGoes
    <3>3. (WS(x) + 1) - From(kept[i]) < (WS(y) + 1) - From(kept[j])
      BY <2>2, <2>3, <3>1, <3>2
    <3> QED BY <1>1, <1>2, <2>2, <2>3, <3>1, <3>3, NewBeforeNew
  <2>5. CASE Pos(Decider(x)) < Pos(Decider(y))
    <3>1. Ahead(i, j)
      BY <1>5, <2>1, <2>2, <2>3, <2>5, EditsGo
    <3> QED BY <1>1, <1>2, <2>2, <2>3, <3>1, NewBeforeNew
  <2> QED BY <1>5, <2>1, <2>4, <2>5
<1>7. CASE Decider(x) \notin Taken /\ Decider(y) \notin Taken
  <2>1. /\ x \in file.inHead /\ OldAt(TokenOf(x), HS(x) + 1)
        /\ y \in file.inHead /\ OldAt(TokenOf(y), HS(y) + 1)
    BY <1>2, <1>7 DEF Comes
  <2>2. HS(x) + 1 < HS(y) + 1
    <3>1. Stands(x, y)
      BY <1>1, <1>3, <2>1, HeadStands
    <3> QED BY <3>1 DEF Stands
  <2> QED BY <1>1, <1>2, <2>1, <2>2, OldBeforeOld
<1>8. CASE Decider(x) \notin Taken /\ Decider(y) \in Taken
  <2>1. x \in file.inHead /\ Decider(x) = x /\ OldAt(TokenOf(x), HS(x) + 1)
    BY <1>2, <1>8 DEF Comes
  <2>2. y \in file.inWork
    BY <1>2, <1>8 DEF Comes
  <2>3. PICK j \in DOMAIN kept :
          /\ Edits(kept[j], Decider(y)) /\ From(kept[j]) \in Nat
          /\ NewAt(TokenOf(y), j, (WS(y) + 1) - From(kept[j]))
    BY <1>2, <1>8 DEF Comes
  <2>4. /\ Pos(x) < Pos(Decider(y)) /\ Decider(y) \in file.inWork
        /\ x \in file.inWork \/ Decider(y) \in file.inHead
    <3>1. Decider(y) # x
      BY <1>8, <2>1
    <3>2. Decider(y) \in file.inWork
      BY <1>1, <2>2, FilesAssumption DEF Decider, IsMember
    <3> QED BY <1>3, <1>4, <1>5, <2>1, <3>1, <3>2
  <2>5. HS(x) + 1 <= kept[j].start
    BY <1>1, <2>1, <2>3, <2>4, StartAfter
  <2> QED BY <1>1, <1>2, <2>1, <2>3, <2>5, OldBeforeNew
<1>9. CASE Decider(x) \in Taken /\ Decider(y) \notin Taken
  <2>1. y \in file.inHead /\ Decider(y) = y /\ OldAt(TokenOf(y), HS(y) + 1)
    BY <1>2, <1>9 DEF Comes
  <2>2. x \in file.inWork
    BY <1>2, <1>9 DEF Comes
  <2>3. PICK i \in DOMAIN kept :
          /\ Edits(kept[i], Decider(x)) /\ From(kept[i]) \in Nat
          /\ NewAt(TokenOf(x), i, (WS(x) + 1) - From(kept[i]))
    BY <1>2, <1>9 DEF Comes
  <2>4. /\ Pos(Decider(x)) < Pos(y) /\ Decider(x) \in file.inWork
        /\ y \in file.inWork \/ Decider(x) \in file.inHead
    <3>1. Decider(x) # y
      BY <1>9, <2>1
    <3>2. Decider(x) \in file.inWork
      BY <1>1, <2>2, FilesAssumption DEF Decider, IsMember
    <3> QED BY <1>3, <1>4, <1>5, <2>1, <3>1, <3>2
  <2>5. kept[i].start <= HS(y)
    BY <1>1, <2>1, <2>3, <2>4, StartBefore
  <2>6. kept[i].start < HS(y) + 1
    <3>1. kept[i].start \in Nat /\ HS(y) \in Nat
      BY <1>1, <2>1, HeadBounds, KeptFields
    <3> QED BY <2>5, <3>1
  <2> QED BY <1>1, <1>2, <2>1, <2>3, <2>6, NewBeforeOld
<1> QED BY <1>6, <1>7, <1>8, <1>9

\* Nothing goes before a preface that HEAD has.
LEMMA StartsPositive ==
  ASSUME Built, file.preface, file.headExists, NEW i \in DOMAIN kept
  PROVE  kept[i].start > 0
<1>1. /\ file \in Files /\ head = HeadText(file) /\ file.style # "sections"
      /\ SpliceTypeOK
  BY BuiltMeans
<1>2. PICK a \in Deciders : Edits(kept[i], a)
  BY KeptDecides DEF IsPreface
<1>3. \A d \in file.inHead : HS(d) \in Nat /\ HS(d) >= 1
  <2>1. ASSUME NEW d \in file.inHead PROVE HS(d) \in Nat /\ HS(d) >= 1
    <3>1. HS(d) \in Froms(file.inHead, head, d)
      BY BothTexts DEF Froms
    <3>2. Spans(file.inHead, head, d, HS(d))
      BY <1>1, <3>1, TextSpans, BothTexts
    <3> QED BY <3>2 DEF Spans
  <2> QED BY <2>1
<1>4. CASE a \in file.inHead
  <2>1. kept[i].start \in Froms(file.inHead, head, a)
    BY <1>1, <1>2, <1>4, EditIs
  <2>2. Spans(file.inHead, head, a, kept[i].start)
    BY <1>1, <1>4, <2>1, TextSpans, BothTexts
  <2> QED BY <2>2 DEF Spans
<1>5. CASE a \notin file.inHead
  <2>1. kept[i].start = InsertionPoint(a) /\ Newcomer(a)
    BY <1>1, <1>2, <1>5, EditsFields
  <2>2. NewIn(a)
    BY <2>1 DEF NewIn, Newcomer
  <2>3. Placed(a, InsertionPoint(a))
    BY <1>1, <2>2, InsertionPlaced
  <2>4. /\ \A d \in file.inHead : HE(d) \in Nat /\ HS(d) < HE(d)
        /\ Container \in file.inHead => HB \in Nat /\ HS(Container) < HB
    BY <1>1, HeadBounds
  <2>5. \A d \in file.inHead : IsMember(d) /\ Container \in file.inHead => HL(d) > HS(Container)
    <3>1. ASSUME NEW d \in file.inHead, IsMember(d), Container \in file.inHead
          PROVE  HL(d) > HS(Container)
      <4>1. Pos(Container) < Pos(d)
        BY <1>1, <3>1, PosOrder, HeadBounds
      <4>2. Stands(Container, d)
        BY <1>1, <3>1, <4>1, HeadStands
      <4> QED BY <4>2 DEF Stands
    <3> QED BY <3>1
  <2>6. \A d \in file.inHead : HL(d) \in Nat
    BY <1>1, HeadBounds
  <2>7. Len(head) \in Nat /\ Len(head) > 0
    <3>1. head # <<>> /\ head \in Seq(Tokens)
      BY <1>1, Extents, FilesAssumption
    <3> QED BY <3>1, EmptySeq, LenProperties
  <2>8. Both \subseteq file.inHead
    BY DEF Both
  <2>9. CASE IsMember(a) /\ Container \in Both /\ \E b \in Both : IsMember(b) /\ InsertionPoint(a) = HL(b)
    BY <1>3, <2>1, <2>5, <2>6, <2>8, <2>9
  <2>10. CASE Container \in Both /\ InsertionPoint(a) = HB
    BY <1>3, <2>1, <2>4, <2>8, <2>10
  <2>11. CASE \E b \in Both : InsertionPoint(a) = HE(b)
    BY <1>3, <2>1, <2>4, <2>8, <2>11
  <2>12. CASE \E b \in Both : InsertionPoint(a) = HS(b)
    BY <1>3, <2>1, <2>8, <2>12
  <2>13. CASE InsertionPoint(a) = Len(head)
    BY <2>1, <2>7, <2>13
  <2> QED BY <2>3, <2>9, <2>10, <2>11, <2>12, <2>13 DEF Placed
<1> QED BY <1>4, <1>5

\* The preface of a new file is its first insertion.
LEMMA PrefaceLeads ==
  ASSUME Built, ~file.headExists, NEW i \in DOMAIN kept, IsPreface(kept[i])
  PROVE  Leads(i) /\ Begins(kept[i].text, Preface)
<1>1. /\ file \in Files /\ head = HeadText(file) /\ file.style # "sections"
      /\ SpliceTypeOK
  BY BuiltMeans
<1>2. file.preface
  BY DEF IsPreface
<1>3. PICK n \in DOMAIN kept : \A j \in DOMAIN kept : IsPreface(kept[j]) <=> n = j
  BY <1>2, PrefaceKept
<1>4. ASSUME NEW j \in DOMAIN kept, j # i PROVE MergesBefore(i, j)
  <2>1. ~IsPreface(kept[j])
    BY <1>3, <1>4
  <2>2. PICK a \in Deciders : Edits(kept[j], a)
    BY <2>1, KeptDecides
  <2>3. a \notin file.inHead
    BY <1>1, FilesAssumption
  <2>4. a \in file.inWork /\ kept[j].seq = WS(a)
    BY <2>2, <2>3 DEF Edits, Both, Newcomer
  <2>5. WS(a) \in Nat /\ WS(a) >= 1
    <3>1. WS(a) \in Froms(file.inWork, work, a)
      BY BothTexts DEF Froms
    <3>2. Spans(file.inWork, work, a, WS(a))
      BY <1>1, <2>4, <3>1, TextSpans, BothTexts
    <3> QED BY <1>2, <3>2 DEF Spans
  <2>6. kept[i].seq = 0
    BY DEF IsPreface, PrefaceInsertion
  <2> QED BY <2>4, <2>5, <2>6 DEF MergesBefore
<1>5. Begins(kept[i].text, Preface)
  <2>1. kept[i].text = PrefaceInsertion.text
    BY DEF IsPreface
  <2>2. /\ PrefaceEnd \in Nat /\ 1 <= PrefaceEnd /\ PrefaceEnd <= Len(work)
        /\ PieceOf(PrefaceInsertion.text, 0, PrefaceEnd)
    BY <1>1, <1>2, PrefaceIs
  <2>3. 1 \in DOMAIN PrefaceInsertion.text /\ PrefaceInsertion.text[1] = work[1]
    <3>1. 1 \in 1..(PrefaceEnd - 0) /\ 0 + 1 = 1
      BY <2>2
    <3> QED BY <2>2, <3>1 DEF PieceOf
  <2>4. work[1] = Preface
    <3>1. Laden(file.inWork, "new", work)
      BY <1>1, TextLaden, BothTexts
    <3>2. 1 \in 1..Len(work)
      BY <1>1, <2>2, Extents, LenProperties
    <3> QED BY <1>2, <3>1, <3>2 DEF Laden
  <2>5. PrefaceInsertion.text # <<>>
    <3>1. DOMAIN <<>> = {}
      OBVIOUS
    <3> QED BY <2>3, <3>1
  <2> QED BY <2>1, <2>3, <2>4, <2>5 DEF Begins
<1> QED BY <1>4, <1>5 DEF Leads

LEMMA PrefaceFirst ==
  ASSUME Built, file.preface
  PROVE  Place(Preface) = 1
<1>1. /\ file \in Files /\ head = HeadText(file) /\ file.style # "sections"
      /\ SpliceTypeOK
  BY BuiltMeans
<1>2. Fronted /\ pc = "spliced"
  BY DEF Built, SpliceInv
<1>3. Preface \in Declared /\ RightContent
  BY ContentRight DEF Declared
<1>4. Preface \in Solids
  BY <1>3, DeclaredOnce
<1>5. CASE file.headExists
  <2>1. \A i \in DOMAIN kept : kept[i].start > 0
    BY <1>5, StartsPositive
  <2>2. Begins(head, Preface)
    BY <1>5, PrefaceComes DEF Begins
  <2> QED
    <3>1. Begins(out, Preface)
      BY <1>2, <1>4, <2>1, <2>2 DEF Fronted
    <3>2. out \in Seq(Tokens) /\ 1 \in DOMAIN out /\ out[1] = Preface
      <4>1. out \in Seq(Tokens)
        BY <1>1 DEF SpliceTypeOK
      <4>2. Len(out) >= 1 /\ Len(out) \in Nat
        BY <3>1, <4>1, BeginsLen
      <4> QED BY <3>1, <4>1, <4>2, LenProperties DEF Begins
    <3> QED BY <1>3, <3>2, PlaceFound
<1>6. CASE ~file.headExists
  <2>1. PICK i \in DOMAIN kept : IsPreface(kept[i])
    BY <1>6, PrefaceComes
  <2>2. Leads(i) /\ Begins(kept[i].text, Preface)
    BY <1>6, <2>1, PrefaceLeads
  <2>3. head = <<>>
    BY <1>1, <1>6 DEF HeadText
  <2>4. Begins(out, Preface)
    BY <1>2, <1>4, <2>2, <2>3 DEF Fronted
  <2>5. out \in Seq(Tokens)
    BY <1>1 DEF SpliceTypeOK
  <2>6. Len(out) >= 1 /\ Len(out) \in Nat
    BY <2>4, <2>5, BeginsLen
  <2>7. 1 \in DOMAIN out /\ out[1] = Preface
    BY <2>4, <2>5, <2>6, LenProperties DEF Begins
  <2> QED BY <1>3, <2>5, <2>7, PlaceFound
<1> QED BY <1>5, <1>6

LEMMA OrderRight ==
  ASSUME Built
  PROVE  RightOrder
<1>1. RightContent /\ out \in Seq(Tokens)
  BY ContentRight, BuiltMeans DEF SpliceTypeOK
<1>2. \A x \in Survivors : TokenOf(x) \in Declared
  BY DEF Declared
<1>3. ASSUME NEW x \in Survivors, NEW y \in Survivors, Precedes(x, y)
      PROVE  Place(TokenOf(x)) < Place(TokenOf(y))
  BY <1>1, <1>2, <1>3, SurvivorsGo, PlacesGo
<1> QED BY <1>3, PrefaceFirst DEF RightOrder

-----------------------------------------------------------------------------
(* The staged text has nothing between the lines of its container but what *)
(* is the container's.                                                     *)

\* The tokens the container holds.
Inner == {TokenOf(d) : d \in Survivors \cap Members} \cup (Declared \cap {Closing})

LEMMA InnerAre ==
  ASSUME Built, Survives(Container)
  PROVE  /\ Container \in Survivors /\ TokenOf(Container) = Opening(Container)
         /\ Decider(Container) = Container /\ ~IsMember(Container)
         /\ Inner \subseteq Declared
         /\ \A t \in Inner : \/ \E m \in Survivors : IsMember(m) /\ t = TokenOf(m)
                             \/ t = Closing /\ file.style = "braces"
<1>1. ~IsMember(Container) /\ Container \in Symbols
  BY SymbolsAssumption DEF IsMember
<1>2. Container \in Survivors /\ Decider(Container) = Container
  BY <1>1 DEF Survivors, Decider
<1>3. TokenOf(Container) = Opening(Container)
  BY DEF TokenOf, Own
<1>4. Inner \subseteq Declared
  BY DEF Inner, Declared
<1>5. Closing \in Declared => file.style = "braces"
  <2>1. ASSUME NEW d \in Survivors PROVE TokenOf(d) # Closing
    BY TokensApart DEF TokenOf
  <2> QED BY <2>1, TokensApart DEF Declared
<1>6. \A t \in Inner : \/ \E m \in Survivors : IsMember(m) /\ t = TokenOf(m)
                       \/ t = Closing /\ file.style = "braces"
  BY <1>5 DEF Inner, IsMember
<1> QED BY <1>1, <1>2, <1>3, <1>4, <1>6

\* The delimiter is not the opening.
LEMMA DelimitersApart ==
  ASSUME file \in Files, head = HeadText(file), file.style = "braces",
         NEW S, NEW v, NEW src, OneText(S, v, src), Container \in S
  PROVE  /\ Starts(S, src, Container) \in Nat /\ Ends(S, src, Container) \in Nat
         /\ Starts(S, src, Container) + 1 < Ends(S, src, Container)
<1>1. Laden(S, v, src) /\ Bounded(S, src, Container)
  BY TextLaden, TextLaid
<1>2. /\ src[Starts(S, src, Container) + 1] = Own(Container, v)
      /\ src[Ends(S, src, Container)] = Closing
  BY <1>1 DEF Laden
<1>3. Starts(S, src, Container) + 1 # Ends(S, src, Container)
  BY <1>2, TokensApart
<1> QED BY <1>1, <1>3 DEF Bounded

\* A container that is taken comes whole.
Carried(i, t) ==
  /\ t \in Solids
  /\ \E l : NewAt(t, i, l) /\ (WS(Container) + 1) - From(kept[i]) < l

LEMMA InnerCarried ==
  ASSUME Built, Survives(Container), Container \in Taken,
         NEW i \in DOMAIN kept, Edits(kept[i], Container), From(kept[i]) \in Nat,
         NEW t \in Inner
  PROVE  Carried(i, t)
<1>1. file \in Files /\ head = HeadText(file) /\ file.style # "sections"
  BY BuiltMeans
<1>2. Container \in file.inWork
  BY InnerAre DEF Survives
<1>3. t \in Solids
  BY InnerAre, DeclaredOnce
<1>4. ASSUME NEW m \in Survivors, IsMember(m), t = TokenOf(m) PROVE Carried(i, t)
  <2>1. Decider(m) = Container
    BY <1>4 DEF Decider
  <2>2. Comes(m) /\ m \in file.inWork
    BY <2>1, SurvivorComes DEF Comes
  <2>3. PICK j \in DOMAIN kept :
          Edits(kept[j], Container) /\ NewAt(t, j, (WS(m) + 1) - From(kept[j]))
    BY <1>4, <2>1, <2>2 DEF Comes
  <2>4. i = j
    BY <2>3, EditOnce
  <2>5. Pos(Container) < Pos(m)
    BY <1>1, <1>2, <1>4, <2>2, PosOrder, WorkBounds
  <2>6. WS(Container) \in Nat /\ WS(m) \in Nat /\ WS(Container) < WS(m)
    BY <1>1, <1>2, <2>2, <2>5, WorkGoes
  <2>7. (WS(Container) + 1) - From(kept[i]) < (WS(m) + 1) - From(kept[i])
    BY <2>6
  <2> QED BY <1>3, <2>3, <2>4, <2>7 DEF Carried
<1>5. ASSUME t = Closing, file.style = "braces" PROVE Carried(i, t)
  <2>1. PICK j \in DOMAIN kept :
          Edits(kept[j], Container) /\ NewAt(t, j, WE(Container) - From(kept[j]))
    BY <1>2, <1>5, ClosingComes
  <2>2. i = j
    BY <2>1, EditOnce
  <2>3. WS(Container) \in Nat /\ WE(Container) \in Nat /\ WS(Container) + 1 < WE(Container)
    BY <1>1, <1>2, <1>5, DelimitersApart, BothTexts
  <2>4. (WS(Container) + 1) - From(kept[i]) < WE(Container) - From(kept[i])
    BY <2>3
  <2> QED BY <1>3, <2>1, <2>2, <2>4 DEF Carried
<1> QED BY <1>4, <1>5, InnerAre

\* What the container holds comes after its opening, and a declaration outside
\* either before that or after all of it.
Nested(d, t) ==
  /\ InOrder(out, Opening(Container), t)
  /\ InOrder(out, TokenOf(d), Opening(Container)) \/ InOrder(out, t, TokenOf(d))

LEMMA TakenNested ==
  ASSUME Built, Survives(Container), Container \in Taken,
         NEW d \in Survivors, d # Container, ~IsMember(d), NEW t \in Inner
  PROVE  Nested(d, t)
<1>1. /\ file \in Files /\ head = HeadText(file) /\ file.style # "sections"
      /\ SpliceTypeOK /\ EditedBy(out, DOMAIN kept)
  BY BuiltMeans
<1>2. /\ Container \in Survivors /\ TokenOf(Container) = Opening(Container)
      /\ Decider(Container) = Container
  BY InnerAre
<1>3. /\ Comes(Container) /\ Opening(Container) \in Solids /\ Container \in file.inWork
      /\ Comes(d) /\ TokenOf(d) \in Solids
  BY <1>2, SurvivorComes DEF Comes
<1>4. PICK i \in DOMAIN kept :
        /\ Edits(kept[i], Container) /\ From(kept[i]) \in Nat
        /\ NewAt(Opening(Container), i, (WS(Container) + 1) - From(kept[i]))
  BY <1>2, <1>3 DEF Comes
<1>5. Carried(i, t) /\ t \in Solids
  BY <1>4, InnerCarried DEF Carried
<1>6. PICK l : NewAt(t, i, l) /\ (WS(Container) + 1) - From(kept[i]) < l
  BY <1>5 DEF Carried
<1>7. InOrder(out, Opening(Container), t)
  BY <1>1, <1>3, <1>4, <1>5, <1>6, NewBeforeNew
<1>8. Decider(d) = d
  BY DEF Decider
<1>9. CASE d \in Taken
  <2>1. PICK j, k : j \in DOMAIN kept /\ Edits(kept[j], d) /\ NewAt(TokenOf(d), j, k)
    BY <1>3, <1>8, <1>9 DEF Comes
  <2>2. d \in file.inWork
    BY <1>3, <1>8, <1>9 DEF Comes
  <2>3. Pos(d) < Pos(Container) \/ Pos(Container) < Pos(d)
    BY <1>1, <1>3, <2>2, PosOrder, WorkBounds
  <2>4. CASE Pos(d) < Pos(Container)
    <3>1. Ahead(j, i)
      BY <1>3, <1>4, <2>1, <2>2, <2>4, EditsGo
    <3>2. InOrder(out, TokenOf(d), Opening(Container))
      BY <1>1, <1>3, <1>4, <2>1, <3>1, NewBeforeNew
    <3> QED BY <1>7, <3>2 DEF Nested
  <2>5. CASE Pos(Container) < Pos(d)
    <3>1. Ahead(i, j)
      BY <1>3, <1>4, <2>1, <2>2, <2>5, EditsGo
    <3>2. InOrder(out, t, TokenOf(d))
      BY <1>1, <1>3, <1>5, <1>6, <2>1, <3>1, NewBeforeNew
    <3> QED BY <1>7, <3>2 DEF Nested
  <2> QED BY <2>3, <2>4, <2>5
<1>10. CASE d \notin Taken
  <2>1. OldAt(TokenOf(d), HS(d) + 1) /\ d \in file.inHead
    BY <1>3, <1>8, <1>10 DEF Comes
  <2>2. HS(d) \in Nat /\ kept[i].start \in Nat
    BY <1>1, <2>1, HeadBounds, KeptFields
  <2>3. CASE HS(d) + 1 <= kept[i].start
    <3>1. InOrder(out, TokenOf(d), Opening(Container))
      BY <1>1, <1>3, <1>4, <2>1, <2>3, OldBeforeNew
    <3> QED BY <1>7, <3>1 DEF Nested
  <2>4. CASE kept[i].start < HS(d) + 1
    <3>1. InOrder(out, t, TokenOf(d))
      BY <1>1, <1>3, <1>5, <1>6, <2>1, <2>4, NewBeforeOld
    <3> QED BY <1>7, <3>1 DEF Nested
  <2> QED BY <2>2, <2>3, <2>4
<1> QED BY <1>9, <1>10

\* A container that stays holds what is left of it and what is put in it.
HeldOld(t) == \E l : OldAt(t, l) /\ HS(Container) + 1 < l /\ l <= HE(Container)

HeldNew(t) ==
  \E k \in DOMAIN kept : \E l :
    /\ NewAt(t, k, l)
    /\ HS(Container) + 1 <= kept[k].start
    /\ \/ kept[k].start < HE(Container)
       \/ /\ kept[k].start = HE(Container)
          /\ \E m \in file.inWork \ file.inHead : IsMember(m) /\ Edits(kept[k], m)

LEMMA InnerHeld ==
  ASSUME Built, Survives(Container), Container \notin Taken, NEW t \in Inner
  PROVE  HeldOld(t) \/ HeldNew(t)
<1>1. /\ file \in Files /\ head = HeadText(file) /\ file.style # "sections"
      /\ SpliceTypeOK
  BY BuiltMeans
<1>2. Container \in file.inHead /\ file.headExists
  BY InnerAre DEF Survives
<1>3. ASSUME NEW m \in file.inHead, IsMember(m)
      PROVE  /\ HS(Container) \in Nat /\ HS(m) \in Nat /\ HE(m) \in Nat /\ HE(Container) \in Nat
             /\ HS(Container) < HS(m) /\ HS(m) < HE(m) /\ HE(m) <= HE(Container)
  <2>1. Pos(Container) < Pos(m)
    BY <1>1, <1>2, <1>3, PosOrder, HeadBounds
  <2>2. Stands(Container, m)
    BY <1>1, <1>2, <2>1, HeadStands
  <2>3. HE(Container) \in Nat
    BY <1>1, <1>2, HeadBounds
  <2> QED BY <1>3, <2>2, <2>3 DEF Stands
<1>4. ASSUME NEW m \in Survivors, IsMember(m), t = TokenOf(m)
      PROVE  HeldOld(t) \/ HeldNew(t)
  <2>1. Comes(m) /\ Decider(m) = m
    BY SurvivorComes DEF Decider
  <2>2. CASE m \notin Taken
    <3>1. OldAt(t, HS(m) + 1) /\ m \in file.inHead
      BY <1>4, <2>1, <2>2 DEF Comes
    <3>2. HS(Container) + 1 < HS(m) + 1 /\ HS(m) + 1 <= HE(Container)
      BY <1>3, <1>4, <3>1
    <3> QED BY <3>1, <3>2 DEF HeldOld
  <2>3. CASE m \in Taken
    <3>1. m \in file.inWork
      BY <2>1, <2>3 DEF Comes
    <3>2. PICK k, l : k \in DOMAIN kept /\ Edits(kept[k], m) /\ NewAt(t, k, l)
      BY <1>4, <2>1, <2>3 DEF Comes
    <3>3. CASE m \in file.inHead
      <4>1. kept[k].start = HS(m)
        BY <1>1, <3>1, <3>2, <3>3, EditsFields
      <4>2. HS(Container) + 1 <= kept[k].start /\ kept[k].start < HE(Container)
        BY <1>3, <1>4, <3>3, <4>1
      <4> QED BY <3>2, <4>2 DEF HeldNew
    <3>4. CASE m \notin file.inHead
      <4>1. kept[k].start = InsertionPoint(m) /\ Newcomer(m)
        BY <1>1, <3>2, <3>4, EditsFields
      <4>2. NewIn(m)
        BY <1>2, <4>1 DEF NewIn, Newcomer
      <4>3. HS(Container) < kept[k].start /\ kept[k].start <= HE(Container)
        BY <1>1, <1>4, <4>1, <4>2, PointInside
      <4>4. HS(Container) \in Nat /\ HE(Container) \in Nat /\ kept[k].start \in Nat
        <5>1. kept[k].start \in Nat
          BY <1>1, <3>2, KeptFields
        <5> QED BY <1>1, <1>2, <5>1, HeadBounds
      <4>5. /\ HS(Container) + 1 <= kept[k].start
            /\ kept[k].start < HE(Container) \/ kept[k].start = HE(Container)
        BY <4>3, <4>4
      <4> QED BY <1>4, <3>1, <3>2, <3>4, <4>5 DEF HeldNew
    <3> QED BY <3>3, <3>4
  <2> QED BY <2>2, <2>3
<1>5. ASSUME t = Closing, file.style = "braces" PROVE HeldOld(t)
  <2>1. OldAt(t, HE(Container))
    BY <1>2, <1>5, ClosingComes
  <2>2. HE(Container) \in Nat /\ HS(Container) + 1 < HE(Container)
    BY <1>1, <1>2, <1>5, DelimitersApart, BothTexts
  <2> QED BY <2>1, <2>2 DEF HeldOld
<1> QED BY <1>4, <1>5, InnerAre

\* Of a declaration outside: it goes before the container or after it.
LEMMA OutsideOld ==
  ASSUME Built, Survives(Container), Container \notin Taken,
         NEW d \in Survivors, d # Container, ~IsMember(d), d \notin Taken, NEW t \in Inner
  PROVE  InOrder(out, TokenOf(d), Opening(Container)) \/ InOrder(out, t, TokenOf(d))
<1>1. /\ file \in Files /\ head = HeadText(file) /\ file.style # "sections"
      /\ SpliceTypeOK /\ EditedBy(out, DOMAIN kept)
  BY BuiltMeans
<1>2. /\ Container \in Survivors /\ TokenOf(Container) = Opening(Container)
      /\ Container \in file.inHead
  BY InnerAre DEF Survives
<1>3. Comes(d) /\ Decider(d) = d
  BY SurvivorComes DEF Decider
<1>4. OldAt(TokenOf(d), HS(d) + 1) /\ d \in file.inHead /\ TokenOf(d) \in Solids
  BY <1>3 DEF Comes
<1>5. Pos(d) < Pos(Container) \/ Pos(Container) < Pos(d)
  BY <1>1, <1>2, <1>4, PosOrder, HeadBounds
<1>6. CASE Pos(d) < Pos(Container)
  <2>1. Precedes(d, Container)
    BY <1>2, <1>4, <1>6 DEF Precedes, Pos
  <2> QED BY <1>2, <2>1, SurvivorsGo
<1>7. CASE Pos(Container) < Pos(d)
  <2>1. HE(Container) \in Nat /\ HE(Container) < HS(d) + 1 /\ HS(d) \in Nat
    <3>1. Stands(Container, d)
      BY <1>1, <1>2, <1>4, <1>7, HeadStands
    <3> QED BY <3>1 DEF Stands
  <2>2. t \in Solids
    BY InnerAre, DeclaredOnce
  <2>3. CASE HeldOld(t)
    <3>1. PICK l : OldAt(t, l) /\ l <= HE(Container)
      BY <2>3 DEF HeldOld
    <3>2. OldPlaced(t, l)
      BY <1>1, <3>1, OldPlace
    <3>3. l < HS(d) + 1
      BY <1>1, <2>1, <3>1, <3>2 DEF OldPlaced
    <3> QED BY <1>1, <1>4, <2>2, <3>1, <3>3, OldBeforeOld
  <2>4. CASE HeldNew(t)
    <3>1. PICK k, l :
            /\ k \in DOMAIN kept /\ NewAt(t, k, l)
            /\ (kept[k].start < HE(Container) \/ kept[k].start = HE(Container))
      BY <2>4 DEF HeldNew
    <3>2. kept[k].start < HS(d) + 1
      BY <1>1, <2>1, <3>1, KeptFields
    <3> QED BY <1>1, <1>4, <2>2, <3>1, <3>2, NewBeforeOld
  <2> QED BY <2>3, <2>4, InnerHeld
<1> QED BY <1>5, <1>6, <1>7

LEMMA OutsideNew ==
  ASSUME Built, Survives(Container), Container \notin Taken,
         NEW d \in Survivors, d # Container, ~IsMember(d), d \in Taken, NEW t \in Inner
  PROVE  InOrder(out, TokenOf(d), Opening(Container)) \/ InOrder(out, t, TokenOf(d))
<1>1. /\ file \in Files /\ head = HeadText(file) /\ file.style # "sections"
      /\ SpliceTypeOK /\ EditedBy(out, DOMAIN kept)
  BY BuiltMeans
<1>2. /\ Container \in Survivors /\ TokenOf(Container) = Opening(Container)
      /\ Container \in file.inHead /\ file.headExists
  BY InnerAre DEF Survives
<1>3. Comes(d) /\ Decider(d) = d /\ d \in file.inWork /\ TokenOf(d) \in Solids
  BY SurvivorComes DEF Decider, Comes
<1>4. PICK j, n : j \in DOMAIN kept /\ Edits(kept[j], d) /\ NewAt(TokenOf(d), j, n)
  BY <1>3 DEF Comes
<1>5. /\ Comes(Container) /\ Opening(Container) \in Solids
      /\ OldAt(Opening(Container), HS(Container) + 1)
  BY <1>2, SurvivorComes, InnerAre DEF Comes
<1>6. /\ HS(Container) \in Nat /\ HE(Container) \in Nat /\ HS(Container) < HE(Container)
      /\ kept[j].start \in Nat
  <2>1. kept[j].start \in Nat
    BY <1>1, <1>4, KeptFields
  <2> QED BY <1>1, <1>2, <2>1, HeadBounds
<1>7. \/ kept[j].start < HS(Container) + 1
      \/ /\ HE(Container) <= kept[j].start
         /\ d \in file.inHead \/ Pos(Container) < Pos(d) \/ Container \notin file.inWork
  <2>1. CASE d \in file.inHead
    <3>1. kept[j].start = HS(d)
      BY <1>1, <1>3, <1>4, <2>1, EditsFields
    <3>2. Pos(d) < Pos(Container) \/ Pos(Container) < Pos(d)
      BY <1>1, <1>2, <2>1, PosOrder, HeadBounds
    <3>3. CASE Pos(d) < Pos(Container)
      <4>1. Stands(d, Container)
        BY <1>1, <1>2, <2>1, <3>3, HeadStands
      <4> QED BY <3>1, <4>1 DEF Stands
    <3>4. CASE Pos(Container) < Pos(d)
      <4>1. Stands(Container, d)
        BY <1>1, <1>2, <2>1, <3>4, HeadStands
      <4> QED BY <2>1, <3>1, <4>1 DEF Stands
    <3> QED BY <3>2, <3>3, <3>4
  <2>2. CASE d \notin file.inHead
    <3>1. kept[j].start = InsertionPoint(d) /\ Newcomer(d)
      BY <1>1, <1>4, <2>2, EditsFields
    <3>2. NewIn(d) /\ OnlyWork(d)
      BY <1>2, <1>3, <2>2, <3>1 DEF NewIn, Newcomer, OnlyWork
    <3>3. ~LandsInside(d)
      BY DEF Built, Misplaced
    <3>4. kept[j].start <= HS(Container) \/ HE(Container) <= kept[j].start
      BY <1>2, <1>6, <3>1, <3>2, <3>3 DEF LandsInside, HS, HE
    <3>5. CASE kept[j].start <= HS(Container)
      BY <1>6, <3>5
    <3>6. CASE HE(Container) <= kept[j].start /\ Container \in file.inWork
      <4>1. Container \in Both
        BY <1>2, <3>6 DEF Both
      <4>2. Pos(d) < Pos(Container) \/ Pos(Container) < Pos(d)
        BY <1>1, <1>3, <3>6, PosOrder, WorkBounds
      <4>3. ~(Pos(d) < Pos(Container))
        <5>1. Pos(d) < Pos(Container) => kept[j].start <= HS(Container)
          BY <1>1, <3>1, <3>2, <4>1, PointBefore
        <5> QED BY <1>6, <3>6, <5>1
      <4> QED BY <3>6, <4>2, <4>3
    <3> QED BY <3>4, <3>5, <3>6
  <2> QED BY <2>1, <2>2
<1>8. CASE kept[j].start < HS(Container) + 1
  BY <1>1, <1>3, <1>4, <1>5, <1>8, NewBeforeOld
<1>9. CASE /\ HE(Container) <= kept[j].start
           /\ d \in file.inHead \/ Pos(Container) < Pos(d) \/ Container \notin file.inWork
  <2>1. t \in Solids
    BY InnerAre, DeclaredOnce
  <2>2. CASE HeldOld(t)
    <3>1. PICK l : OldAt(t, l) /\ l <= HE(Container)
      BY <2>2 DEF HeldOld
    <3>2. OldPlaced(t, l)
      BY <1>1, <3>1, OldPlace
    <3>3. l <= kept[j].start
      BY <1>6, <1>9, <3>1, <3>2 DEF OldPlaced
    <3> QED BY <1>1, <1>3, <1>4, <2>1, <3>1, <3>3, OldBeforeNew
  <2>3. CASE HeldNew(t)
    <3>1. PICK k, l :
            /\ k \in DOMAIN kept /\ NewAt(t, k, l)
            /\ \/ kept[k].start < HE(Container)
               \/ /\ kept[k].start = HE(Container)
                  /\ \E m \in file.inWork \ file.inHead : IsMember(m) /\ Edits(kept[k], m)
      BY <2>3 DEF HeldNew
    <3>2. kept[k].start \in Nat
      BY <1>1, <3>1, KeptFields
    <3>3. CASE kept[k].start < kept[j].start
      <4>1. Ahead(k, j)
        BY <3>3 DEF Ahead
      <4> QED BY <1>1, <1>3, <1>4, <2>1, <3>1, <4>1, NewBeforeNew
    <3>4. CASE kept[k].start = HE(Container) /\ kept[j].start = HE(Container)
      <4>1. PICK m \in file.inWork \ file.inHead : IsMember(m) /\ Edits(kept[k], m)
        BY <1>6, <3>1, <3>4
      <4>2. kept[k].kind = "insert"
        BY <1>1, <4>1, EditsFields
      <4>3. Container \in file.inWork
        BY <1>1, <4>1, FilesAssumption DEF IsMember
      <4>4. CASE d \in file.inHead
        <5>1. kept[j].kind # "insert"
          BY <1>1, <1>4, <4>4, EditsFields
        <5>2. Ahead(k, j)
          BY <3>4, <4>2, <5>1 DEF Ahead
        <5> QED BY <1>1, <1>3, <1>4, <2>1, <3>1, <5>2, NewBeforeNew
      <4>5. CASE Pos(Container) < Pos(d)
        <5>1. Pos(m) < Pos(d)
          <6>1. m = d \/ Pos(m) < Pos(d) \/ Pos(d) < Pos(m)
            BY <1>1, <1>3, <4>1, PosOrder, WorkBounds
          <6>2. ~(Pos(d) < Pos(m))
            BY <1>1, <1>3, <4>1, <4>5, Inside
          <6> QED BY <4>1, <6>1, <6>2
        <5>2. Ahead(k, j)
          BY <1>3, <1>4, <3>1, <4>1, <5>1, EditsGo
        <5> QED BY <1>1, <1>3, <1>4, <2>1, <3>1, <5>2, NewBeforeNew
      <4> QED BY <1>9, <4>3, <4>4, <4>5
    <3> QED BY <1>6, <1>9, <3>1, <3>2, <3>3, <3>4
  <2> QED BY <2>2, <2>3, InnerHeld
<1> QED BY <1>7, <1>8, <1>9

LEMMA StayingNested ==
  ASSUME Built, Survives(Container), Container \notin Taken,
         NEW d \in Survivors, d # Container, ~IsMember(d), NEW t \in Inner
  PROVE  Nested(d, t)
<1>1. /\ file \in Files /\ head = HeadText(file) /\ file.style # "sections"
      /\ SpliceTypeOK /\ EditedBy(out, DOMAIN kept)
  BY BuiltMeans
<1>2. /\ Opening(Container) \in Solids /\ OldAt(Opening(Container), HS(Container) + 1)
  BY InnerAre, SurvivorComes DEF Comes
<1>3. t \in Solids
  BY InnerAre, DeclaredOnce
<1>4. InOrder(out, Opening(Container), t)
  <2>1. CASE HeldOld(t)
    BY <1>1, <1>2, <1>3, <2>1, OldBeforeOld DEF HeldOld
  <2>2. CASE HeldNew(t)
    BY <1>1, <1>2, <1>3, <2>2, OldBeforeNew DEF HeldNew
  <2> QED BY <2>1, <2>2, InnerHeld
<1> QED BY <1>4, OutsideOld, OutsideNew DEF Nested

LEMMA NestingRight ==
  ASSUME Built
  PROVE  RightNesting
<1>1. SUFFICES ASSUME Survives(Container),
                      NEW d \in Survivors \ ({Container} \cup Members), NEW t \in Inner
               PROVE  Place(TokenOf(d)) < Place(Opening(Container))
                        <=> Place(TokenOf(d)) < Place(t)
  BY DEF RightNesting, Inner
<1>2. RightContent /\ out \in Seq(Tokens)
  BY ContentRight, BuiltMeans DEF SpliceTypeOK
<1>3. TokenOf(d) \in Declared /\ Opening(Container) \in Declared /\ t \in Declared
  <2>1. \A e \in Survivors : TokenOf(e) \in Declared
    BY DEF Declared
  <2> QED BY <1>1, <2>1, InnerAre
<1>4. Nested(d, t)
  BY <1>1, TakenNested, StayingNested DEF IsMember
<1>5. /\ Place(TokenOf(d)) \in Nat /\ Place(Opening(Container)) \in Nat /\ Place(t) \in Nat
  <2>1. DOMAIN out = 1..Len(out)
    BY <1>2, LenProperties
  <2> QED BY <1>2, <1>3, <2>1, PlaceFound
<1>6. Place(Opening(Container)) < Place(t)
  BY <1>2, <1>3, <1>4, PlacesGo DEF Nested
<1>7. Place(TokenOf(d)) < Place(Opening(Container)) \/ Place(t) < Place(TokenOf(d))
  BY <1>2, <1>3, <1>4, PlacesGo DEF Nested
<1> QED BY <1>5, <1>6, <1>7

\* So the text is the one the anchors name.
LEMMA BuiltAsNamed ==
  ASSUME Built
  PROVE  AsNamed
  BY ContentRight, OrderRight, NestingRight DEF AsNamed

\* What should be declared is settled by the anchors, too, ...
LEMMA DeclaredStays ==
  ASSUME file' = file, named' = named
  PROVE  /\ Survivors' = Survivors /\ Declared' = Declared /\ Inner' = Inner
         /\ Survives(Container)' <=> Survives(Container)
         /\ \A d : TokenOf(d)' = TokenOf(d)
         /\ \A x, y : Precedes(x, y)' <=> Precedes(x, y)
<1>1. Taken' = Taken
  BY TakenStays
<1>2. \A d : Decider(d)' = Decider(d)
  BY <1>1 DEF Decider
<1>3. \A d : (Survives(d)' <=> Survives(d)) /\ TokenOf(d)' = TokenOf(d)
  BY <1>1, <1>2 DEF Survives, TokenOf
<1>4. Survivors' = Survivors
  BY <1>3 DEF Survivors
<1>5. Declared' = Declared
  BY <1>3, <1>4 DEF Declared
<1>6. Inner' = Inner
  BY <1>3, <1>4, <1>5 DEF Inner
<1>7. \A x, y : Precedes(x, y)' <=> Precedes(x, y)
  BY DEF Precedes
<1> QED BY <1>3, <1>4, <1>5, <1>6, <1>7

\* ... and a final newline moves nothing that is.
LEMMA NewlineMovesNothing ==
  ASSUME NEW s \in Seq(Tokens), NEW x, x # NL
  PROVE  \A i : /\ i \in DOMAIN s => Append(s, NL)[i] = s[i] /\ i \in DOMAIN Append(s, NL)
                /\ i \in DOMAIN Append(s, NL) /\ Append(s, NL)[i] = x => i \in DOMAIN s
                /\ i \in DOMAIN Append(s, NL) => i \in DOMAIN s \/ Append(s, NL)[i] = NL
<1>1. /\ Len(s) \in Nat /\ DOMAIN s = 1..Len(s)
      /\ Append(s, NL) \in Seq(Tokens) /\ Len(Append(s, NL)) = Len(s) + 1
      /\ \A i \in 1..Len(s) : Append(s, NL)[i] = s[i]
      /\ Append(s, NL)[Len(s) + 1] = NL
  BY TokensAssumption, AppendProperties, LenProperties
<1>2. DOMAIN Append(s, NL) = 1..(Len(s) + 1)
  BY <1>1, LenProperties
<1> QED BY <1>1, <1>2

LEMMA PlaceStays ==
  ASSUME out \in Seq(Tokens), out' = out \/ out' = Append(out, NL),
         NEW x, x # NL, TokenCount(out, x) = 1
  PROVE  Place(x)' = Place(x) /\ TokenCount(out', x) = 1
<1>1. CASE out' = out
  BY <1>1 DEF Place
<1>2. CASE out' = Append(out, NL)
  <2>1. \A i : i \in DOMAIN out' /\ out'[i] = x <=> i \in DOMAIN out /\ out[i] = x
    BY <1>2, NewlineMovesNothing
  <2>2. {i \in DOMAIN out' : out'[i] = x} = {i \in DOMAIN out : out[i] = x}
    BY <2>1
  <2>3. TokenCount(out', x) = 1
    BY <2>2 DEF TokenCount
  <2>4. PICK p \in DOMAIN out : \A q \in DOMAIN out : out[q] = x <=> q = p
    BY PlaceIs
  <2>5. Place(x) = p
    BY <2>4 DEF Place
  <2>6. p \in DOMAIN out' /\ out'[p] = x /\ \A q \in DOMAIN out' : out'[q] = x => q = p
    BY <2>1, <2>4
  <2>7. Place(x)' = p
    BY <2>6 DEF Place
  <2> QED BY <2>3, <2>5, <2>7
<1> QED BY <1>1, <1>2

LEMMA AsNamedStays ==
  ASSUME file' = file, named' = named, out \in Seq(Tokens),
         out' = out \/ (out' = Append(out, NL) /\ NL \notin Declared), AsNamed
  PROVE  AsNamed'
<1>1. /\ Survivors' = Survivors /\ Declared' = Declared /\ Inner' = Inner
      /\ Survives(Container)' <=> Survives(Container)
      /\ \A d : TokenOf(d)' = TokenOf(d)
      /\ \A x, y : Precedes(x, y)' <=> Precedes(x, y)
  BY DeclaredStays
<1>2. RightContent /\ RightOrder /\ RightNesting
  BY DEF AsNamed
<1>3. \A x \in Declared : Place(x)' = Place(x) /\ TokenCount(out', x) = 1
  <2>1. CASE out' = out
    BY <1>2, <2>1 DEF RightContent, Place
  <2>2. CASE out' = Append(out, NL) /\ NL \notin Declared
    BY <1>2, <2>2, PlaceStays DEF RightContent
  <2> QED BY <2>1, <2>2
<1>4. RightContent'
  <2>1. ToSet(out') \subseteq Declared \cup {NL, Tab}
    <3>1. CASE out' = out
      BY <1>2, <3>1 DEF RightContent
    <3>2. CASE out' = Append(out, NL)
      <4>1. \A i \in DOMAIN out' : (i \in DOMAIN out /\ out'[i] = out[i]) \/ out'[i] = NL
        BY <3>2, NewlineMovesNothing, FilesAssumption
      <4> QED BY <1>2, <4>1 DEF RightContent, ToSet
    <3> QED BY <3>1, <3>2
  <2> QED BY <1>1, <1>3, <2>1 DEF RightContent
<1>5. RightOrder'
  <2>1. \A x \in Survivors : TokenOf(x) \in Declared
    BY DEF Declared
  <2>2. file.preface => Preface \in Declared
    BY DEF Declared
  <2> QED BY <1>1, <1>2, <1>3, <2>1, <2>2 DEF RightOrder
<1>6. RightNesting'
  <2>1. \A x \in Survivors : TokenOf(x) \in Declared
    BY DEF Declared
  <2>2. Inner \subseteq Declared
    BY DEF Inner, Declared
  <2>3. Survives(Container) => Opening(Container) \in Declared
    <3>1. Survives(Container) => Container \in Survivors
      BY SymbolsAssumption DEF Survivors
    <3>2. TokenOf(Container) = Opening(Container)
      BY DEF TokenOf, Own
    <3> QED BY <2>1, <3>1, <3>2
  <2>4. Opening(Container)' = Opening(Container)
    BY DEF Opening
  <2>5. Survives(Container) =>
          \A d \in Survivors \ ({Container} \cup Members), t \in Inner :
            Place(TokenOf(d)) < Place(Opening(Container)) <=> Place(TokenOf(d)) < Place(t)
    BY <1>2 DEF RightNesting, Inner
  <2>6. Survives(Container)' =>
          \A d \in Survivors' \ ({Container} \cup Members), t \in Inner' :
            Place(TokenOf(d))' < Place(Opening(Container))' <=> Place(TokenOf(d))' < Place(t)'
    BY <1>1, <1>3, <2>1, <2>2, <2>3, <2>4, <2>5
  <2> QED BY <2>6 DEF RightNesting, Inner
<1> QED BY <1>4, <1>5, <1>6 DEF AsNamed

\* So it is the staged file that is as named.
NamedInv == file.style # "sections" => StagedAsNamed

LEMMA NamedStep ==
  ASSUME PlanInv, SpliceInv, Origins, Complete, NamedInv, [Next]_vars
  PROVE  NamedInv'
<1>1. out \in Seq(Tokens)
  BY DEF SpliceInv, SpliceTypeOK
<1>2. CASE InheritEOF
  <2>1. /\ pc = "spliced" /\ UNCHANGED <<file, named, head>>
        /\ out' = out \/ out' = Append(out, NL)
    BY <1>2 DEF InheritEOF
  <2>2. Misplaced' = Misplaced
    BY <2>1, MisplacedStays
  <2>3. SUFFICES ASSUME file.style # "sections", ~Misplaced PROVE AsNamed'
    BY <2>1, <2>2 DEF NamedInv, StagedAsNamed
  <2>4. Built
    BY <2>1, <2>3 DEF Built
  <2>5. AsNamed
    BY <2>4, BuiltAsNamed
  <2>6. NL \notin Declared
    BY <2>4, DeclaredOnce DEF Solids
  <2> QED BY <1>1, <2>1, <2>5, <2>6, AsNamedStays
<1>3. CASE pc' # "done"
  BY <1>3 DEF NamedInv, StagedAsNamed
<1>4. CASE UNCHANGED vars
  <2>1. UNCHANGED <<file, named, head, pc, out>>
    BY <1>4 DEF vars, spliceVars
  <2>2. Misplaced' = Misplaced
    BY <2>1, MisplacedStays
  <2>3. SUFFICES ASSUME file.style # "sections", ~Misplaced, pc = "done" PROVE AsNamed'
    BY <2>1, <2>2 DEF NamedInv, StagedAsNamed
  <2>4. AsNamed
    BY <2>3 DEF NamedInv, StagedAsNamed
  <2> QED BY <1>1, <2>1, <2>4, AsNamedStays
<1> QED
  BY <1>2, <1>3, <1>4 DEF Next, PlanSymbol, Refuse, FinishFile, Apply, Finished, ApplyEdits,
     Coalesce, Coalesced, MergeTies, Merged, Splice, Panic, AllSpliced

-----------------------------------------------------------------------------
(* Lines stay apart. *)

\* The newline that ends a line may stand beside anything.
LEMMA NewlineFits ==
  ASSUME file \in Files
  PROVE  /\ NL # Tab
         /\ \A x : Follows(x, NL) /\ Follows(NL, x)
<1>1. NL # Tab
  BY FilesAssumption
<1> QED BY <1>1 DEF Follows

\* A piece of a text has the text's lines.
LEMMA LinedPiece ==
  ASSUME NEW s \in Seq(Tokens), Lined(s), NEW b \in 0..Len(s), NEW e \in 0..Len(s)
  PROVE  Lined(SubSeq(s, b + 1, e))
<1> DEFINE t == SubSeq(s, b + 1, e)
<1>1. b + 1 \in Int /\ e \in Int /\ Len(s) \in Nat
  BY LenProperties
<1>2. \A i \in (b + 1)..e : s[i] \in Tokens
  BY <1>1, ElementOfSeq
<1>3. /\ t \in Seq(Tokens)
      /\ Len(t) = IF b + 1 <= e THEN e - (b + 1) + 1 ELSE 0
      /\ \A i \in 1..(e - (b + 1) + 1) : t[i] = s[(b + 1) + i - 1]
  BY <1>1, <1>2, SubSeqProperties
<1> HIDE DEF t
<1>4. ASSUME NEW i \in 1..(Len(t) - 1) PROVE Follows(t[i], t[i + 1])
  <2>1. /\ b + 1 <= e /\ Len(t) = e - (b + 1) + 1
        /\ i \in 1..(e - (b + 1) + 1) /\ i + 1 \in 1..(e - (b + 1) + 1)
    BY <1>1, <1>3, <1>4
  <2>2. t[i] = s[(b + 1) + i - 1] /\ t[i + 1] = s[(b + 1) + (i + 1) - 1]
    BY <1>3, <2>1
  <2>3. (b + 1) + i - 1 = b + i /\ (b + 1) + (i + 1) - 1 = (b + i) + 1
    BY <1>1
  <2>4. b + i \in 1..(Len(s) - 1)
    BY <1>1, <2>1
  <2>5. Follows(s[b + i], s[(b + i) + 1])
    BY <2>4 DEF Lined
  <2> QED BY <2>2, <2>3, <2>5
<1>5. Lined(t)
  BY <1>4 DEF Lined
<1> QED BY <1>5 DEF t

LEMMA LinedTake ==
  ASSUME NEW s \in Seq(Tokens), Lined(s), NEW n \in 0..Len(s)
  PROVE  Lined(Take(s, n)) /\ Lined(Drop(s, n))
<1>1. 0 \in 0..Len(s) /\ Len(s) \in 0..Len(s) /\ 0 + 1 = 1
  BY LenProperties
<1>2. Lined(SubSeq(s, 0 + 1, n)) /\ Lined(SubSeq(s, n + 1, Len(s)))
  BY <1>1, LinedPiece
<1> QED BY <1>1, <1>2 DEF Take, Drop

LEMMA LinedTrim ==
  ASSUME NEW s \in Seq(Tokens), Lined(s)
  PROVE  Lined(TrimRight(s)) /\ Lined(TrimLeft(s))
<1>1. TrimmedLen(s) \in 0..Len(s) /\ BlankLen(s) \in 0..Len(s)
  BY TrimmedLenFact, BlankLenFact
<1> QED BY <1>1, LinedTake DEF TrimRight, TrimLeft

LEMMA LinedConcat ==
  ASSUME NEW x \in Seq(Tokens), NEW y \in Seq(Tokens), Lined(x), Lined(y),
         Len(x) # 0 /\ Len(y) # 0 => Follows(x[Len(x)], y[1])
  PROVE  Lined(x \o y)
<1> DEFINE m == Len(x)
           n == Len(y)
<1>1. /\ m \in Nat /\ n \in Nat /\ Len(x \o y) = m + n
      /\ \A i \in 1..(m + n) : (x \o y)[i] = IF i <= m THEN x[i] ELSE y[i - m]
  BY LenProperties, ConcatProperties
<1>2. ASSUME NEW i \in 1..(m + n - 1) PROVE Follows((x \o y)[i], (x \o y)[i + 1])
  <2>1. /\ i \in 1..(m + n) /\ i + 1 \in 1..(m + n)
        /\ (x \o y)[i] = IF i <= m THEN x[i] ELSE y[i - m]
        /\ (x \o y)[i + 1] = IF i + 1 <= m THEN x[i + 1] ELSE y[(i + 1) - m]
    BY <1>1
  <2>2. CASE i + 1 <= m
    <3>1. i \in 1..(m - 1) /\ i <= m
      BY <1>1, <2>2
    <3>2. Follows(x[i], x[i + 1])
      BY <3>1 DEF Lined
    <3> QED BY <2>1, <2>2, <3>1, <3>2
  <2>3. CASE i = m
    <3>1. m # 0 /\ n # 0 /\ (i + 1) - m = 1 /\ ~(i + 1 <= m) /\ i <= m
      BY <1>1, <2>1, <2>3
    <3> QED BY <2>1, <2>3, <3>1
  <2>4. CASE i > m
    <3>1. i - m \in 1..(n - 1) /\ (i + 1) - m = (i - m) + 1 /\ ~(i <= m) /\ ~(i + 1 <= m)
      BY <1>1, <2>1, <2>4
    <3>2. Follows(y[i - m], y[(i - m) + 1])
      BY <3>1 DEF Lined
    <3> QED BY <2>1, <3>1, <3>2
  <2> QED BY <1>1, <2>2, <2>3, <2>4
<1> QED BY <1>1, <1>2 DEF Lined

LEMMA LinedNewlines ==
  ASSUME file \in Files, NEW n \in Nat
  PROVE  Lined(Newlines(n))
<1>1. Newlines(n) \in Seq(Tokens) /\ Len(Newlines(n)) = n
  <2>1. Newlines(n) \in Seq(Tokens)
    BY NewlinesText
  <2>2. DOMAIN Newlines(n) = 1..n
    BY DEF Newlines
  <2> QED BY <2>1, <2>2, LenProperties
<1>2. ASSUME NEW i \in 1..(n - 1) PROVE Follows(Newlines(n)[i], Newlines(n)[i + 1])
  <2>1. Newlines(n)[i] = NL
    BY DEF Newlines
  <2> QED BY <2>1, NewlineFits
<1> QED BY <1>1, <1>2 DEF Lined

LEMMA LinedAppend ==
  ASSUME file \in Files, NEW s \in Seq(Tokens), Lined(s)
  PROVE  Lined(Append(s, NL))
<1>1. Append(s, NL) = s \o <<NL>> /\ <<NL>> \in Seq(Tokens)
  BY AppendIsConcat, TokensAssumption
<1>2. Len(<<NL>>) = 1 /\ <<NL>>[1] = NL
  OBVIOUS
<1>3. Lined(<<NL>>)
  BY <1>2 DEF Lined
<1> QED BY <1>1, <1>2, <1>3, NewlineFits, LinedConcat

LEMMA LinedEndLike ==
  ASSUME file \in Files, NEW s \in Seq(Tokens), NEW t, Lined(s)
  PROVE  Lined(EndLike(s, t))
<1>1. TrimRight(s) \in Seq(Tokens) /\ Lined(TrimRight(s))
  BY TrimRightText, LinedTrim
<1> QED BY <1>1, LinedAppend DEF EndLike

\* A gap of at least one newline keeps the lines of two texts apart.
LEMMA LinedJoin ==
  ASSUME file \in Files, NEW a \in Seq(Tokens), NEW b \in Seq(Tokens), Lined(a), Lined(b),
         NEW gap \in Nat, gap >= 1
  PROVE  Lined(JoinWithSeparator(a, b, gap))
<1> DEFINE x == TrimRight(a)
           y == TrimLeft(b)
           g == Newlines(gap)
<1>1. x \in Seq(Tokens) /\ y \in Seq(Tokens) /\ Lined(x) /\ Lined(y)
  BY TrimRightText, TrimLeftText, LinedTrim
<1>2. /\ g \in Seq(Tokens) /\ Lined(g) /\ Len(g) = gap
      /\ g[1] = NL /\ g[gap] = NL
  <2>1. g \in Seq(Tokens) /\ Lined(g)
    BY NewlinesText, LinedNewlines
  <2>2. DOMAIN g = 1..gap /\ g[1] = NL /\ g[gap] = NL
    BY DEF Newlines
  <2> QED BY <2>1, <2>2, LenProperties
<1>3. JoinWithSeparator(a, b, gap) =
        IF Len(x) = 0 THEN y ELSE IF Len(y) = 0 THEN x ELSE (x \o g) \o y
  BY DEF JoinWithSeparator
<1> HIDE DEF x, y, g
<1>4. Lined(x \o g)
  BY <1>1, <1>2, NewlineFits, LinedConcat
<1>5. /\ x \o g \in Seq(Tokens) /\ Len(x \o g) = Len(x) + gap
      /\ (x \o g)[Len(x) + gap] = NL
  <2>1. /\ Len(x) \in Nat /\ x \o g \in Seq(Tokens) /\ Len(x \o g) = Len(x) + gap
        /\ \A i \in 1..(Len(x) + gap) : (x \o g)[i] = IF i <= Len(x) THEN x[i] ELSE g[i - Len(x)]
    BY <1>1, <1>2, LenProperties, ConcatProperties
  <2>2. Len(x) + gap \in 1..(Len(x) + gap) /\ ~(Len(x) + gap <= Len(x))
        /\ (Len(x) + gap) - Len(x) = gap
    BY <2>1
  <2> QED BY <1>2, <2>1, <2>2
<1>6. Lined((x \o g) \o y)
  BY <1>1, <1>4, <1>5, NewlineFits, LinedConcat
<1> QED BY <1>1, <1>3, <1>6


\* An edit that keeps lines apart: it puts a declaration in the place of one,
\* takes whole lines out, or brings lines.
FromLine(o) == o.start = 0 \/ head[o.start] = NL

KeepsLines(o) ==
  /\ Lined(o.text)
  /\ o.kind = "replace" =>
       /\ o.text # <<>> /\ o.text[1] \notin {NL, Tab} /\ o.text[Len(o.text)] \notin {NL, Tab}
       /\ Solid(o.start + 1) /\ Solid(o.end)
  /\ o.kind = "delete" => FromLine(o)

\* Where the text still is HEAD's up to the end of the range.
Reached(t, o) == o.end <= Len(t) /\ \A i \in 1..o.end : t[i] = head[i]

LEMMA ReplaceLined ==
  ASSUME file \in Files, head \in Seq(Tokens), NEW t \in Seq(Tokens), NEW o \in OpOf(head),
         o.kind = "replace", Lined(t), KeepsLines(o), Reached(t, o)
  PROVE  Lined(SpliceReplace(t, o))
<1> DEFINE x == Take(t, o.start)
           y == Drop(t, o.end)
<1>1. /\ o.start \in Nat /\ o.end \in Nat /\ o.start < o.end /\ o.end <= Len(t)
      /\ o.text \in Seq(Tokens) /\ Len(t) \in Nat
      /\ Lined(o.text) /\ o.text # <<>> /\ Len(o.text) \in Nat
      /\ o.text[1] \notin {NL, Tab} /\ o.text[Len(o.text)] \notin {NL, Tab}
      /\ Solid(o.start + 1) /\ Solid(o.end)
  BY OpFields, LenProperties DEF KeepsLines, Reached
<1>2. o.start \in 0..Len(t) /\ o.end \in 0..Len(t)
  BY <1>1
<1>3. /\ x \in Seq(Tokens) /\ Len(x) = o.start /\ Lined(x)
      /\ \A i \in 1..o.start : x[i] = t[i]
      /\ y \in Seq(Tokens) /\ Len(y) = Len(t) - o.end /\ Lined(y)
      /\ \A i \in 1..(Len(t) - o.end) : y[i] = t[o.end + i]
  BY <1>2, TakeText, DropText, DropElements, LinedTake
<1>4. SpliceReplace(t, o) = (x \o o.text) \o y
  BY DEF SpliceReplace
<1> HIDE DEF x, y
<1>5. t[o.start + 1] \notin {NL, Tab} /\ t[o.end] \notin {NL, Tab}
  <2>1. o.start + 1 \in 1..o.end /\ o.end \in 1..o.end
    BY <1>1
  <2> QED BY <1>1, <2>1 DEF Reached, Solid
<1>6. Len(x) # 0 => Follows(x[Len(x)], o.text[1])
  <2>1. SUFFICES ASSUME o.start # 0 PROVE Follows(t[o.start], o.text[1])
    BY <1>1, <1>3
  <2>2. o.start \in 1..(Len(t) - 1)
    BY <1>1, <2>1
  <2>3. Follows(t[o.start], t[o.start + 1])
    BY <2>2 DEF Lined
  <2> QED BY <1>1, <1>5, <2>3 DEF Follows
<1>7. Lined(x \o o.text)
  BY <1>1, <1>3, <1>6, LinedConcat
<1>8. /\ x \o o.text \in Seq(Tokens) /\ Len(x \o o.text) = o.start + Len(o.text)
      /\ (x \o o.text)[o.start + Len(o.text)] = o.text[Len(o.text)]
  <2>1. /\ x \o o.text \in Seq(Tokens) /\ Len(x \o o.text) = o.start + Len(o.text)
        /\ \A i \in 1..(o.start + Len(o.text)) :
             (x \o o.text)[i] = IF i <= o.start THEN x[i] ELSE o.text[i - o.start]
    <3> DEFINE z == o.text
    <3>1. x \in Seq(Tokens) /\ z \in Seq(Tokens)
      BY <1>1, <1>3
    <3> HIDE DEF z
    <3>2. /\ x \o z \in Seq(Tokens) /\ Len(x \o z) = Len(x) + Len(z)
          /\ \A i \in 1..(Len(x) + Len(z)) :
               (x \o z)[i] = IF i <= Len(x) THEN x[i] ELSE z[i - Len(x)]
      BY <3>1, ConcatProperties
    <3> QED BY <1>3, <3>2 DEF z
  <2>2. Len(o.text) > 0
    BY <1>1, EmptySeq
  <2>3. /\ o.start + Len(o.text) \in 1..(o.start + Len(o.text))
        /\ ~(o.start + Len(o.text) <= o.start)
        /\ (o.start + Len(o.text)) - o.start = Len(o.text)
    BY <1>1, <2>2
  <2> QED BY <2>1, <2>3
<1>9. Len(y) # 0 => Follows(o.text[Len(o.text)], y[1])
  <2>1. SUFFICES ASSUME Len(t) - o.end # 0 PROVE Follows(o.text[Len(o.text)], y[1])
    BY <1>3
  <2>2. o.end \in 1..(Len(t) - 1) /\ 1 \in 1..(Len(t) - o.end)
    BY <1>1, <2>1
  <2>3. y[1] = t[o.end + 1]
    BY <1>3, <2>2
  <2>4. Follows(t[o.end], t[o.end + 1])
    BY <2>2 DEF Lined
  <2>5. y[1] = NL
    BY <1>5, <2>3, <2>4 DEF Follows
  <2> QED BY <2>5, NewlineFits
<1> QED BY <1>3, <1>4, <1>7, <1>8, <1>9, LinedConcat

LEMMA ExciseLined ==
  ASSUME file \in Files, head \in Seq(Tokens), NEW t \in Seq(Tokens), NEW o \in OpOf(head),
         o.kind = "delete", Lined(t), KeepsLines(o), Reached(t, o)
  PROVE  Lined(SpliceExcise(t, o))
<1> DEFINE x == Take(t, o.start)
           y == TrimLeft(Drop(t, o.end))
<1>1. /\ o.start \in Nat /\ o.end \in Nat /\ o.start < o.end /\ o.end <= Len(t)
      /\ Len(t) \in Nat /\ FromLine(o)
  BY OpFields, LenProperties DEF KeepsLines, Reached
<1>2. o.start \in 0..Len(t) /\ o.end \in 0..Len(t)
  BY <1>1
<1>3. /\ x \in Seq(Tokens) /\ Len(x) = o.start /\ Lined(x)
      /\ \A i \in 1..o.start : x[i] = t[i]
      /\ y \in Seq(Tokens) /\ Lined(y)
  BY <1>2, TakeText, DropText, LinedTake, TrimLeftText, LinedTrim
<1>4. SpliceExcise(t, o) = IF Len(y) # 0 THEN x \o y
                           ELSE IF Len(TrimRight(x)) = 0 THEN <<>> ELSE EndLike(x, t)
  BY DEF SpliceExcise
<1> HIDE DEF x, y
<1>5. Len(x) # 0 => x[Len(x)] = NL
  <2>1. o.start # 0 => o.start \in 1..o.end /\ o.start \in 1..o.start
    BY <1>1
  <2> QED BY <1>1, <1>3, <2>1 DEF FromLine, Reached
<1>6. Lined(x \o y)
  BY <1>3, <1>5, NewlineFits, LinedConcat
<1>7. Lined(EndLike(x, t))
  BY <1>3, LinedEndLike
<1>8. Lined(<<>>)
  BY DEF Lined
<1> QED BY <1>4, <1>6, <1>7, <1>8

LEMMA GapAtLeastOne ==
  ASSUME NEW member \in BOOLEAN, NEW gap \in Nat
  PROVE  WiderGap(member, gap) \in Nat /\ WiderGap(member, gap) >= 1
  BY DEF WiderGap

LEMMA InsertLined ==
  ASSUME file \in Files, head \in Seq(Tokens), NEW t \in Seq(Tokens), NEW o \in OpOf(head),
         Lined(t), Lined(o.text)
  PROVE  Lined(SpliceInsert(t, o))
<1> DEFINE start == IF o.start < Len(t) THEN o.start ELSE Len(t)
           x == Take(t, start)
           rest == Drop(t, start)
           mid == JoinWithSeparator(x, o.text, WiderGap(o.member, o.lead))
<1>1. /\ o.start \in Nat /\ o.text \in Seq(Tokens) /\ Len(t) \in Nat
      /\ o.member \in BOOLEAN /\ o.lead \in Nat /\ o.trail \in Nat
  BY OpFields, LenProperties
<1>2. start \in 0..Len(t)
  BY <1>1
<1>3. SpliceInsert(t, o) = IF Len(TrimLeft(rest)) = 0 THEN EndLike(mid, t)
                           ELSE JoinWithSeparator(mid, rest, WiderGap(o.member, o.trail))
  BY DEF SpliceInsert
<1> HIDE DEF start
<1>4. x \in Seq(Tokens) /\ Lined(x) /\ rest \in Seq(Tokens) /\ Lined(rest)
  BY <1>2, TakeText, DropText, LinedTake
<1>5. /\ WiderGap(o.member, o.lead) \in Nat /\ WiderGap(o.member, o.lead) >= 1
      /\ WiderGap(o.member, o.trail) \in Nat /\ WiderGap(o.member, o.trail) >= 1
  BY <1>1, GapAtLeastOne
<1> HIDE DEF x, rest
<1>6. mid \in Seq(Tokens) /\ Lined(mid)
  BY <1>1, <1>4, <1>5, JoinText, LinedJoin
<1> HIDE DEF mid
<1>7. Lined(EndLike(mid, t))
  BY <1>6, LinedEndLike
<1>8. Lined(JoinWithSeparator(mid, rest, WiderGap(o.member, o.trail)))
  BY <1>4, <1>5, <1>6, LinedJoin
<1> QED BY <1>3, <1>7, <1>8


\* A declaration begins its line, but for the indentation.
LEMMA LineBegins ==
  ASSUME file \in Files, NEW src \in Seq(Tokens), Lined(src),
         NEW n \in Nat, n < Len(src), src[n + 1] \notin {NL, Tab}
  PROVE  /\ LineStart(src, n) \in 0..n
         /\ LineStart(src, n) = 0 \/ src[LineStart(src, n)] = NL
<1> DEFINE T == {0} \cup {i \in 1..n : src[i] = NL}
           l == LineStartOf(src, n)
<1>1. T \subseteq 0..n /\ T # {} /\ Len(src) \in Nat
  BY LenProperties
<1>2. l = Max(T)
  BY DEF LineStartOf
<1>3. l \in T /\ \A y \in T : l >= y
  BY <1>1, <1>2, MaxOf
<1> HIDE DEF T, l
<1>4. l \in 0..n /\ (l = 0 \/ src[l] = NL) /\ \A i \in (l + 1)..n : src[i] # NL
  BY <1>3 DEF T
<1>5. ASSUME NEW i \in (l + 1)..n PROVE src[i] = Tab
  <2>1. i = n
    <3>1. SUFFICES ASSUME i # n PROVE FALSE
      OBVIOUS
    <3>2. /\ n \in (l + 1)..n /\ n - 1 \in (l + 1)..n
          /\ n - 1 \in 1..(Len(src) - 1) /\ n \in 1..(Len(src) - 1) /\ (n - 1) + 1 = n
      BY <1>1, <1>4, <3>1
    <3>3. Follows(src[n - 1], src[(n - 1) + 1]) /\ Follows(src[n], src[n + 1])
      BY <3>2 DEF Lined
    <3>4. src[n] = Tab /\ src[n - 1] # NL
      BY <1>4, <3>2, <3>3 DEF Follows
    <3> QED BY <3>2, <3>3, <3>4 DEF Follows
  <2>2. n \in 1..(Len(src) - 1) /\ src[n] # NL
    BY <1>1, <1>4, <2>1
  <2>3. Follows(src[n], src[n + 1])
    BY <2>2 DEF Lined
  <2> QED BY <2>1, <2>2, <2>3 DEF Follows
<1>6. LineStart(src, n) = l
  BY <1>5 DEF LineStart, l
<1> QED BY <1>4, <1>6

\* The edits the planner makes keep lines apart.
LEMMA PlannedKeepsLines ==
  ASSUME file \in Files, head = HeadText(file), file.style # "sections",
         NEW A, NEW o, Planned(o, A)
  PROVE  KeepsLines(o)
<1>1. /\ head \in Seq(Tokens) /\ work \in Seq(Tokens)
      /\ Len(head) \in Nat /\ Len(work) \in Nat
      /\ Lined(head) /\ Lined(work)
  BY Extents, LenProperties, FilesAssumption DEF work
<1>2. CASE IsPreface(o)
  <2>1. o.kind = "insert" /\ o.text = Take(work, PrefaceEnd)
    BY <1>2 DEF IsPreface, PrefaceInsertion
  <2>2. PrefaceEnd \in 0..Len(work)
    <3>1. Len(work) # 0
      BY <1>1, <1>2, EmptySeq, FilesAssumption DEF IsPreface, work
    <3>2. 1 \in 0..Len(work)
      BY <1>1, <3>1
    <3>3. Drop(work, 1) \in Seq(Tokens) /\ Len(Drop(work, 1)) = Len(work) - 1
      BY <1>1, <3>2, DropText
    <3>4. BlankLen(Drop(work, 1)) \in 0..(Len(work) - 1)
      BY <3>3, BlankLenFact
    <3> QED BY <1>1, <3>2, <3>4 DEF PrefaceEnd
  <2>3. Lined(o.text)
    BY <1>1, <2>1, <2>2, LinedTake
  <2> QED BY <2>1, <2>3 DEF KeepsLines
<1>3. CASE \E a \in A : Edits(o, a)
  <2>1. PICK a \in A : Edits(o, a)
    BY <1>3
  <2>2. CASE a \in Both /\ o = Replacement(a)
    <3>1. a \in file.inHead /\ a \in file.inWork
      BY <2>2 DEF Both
    <3>2. /\ Solid(HS(a) + 1) /\ Solid(HE(a))
      BY <3>1, HeadBounds
    <3>3. /\ o.kind = "replace" /\ o.start = HS(a) /\ o.end = HE(a)
          /\ o.text = SubSeq(work, WS(a) + 1, WE(a))
      BY <2>2 DEF Replacement, HS, HE, WS, WE
    <3>4. /\ WS(a) \in Nat /\ WE(a) \in Nat /\ WS(a) < WE(a) /\ WE(a) <= Len(work)
          /\ work[WS(a) + 1] \notin {NL, Tab} /\ work[WE(a)] \notin {NL, Tab}
      <4>1. Bounded(file.inWork, work, a)
        BY <3>1, TextLaid DEF OneText
      <4> QED BY <4>1 DEF Bounded, Starts, Ends, WS, WE, WorkExtent
    <3>5. PieceOf(o.text, WS(a), WE(a))
      BY <1>1, <3>3, <3>4, PieceIs
    <3>6. Lined(o.text) /\ o.text \in Seq(Tokens)
      <4>1. WS(a) \in 0..Len(work) /\ WE(a) \in 0..Len(work)
        BY <1>1, <3>4
      <4> QED BY <1>1, <3>3, <4>1, LinedPiece, PieceText
    <3>7. /\ o.text # <<>> /\ o.text[1] = work[WS(a) + 1]
          /\ o.text[Len(o.text)] = work[WE(a)]
      <4>1. /\ Len(o.text) = WE(a) - WS(a)
            /\ \A k \in 1..(WE(a) - WS(a)) : o.text[k] = work[WS(a) + k]
        <5>1. WE(a) - WS(a) \in Nat /\ DOMAIN o.text = 1..(WE(a) - WS(a))
          BY <3>4, <3>5 DEF PieceOf
        <5> QED BY <3>5, <3>6, <5>1, LenProperties DEF PieceOf
      <4>2. /\ 1 \in 1..(WE(a) - WS(a)) /\ WE(a) - WS(a) \in 1..(WE(a) - WS(a))
            /\ WS(a) + (WE(a) - WS(a)) = WE(a) /\ WE(a) - WS(a) # 0
        BY <3>4
      <4> QED BY <3>6, <4>1, <4>2, EmptySeq
    <3> QED BY <3>2, <3>3, <3>4, <3>6, <3>7 DEF KeepsLines
  <2>3. CASE a \in file.inHead \ file.inWork /\ o = Deletion(a)
    <3>1. /\ o.kind = "delete" /\ o.start = LineStart(head, HS(a)) /\ o.text = <<>>
      BY <2>3 DEF Deletion, HS
    <3>2. HS(a) \in Nat /\ HS(a) < Len(head) /\ head[HS(a) + 1] \notin {NL, Tab}
      BY <1>1, <2>3, HeadBounds DEF Solid
    <3>3. FromLine(o)
      BY <1>1, <3>1, <3>2, LineBegins DEF FromLine
    <3>4. Lined(o.text)
      BY <3>1 DEF Lined
    <3> QED BY <3>1, <3>3, <3>4 DEF KeepsLines
  <2>4. CASE Newcomer(a) /\ o.kind = "insert" /\ o.text = InsertionText(work, WorkExtent(a))
    <3>1. a \in file.inWork /\ WS(a) \in Nat /\ WE(a) \in 0..Len(work) /\ WS(a) <= Len(work)
      <4>1. a \in file.inWork
        BY <2>4 DEF Newcomer
      <4>2. WS(a) \in Nat /\ WE(a) \in 1..Len(work) /\ WS(a) < WE(a)
        BY <4>1, WorkBounds DEF WS, WE
      <4> QED BY <1>1, <4>1, <4>2
    <3>2. LineStart(work, WS(a)) \in 0..WS(a)
      BY <3>1, LineStarts
    <3>3. o.text = SubSeq(work, LineStart(work, WS(a)) + 1, WE(a))
      BY <2>4 DEF InsertionText, WS, WE
    <3>4. LineStart(work, WS(a)) \in 0..Len(work)
      BY <1>1, <3>1, <3>2
    <3>5. Lined(o.text)
      BY <1>1, <3>1, <3>3, <3>4, LinedPiece
    <3> QED BY <2>4, <3>5 DEF KeepsLines
  <2> QED BY <2>1, <2>2, <2>3, <2>4 DEF Edits
<1> QED BY <1>2, <1>3 DEF Planned


\* The edits keep lines apart until they are spliced, and so does the text.
LinedInv ==
  file.style # "sections" /\ ~Misplaced =>
    /\ pc \in {"merge", "splice"} => \A p \in pending : KeepsLines(p)
    /\ pc \in {"splice", "spliced", "done"} => Lined(out)

\* Merging insertions at one offset.
LEMMA MergeLined ==
  ASSUME PlanInv, SpliceInv, Origins, file.style # "sections",
         \A p \in pending : KeepsLines(p), NEW i \in todo, MergeTies(i)
  PROVE  \A p \in pending' : KeepsLines(p)
<1>1. /\ file \in Files /\ head = HeadText(file) /\ head \in Seq(Tokens)
      /\ pc = "merge" /\ i \in DOMAIN kept /\ kept[i].kind = "insert"
      /\ kept \in Seq(OpOf(head)) /\ pending \subseteq OpOf(head)
  BY DEF PlanInv, SpliceInv, SpliceTypeOK, Sourced, MergeTies
<1> DEFINE o == kept[i]
<1>2. o \in OpOf(head)
  BY <1>1, ElementOfSeq, LenProperties
<1>3. KeepsLines(o)
  <2>1. Planned(o, Taken)
    BY <1>1 DEF SpliceInv, Chosen, Origins
  <2> QED BY <1>1, <2>1, PlannedKeepsLines
<1>4. o.kind = "insert" /\ Lined(o.text) /\ o.text \in Seq(Tokens) /\ o.lead \in Nat
  BY <1>1, <1>2, <1>3, OpFields DEF KeepsLines
<1>5. \A p \in pending' : \/ p \in pending \/ p = FirstOfGroup(o)
                          \/ \E q \in pending : q.kind = "insert" /\ p = MergedOnto(q, o)
  BY DEF MergeTies, Tied
<1> HIDE DEF o
<1>6. KeepsLines(FirstOfGroup(o))
  <2>1. FirstOfGroup(o).kind = "insert" /\ FirstOfGroup(o).text = o.text
    BY <1>2, <1>4 DEF FirstOfGroup, OpOf
  <2> QED BY <1>4, <2>1 DEF KeepsLines
<1>7. ASSUME NEW q \in pending, q.kind = "insert" PROVE KeepsLines(MergedOnto(q, o))
  <2>1. /\ q \in OpOf(head) /\ Lined(q.text) /\ q.text \in Seq(Tokens) /\ q.member \in BOOLEAN
    BY <1>1, OpFields DEF KeepsLines
  <2>2. WiderGap(q.member, o.lead) \in Nat /\ WiderGap(q.member, o.lead) >= 1
    BY <1>4, <2>1, GapAtLeastOne
  <2>3. Lined(JoinWithSeparator(q.text, o.text, WiderGap(q.member, o.lead)))
    BY <1>1, <1>4, <2>1, <2>2, LinedJoin
  <2>4. /\ MergedOnto(q, o).kind = "insert"
        /\ MergedOnto(q, o).text = JoinWithSeparator(q.text, o.text, WiderGap(q.member, o.lead))
    BY <1>7, <2>1 DEF MergedOnto, OpOf
  <2> QED BY <2>3, <2>4 DEF KeepsLines
<1> QED BY <1>5, <1>6, <1>7

\* A splice, whose offsets are still HEAD's.
LEMMA SpliceLined ==
  ASSUME PlanInv, SpliceInv, Origins, file.style # "sections", ~Misplaced,
         Lined(out), NEW p \in pending, KeepsLines(p), Splice(p)
  PROVE  Lined(out')
<1>1. /\ file \in Files /\ head \in Seq(Tokens) /\ out \in Seq(Tokens)
      /\ p \in OpOf(head) /\ pc = "splice" /\ out' = Spliced(out, p)
  BY DEF PlanInv, SpliceInv, SpliceTypeOK, Splice
<1>2. p.kind # "insert" => Reached(out, p)
  BY <1>1, TidyAlways DEF SpliceInv, PrefixIntact, Reached
<1>3. p.kind \in {"replace", "insert", "delete"} /\ Lined(p.text)
  BY <1>1, OpFields DEF Kinds, KeepsLines
<1> QED BY <1>1, <1>2, <1>3, ReplaceLined, ExciseLined, InsertLined DEF Spliced

LEMMA LinedStep ==
  ASSUME PlanInv, SpliceInv, Origins, LinedInv, [Next]_vars
  PROVE  LinedInv'
<1>1. /\ file \in Files /\ head = HeadText(file) /\ out \in Seq(Tokens)
      /\ Lined(head)
  BY FilesAssumption DEF PlanInv, SpliceInv, SpliceTypeOK
<1>2. CASE pc' \notin {"merge", "splice", "spliced", "done"}
  BY <1>2 DEF LinedInv
<1>3. CASE UNCHANGED <<file, named, head>>
  <2>1. Misplaced' = Misplaced
    BY <1>3, MisplacedStays
  <2>2. \A p : KeepsLines(p)' <=> KeepsLines(p)
    BY <1>3 DEF KeepsLines, FromLine, Solid, Lined, Follows
  <2>3. \A s : Lined(s)' <=> Lined(s)
    BY DEF Lined, Follows
  <2>4. SUFFICES ASSUME file.style # "sections", ~Misplaced
                 PROVE  /\ pc' \in {"merge", "splice"} => \A p \in pending' : KeepsLines(p)
                        /\ pc' \in {"splice", "spliced", "done"} => Lined(out')
    BY <1>3, <2>1, <2>2 DEF LinedInv, Lined, Follows
  <2>5. /\ pc \in {"merge", "splice"} => \A p \in pending : KeepsLines(p)
        /\ pc \in {"splice", "spliced", "done"} => Lined(out)
    BY <2>4 DEF LinedInv
  <2>6. CASE Coalesced
    <3>1. \A i \in DOMAIN kept : KeepsLines(kept[i])
      <4>1. \A i \in DOMAIN kept : Planned(kept[i], Taken)
        BY <2>4 DEF SpliceInv, Chosen, Origins
      <4> QED BY <1>1, <2>4, <4>1, PlannedKeepsLines
    <3> QED BY <2>6, <3>1 DEF Coalesced
  <2>7. ASSUME NEW i \in todo, MergeTies(i)
        PROVE  /\ pc' \in {"merge", "splice"} => \A p \in pending' : KeepsLines(p)
               /\ pc' \in {"splice", "spliced", "done"} => Lined(out')
    <3>1. pc = "merge" /\ pc' = "merge"
      BY <2>7 DEF MergeTies
    <3> QED BY <2>4, <2>5, <2>7, <3>1, MergeLined
  <2>8. CASE Merged
    BY <1>1, <2>5, <2>8 DEF Merged
  <2>9. ASSUME NEW p \in pending, Splice(p)
        PROVE  /\ pc' \in {"merge", "splice"} => \A q \in pending' : KeepsLines(q)
               /\ pc' \in {"splice", "spliced", "done"} => Lined(out')
    <3>1. pc = "splice" /\ pending' \subseteq pending
      BY <2>9 DEF Splice
    <3>2. Lined(out')
      BY <2>4, <2>5, <2>9, <3>1, SpliceLined
    <3> QED BY <2>5, <3>1, <3>2
  <2>10. CASE AllSpliced
    BY <2>5, <2>10 DEF AllSpliced
  <2>11. CASE InheritEOF
    <3>1. pc = "spliced" /\ pc' = "done" /\ (out' = out \/ out' = Append(out, NL))
      BY <2>11 DEF InheritEOF
    <3>2. Lined(Append(out, NL))
      BY <1>1, <2>5, <3>1, LinedAppend
    <3> QED BY <2>5, <3>1, <3>2
  <2>12. CASE UNCHANGED vars
    BY <2>5, <2>12 DEF vars, spliceVars
  <2> QED
    BY <1>2, <2>4, <2>6, <2>7, <2>8, <2>9, <2>10, <2>11, <2>12
       DEF Next, PlanSymbol, Refuse, FinishFile, Apply, Finished, ApplyEdits, Coalesce, Panic
<1> QED
  BY <1>2, <1>3 DEF Next, PlanSymbol, Refuse, FinishFile, Apply, InheritEOF, Finished,
     ApplyEdits, Coalesce, Coalesced, MergeTies, Merged, Splice, Panic, AllSpliced,
     vars, spliceVars

-----------------------------------------------------------------------------
(* The theorems. *)

\* What the planner and applyEdits keep true together.
BlobInv ==
  PlanInv /\ SpliceInv /\ Origins /\ Complete /\ EndsInv /\ NamedInv /\ LinedInv

LEMMA BlobInvInit == Init => BlobInv
<1>1. SUFFICES ASSUME Init PROVE BlobInv
  OBVIOUS
<1>2. PlanInv /\ SpliceInit
  BY <1>1, PlanInit
<1>3. SpliceInv
  BY <1>2, SpliceInvInit
<1>4. Asked = {}
  BY <1>1 DEF Init, Asked
<1>5. Origins /\ Complete /\ EndsInv /\ NamedInv /\ LinedInv
  BY <1>1, <1>4 DEF Init, Origins, Complete, EndsInv, EndsAsBefore, NamedInv, StagedAsNamed,
     LinedInv
<1> QED BY <1>2, <1>3, <1>5 DEF BlobInv

LEMMA BlobInvStep == BlobInv /\ [Next]_vars => BlobInv'
<1>1. SUFFICES ASSUME BlobInv, [Next]_vars PROVE BlobInv'
  OBVIOUS
<1>2. PlanInv /\ SpliceInv /\ Origins /\ Complete /\ EndsInv /\ NamedInv /\ LinedInv
  BY <1>1 DEF BlobInv
<1>3. PlanInv' /\ [SpliceNext]_spliceVars
  BY <1>1, <1>2, PlanStep
<1>4. SpliceInv'
  BY <1>2, <1>3, SpliceInvStep
<1>5. Origins' /\ Complete' /\ EndsInv' /\ NamedInv' /\ LinedInv'
  BY <1>1, <1>2, PlannedStep, EndsStep, NamedStep, LinedStep
<1> QED BY <1>3, <1>4, <1>5 DEF BlobInv

\* Whatever anchors are named of whatever file of a grammar without sections,
\* insertionPoint and classify (classify.go:31-131, 376-445) leave applyEdits no
\* range that an insertion cuts: it keeps the contract the splices rest on.
THEOREM PlannedIsTidy == Spec => []EditsTidy
<1>1. BlobInv => EditsTidy
  BY TidyAlways DEF BlobInv, SpliceInv, EditsTidy
<1> QED BY <1>1, BlobInvInit, BlobInvStep, PTL DEF Spec

\* With the refinement, what EditSpliceProofs proves of any edits holds of the
\* planner's: nothing is kept twice and every offset stays HEAD's.
THEOREM PlannedSplices ==
  Spec => [](/\ SpliceTypeOK /\ KeptDisjoint /\ KeptOnce
             /\ PrefixIntact /\ EndInherited /\ AsEdited)
<1>1. BlobInv => /\ SpliceTypeOK /\ KeptDisjoint /\ KeptOnce
                 /\ PrefixIntact /\ EndInherited /\ AsEdited
  BY EditedAll DEF BlobInv, SpliceInv
<1> QED BY <1>1, BlobInvInit, BlobInvStep, PTL DEF Spec

\* So no file's staging slices past the end of a buffer (synth.go:260-291),
\* unless a new declaration is spliced into the container HEAD has.
THEOREM StagingFits ==
  Spec => [](~Misplaced /\ file.style # "sections" => NeverPanics)
<1>1. BlobInv => (~Misplaced /\ file.style # "sections" => NeverPanics)
  BY TidyAlways DEF BlobInv, SpliceInv, TidyNeverPanics, NeverPanics
<1> QED BY <1>1, BlobInvInit, BlobInvStep, PTL DEF Spec

\* Nor does it add or drop the newline that ends the file, HEAD's or, of a new
\* file, the worktree's (synth.go:253-320, inheritEOF stage.go:840-849).
THEOREM EndOfFileKept == Spec => [](~Misplaced => EndsAsBefore)
<1>1. BlobInv => (~Misplaced => EndsAsBefore)
  BY DEF BlobInv, EndsInv
<1> QED BY <1>1, BlobInvInit, BlobInvStep, PTL DEF Spec

\* The package comment's promise (synth.go:1-2), of every file of a grammar
\* without sections whose new top-level declarations insertionPoint places
\* outside the container: whatever anchors are named, the staged file declares
\* each of its declarations once, the named as the worktree has them and the
\* others as HEAD does, in order, the members and the delimiter inside their
\* container.
THEOREM NamedIsStaged == Spec => [](file.style # "sections" => StagedAsNamed)
<1>1. BlobInv => (file.style # "sections" => StagedAsNamed)
  BY DEF BlobInv, NamedInv
<1> QED BY <1>1, BlobInvInit, BlobInvStep, PTL DEF Spec

\* Nor do the splices run two lines of such a file together, or leave an
\* indentation that is not at the start of a line (synth.go:260-320), whichever
\* declarations are replaced, inserted side by side or taken out.
THEOREM LinesStayApart == Spec => [](file.style # "sections" => LinesApart)
<1>1. BlobInv => (file.style # "sections" => LinesApart)
  BY DEF BlobInv, LinedInv, LinesApart
<1> QED BY <1>1, BlobInvInit, BlobInvStep, PTL DEF Spec

=============================================================================
