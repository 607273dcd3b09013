----------------------------- MODULE CatFileProofs -----------------------------
(***************************************************************************)
(* Every answer goes to its own request, for any number of requests, any   *)
(* sizes of buffer and pipes, and git gone at any moment.  The pieces on   *)
(* their way back are numbered by the request they answer; nothing but     *)
(* order carries that number over the pipes.                               *)
(***************************************************************************)
EXTENDS DiffRun, TLAPS

HeaderKinds == {"blob", "tree", "missing", "submodule", "garbled"}
Pieces      == [k : HeaderKinds] \cup [k : {"content"}, r : 1..Requests]

BatchTypes ==
  /\ store \in [1..Requests -> Kinds]
  /\ written \in 0..Requests
  /\ buffer \in Seq(1..Requests)
  /\ stdin \in Seq(1..Requests)
  /\ unsent \in Seq(Pieces)
  /\ stdout \in Seq(Pieces)
  /\ answers \in Seq(0..Requests)
  /\ caller \in {"start", "header", "content", "join", "wait", "retry", "returned"}

(* Requests written and not read by git, the one it reads next first.      *)
Waiting    == Len(stdin) + Len(buffer)
Request(n) == IF n <= Len(stdin) THEN stdin[n] ELSE buffer[n - Len(stdin)]

(* How many requests git has read.                                         *)
Served == written - Waiting

(* Requests stay in order on their way to git.                             *)
RequestsInOrder ==
  /\ Waiting <= written
  /\ \A n \in 1..Waiting : Request(n) = Served + n

(* Pieces on their way back, the one the caller reads next first.          *)
Flying   == Len(stdout) + Len(unsent)
Piece(n) == IF n <= Len(stdout) THEN stdout[n] ELSE unsent[n - Len(stdout)]

(* The answer git has for r, as its header says.                           *)
KindOf(r) == IF store[r] = "promised" THEN "missing" ELSE store[r]

IsHeader(x)     == x.k # "content"
HasContent(x)   == x.k \in {"blob", "tree", "garbled"}
HeaderFor(x, r) == IsHeader(x) /\ x.k \in {KindOf(r), "garbled"}

(* o numbers the flying pieces by request: each answer complete, in order, *)
(* from the one the caller is at to the last that git has read.            *)
Numbers(o) ==
  /\ o \in [1..Flying -> 1..Requests]
  /\ \A n \in 1..Flying : IF IsHeader(Piece(n)) THEN HeaderFor(Piece(n), o[n])
                          ELSE Piece(n).r = o[n]
  /\ \A n \in 1..(Flying - 1) :
       IF HasContent(Piece(n)) THEN ~IsHeader(Piece(n + 1)) /\ o[n + 1] = o[n]
       ELSE IsHeader(Piece(n + 1)) /\ o[n + 1] = o[n] + 1
  /\ Flying > 0 => /\ o[1] = Len(answers) + 1
                   /\ IsHeader(Piece(1)) <=> caller = "header"
                   /\ o[Flying] = Served
                   /\ ~HasContent(Piece(Flying))
  /\ Flying = 0 => caller = "header" /\ Served = Len(answers)
  /\ caller = "content" => store[Len(answers) + 1] \in {"blob", "tree"}

AnswersInOrder == caller \in {"header", "content"} => \E o : Numbers(o)

(* What has been answered, before and after the retry.                     *)
Answered ==
  /\ caller = "start" =>
       /\ writer = "unstarted" /\ git = "unstarted"
       /\ answers = <<>> /\ Flying = 0 /\ Served = 0 /\ err = "none"
  /\ caller \in {"header", "content"} => Len(answers) <= Requests /\ err = "none"
  /\ caller \in {"join", "wait", "retry"} /\ err = "none" => Len(answers) = Requests
  /\ caller = "retry" => err = "none"
  /\ caller # "returned" /\ err = "none" =>
       \A r \in 1..Len(answers) :
         answers[r] = IF store[r] \in {"blob", "tree"} THEN Content(r) ELSE Absent
  /\ AnswersMatch

OrderInv == BatchTypes /\ RequestsInOrder /\ AnswersInOrder /\ Answered

-----------------------------------------------------------------------------
LEMMA OrderInit == Init => OrderInv
<1> SUFFICES ASSUME Init PROVE OrderInv
  OBVIOUS
<1> USE BatchAssumption DEF Init, BatchInit
<1>1. BatchTypes
  BY DEF BatchTypes
<1>0. stdin = <<>> /\ buffer = <<>> /\ stdout = <<>> /\ unsent = <<>> /\ written = 0
  OBVIOUS
<1>2. Waiting = 0 /\ Flying = 0 /\ Served = 0
  <2> HIDE DEF Init, BatchInit
  <2>1. Len(stdin) = 0 /\ Len(buffer) = 0 /\ Len(stdout) = 0 /\ Len(unsent) = 0
    BY <1>0
  <2> QED BY <2>1, <1>0 DEF Waiting, Flying, Served
<1>3. RequestsInOrder /\ AnswersInOrder
  BY <1>2 DEF RequestsInOrder, AnswersInOrder
<1>4. Answered
  BY <1>2 DEF Answered, AnswersMatch
<1> QED BY <1>1, <1>3, <1>4 DEF OrderInv

(* A piece is a header of one of the known kinds, or a content.            *)
LEMMA AnswerPieces ==
  ASSUME BatchTypes, NEW r \in 1..Requests
  PROVE  /\ AnswerTo(r) \in Seq(Pieces)
         /\ KindOf(r) \in {"blob", "tree", "missing", "submodule"}
         /\ AnswerTo(r) = IF KindOf(r) \in {"blob", "tree"} THEN <<Header(KindOf(r)), Body(r)>>
                          ELSE <<Header(KindOf(r))>>
<1>1. store[r] \in Kinds
  BY DEF BatchTypes
<1>2. /\ Header("blob") \in Pieces /\ Header("tree") \in Pieces
      /\ Header("missing") \in Pieces
      /\ Header("submodule") \in Pieces /\ Body(r) \in Pieces
  BY DEF Header, Body, Pieces, HeaderKinds
<1> QED BY <1>1, <1>2 DEF AnswerTo, KindOf, Kinds

-----------------------------------------------------------------------------
(* The numbers stay right as long as the pieces come in the same order.    *)
LEMMA NumbersKept ==
  ASSUME NEW o, Numbers(o), Flying' = Flying, Served' = Served,
         \A n \in 1..Flying : Piece(n)' = Piece(n),
         UNCHANGED <<store, answers, caller>>, Flying \in Nat
  PROVE  Numbers(o)'
<1>1. \A n \in 1..Flying, r \in 1..Requests : HeaderFor(Piece(n), r)' = HeaderFor(Piece(n), r)
  BY DEF HeaderFor, IsHeader, KindOf
<1>2. \A n \in 1..Flying : /\ IsHeader(Piece(n))' = IsHeader(Piece(n))
                           /\ HasContent(Piece(n))' = HasContent(Piece(n))
                           /\ Piece(n).r' = Piece(n).r
  BY DEF IsHeader, HasContent
<1> QED BY <1>1, <1>2 DEF Numbers

(* The writer moves requests towards git and touches nothing else.         *)
LEMMA WriterOrder ==
  ASSUME OrderInv, WriterStep
  PROVE  OrderInv'
<1> USE BatchAssumption DEF OrderInv
<1>1. UNCHANGED <<store, git, unsent, stdout, caller, answers, err, garbled>>
  BY DEF WriterStep, Format, Flush, CloseStdin
<1>2. writer = "writing"
  BY DEF WriterStep, Format, Flush, CloseStdin
<1>3. BatchTypes' /\ RequestsInOrder' /\ Served' = Served
  <2> USE DEF BatchTypes, RequestsInOrder, Served, Waiting, Request
  <2>1. CASE Format
    <3>1. /\ written < Requests /\ written' = written + 1
          /\ buffer' = Append(buffer, written + 1)
          /\ UNCHANGED <<store, stdin, unsent, stdout, answers, caller>>
      BY <2>1 DEF Format
    <3>2. BatchTypes' /\ Waiting' = Waiting + 1 /\ Served' = Served
      BY <3>1
    <3>3. ASSUME NEW n \in 1..(Waiting + 1) PROVE Request(n)' = Served + n
      <4>1. CASE n <= Waiting
        <5>1. Request(n)' = Request(n)
          BY <3>1, <4>1
        <5> QED BY <5>1, <4>1
      <4>2. CASE n = Waiting + 1
        <5>1. Request(n)' = written + 1
          BY <3>1, <4>2
        <5> QED BY <5>1, <4>2
      <4>3. Waiting \in Nat
        OBVIOUS
      <4> QED
        <5> HIDE DEF Waiting, Request
        <5> QED BY <4>1, <4>2, <4>3
    <3>4. Waiting' <= written'
      BY <3>1, <3>2
    <3>5. \A n \in 1..Waiting' : Request(n)' = Served' + n
      <4> HIDE DEF Waiting, Request, Served
      <4> QED BY <3>2, <3>3
    <3>6. RequestsInOrder'
      <4> HIDE DEF Waiting, Request, Served
      <4> QED BY <3>4, <3>5
    <3> QED BY <3>2, <3>6
  <2>2. CASE Flush
    <3>1. CASE git = "serving"
      <4>1. /\ buffer # <<>>
            /\ stdin' = Append(stdin, Head(buffer)) /\ buffer' = Tail(buffer)
            /\ UNCHANGED <<store, written, unsent, stdout, answers, caller>>
        BY <2>2, <3>1 DEF Flush
      <4>2. BatchTypes' /\ Waiting' = Waiting
        BY <4>1
      <4>3. \A n \in 1..Waiting : Request(n)' = Request(n)
        BY <4>1
      <4> QED BY <4>1, <4>2, <4>3
    <3>2. CASE git # "serving"
      BY <2>2, <3>2 DEF Flush
    <3> QED BY <3>1, <3>2
  <2>3. CASE CloseStdin
    BY <2>3 DEF CloseStdin
  <2> QED BY <2>1, <2>2, <2>3 DEF WriterStep
<1>4. AnswersInOrder'
  <2> SUFFICES ASSUME caller' \in {"header", "content"} PROVE \E o : Numbers(o)'
    BY DEF AnswersInOrder
  <2>1. PICK o : Numbers(o)
    BY <1>1 DEF AnswersInOrder
  <2>2. Flying' = Flying /\ Flying \in Nat /\ \A n \in 1..Flying : Piece(n)' = Piece(n)
    BY <1>1 DEF Flying, Piece, BatchTypes
  <2>3. Numbers(o)'
    BY <1>1, <1>3, <2>1, <2>2, NumbersKept
  <2> QED BY <2>3
<1>5. Answered'
  BY <1>1, <1>2, <1>3 DEF Answered, AnswersMatch, Expected
<1> QED BY <1>3, <1>4, <1>5

(* What git is about to answer follows what it has answered: it read the   *)
(* next request, and the answer before is complete.                        *)
LEMMA NextServed ==
  ASSUME OrderInv, GitReads
  PROVE  /\ BatchTypes' /\ RequestsInOrder'
         /\ Served' = Served + 1
         /\ Served + 1 \in 1..Requests /\ Head(stdin) = Served + 1
<1> USE BatchAssumption DEF OrderInv
<1>1. /\ stdin # <<>> /\ stdin' = Tail(stdin) /\ Head(stdin) = stdin[1]
      /\ UNCHANGED <<store, written, buffer, stdout, answers, caller>>
  BY DEF GitReads
<1>2. Len(stdin) \in Nat \ {0} /\ Len(buffer) \in Nat /\ written \in 0..Requests
  BY <1>1 DEF BatchTypes
<1>3. Head(stdin) \in 1..Requests
  BY <1>1, <1>2 DEF BatchTypes
<1>4. Waiting \in Nat /\ Waiting >= 1 /\ Served \in Nat
  BY <1>2 DEF Waiting, Served, RequestsInOrder
<1>5. Request(1) = Head(stdin)
  BY <1>1, <1>2 DEF Request
<1>6. Head(stdin) = Served + 1
  <2> HIDE DEF Waiting, Served, Request
  <2> QED BY <1>4, <1>5 DEF RequestsInOrder
<1>7. Waiting' = Waiting - 1 /\ Served' = Served + 1
  BY <1>1, <1>2 DEF Waiting, Served
<1>8. unsent' \in Seq(Pieces)
  <2>1. CASE unsent' = AnswerTo(Head(stdin))
    BY <2>1, <1>3, AnswerPieces
  <2>2. CASE unsent' = <<Header("garbled"), Body(Head(stdin))>>
    BY <2>2, <1>3 DEF Header, Body, Pieces, HeaderKinds
  <2> QED BY <2>1, <2>2 DEF GitReads
<1>9. BatchTypes'
  BY <1>1, <1>8 DEF BatchTypes
<1>10. ASSUME NEW n \in 1..(Waiting - 1) PROVE Request(n)' = Request(n + 1)
  BY <1>1, <1>2 DEF Request, Waiting, BatchTypes
<1>11. RequestsInOrder'
  <2>1. Waiting' <= written'
    BY <1>1, <1>2, <1>4, <1>7 DEF RequestsInOrder
  <2>2. ASSUME NEW n \in 1..Waiting' PROVE Request(n)' = Served' + n
    <3> HIDE DEF Waiting, Served, Request
    <3>1. n + 1 \in 1..Waiting /\ n \in 1..(Waiting - 1)
      BY <1>4, <1>7
    <3>2. Request(n + 1) = Served + (n + 1)
      BY <3>1 DEF RequestsInOrder
    <3> QED BY <1>4, <1>7, <1>10, <3>1, <3>2
  <2> QED BY <2>1, <2>2 DEF RequestsInOrder
<1> QED BY <1>3, <1>6, <1>7, <1>9, <1>11

(* The pieces of one answer, behind those that are on their way.           *)
LEMMA AnswerJoins ==
  ASSUME OrderInv, GitReads, NEW r \in 1..Requests, r = Head(stdin),
         NEW f, f = Flying
  PROVE  /\ f \in Nat /\ Flying' \in {f + 1, f + 2}
         /\ \A n \in 1..f : Piece(n)' = Piece(n)
         /\ HeaderFor(Piece(f + 1), r)'
         /\ Flying' = f + 1 => ~HasContent(Piece(f + 1))'
         /\ Flying' = f + 2 => /\ HasContent(Piece(f + 1))'
                               /\ Piece(f + 2)' = Body(r)
<1> USE BatchAssumption DEF OrderInv
<1>1. unsent = <<>> /\ Len(unsent) = 0 /\ UNCHANGED <<stdout, store>>
  BY DEF GitReads
<1>2. Len(stdout) \in Nat /\ f = Len(stdout)
  BY <1>1 DEF BatchTypes, Flying
<1>3. \A n \in 1..f : Piece(n)' = Piece(n)
  BY <1>1, <1>2 DEF Piece
<1>4. Flying' = f + Len(unsent)'
  BY <1>1, <1>2 DEF Flying
<1>5. Piece(f + 1)' = unsent'[1] /\ Piece(f + 2)' = unsent'[2]
  BY <1>1, <1>2 DEF Piece
<1>6. \A x : HeaderFor(x, r)' = HeaderFor(x, r) /\ HasContent(x)' = HasContent(x)
  BY <1>1 DEF HeaderFor, IsHeader, KindOf, HasContent
<1>7. CASE unsent' = AnswerTo(r)
  <2>1. KindOf(r) \in {"blob", "tree", "missing", "submodule"}
        /\ AnswerTo(r) = IF KindOf(r) \in {"blob", "tree"} THEN <<Header(KindOf(r)), Body(r)>>
                          ELSE <<Header(KindOf(r))>>
    BY AnswerPieces
  <2>2. HeaderFor(Header(KindOf(r)), r)
    BY <2>1 DEF Header, HeaderFor, IsHeader
  <2>3. CASE KindOf(r) \in {"blob", "tree"}
    <3>1. Len(unsent)' = 2 /\ unsent'[1] = Header(KindOf(r)) /\ unsent'[2] = Body(r)
      BY <1>7, <2>1, <2>3
    <3>2. HasContent(Header(KindOf(r)))
      BY <2>3 DEF HasContent, Header
    <3> QED BY <1>2, <1>3, <1>4, <1>5, <1>6, <2>2, <2>3, <3>1, <3>2
  <2>4. CASE KindOf(r) \notin {"blob", "tree"}
    <3>1. Len(unsent)' = 1 /\ unsent'[1] = Header(KindOf(r))
      BY <1>7, <2>1, <2>4
    <3>2. ~HasContent(Header(KindOf(r)))
      BY <2>1, <2>4 DEF HasContent, Header
    <3> QED BY <1>2, <1>3, <1>4, <1>5, <1>6, <2>2, <3>1, <3>2
  <2> QED BY <2>3, <2>4
<1>8. CASE unsent' = <<Header("garbled"), Body(r)>>
  <2>1. Len(unsent)' = 2 /\ unsent'[1] = Header("garbled") /\ unsent'[2] = Body(r)
    BY <1>8
  <2>2. HasContent(Header("garbled")) /\ HeaderFor(Header("garbled"), r)
    BY DEF HasContent, Header, HeaderFor, IsHeader
  <2> QED BY <1>2, <1>3, <1>4, <1>5, <1>6, <2>1, <2>2
<1> QED BY <1>7, <1>8 DEF GitReads

(* git goes on to the next request: its answer takes the next number.      *)
LEMMA ReadsOrder == OrderInv /\ GitReads => OrderInv'
<1> SUFFICES ASSUME OrderInv, GitReads PROVE OrderInv'
  OBVIOUS
<1>0. PICK r : r = Head(stdin)
  OBVIOUS
<1>1. /\ BatchTypes' /\ RequestsInOrder' /\ Served' = Served + 1
      /\ r = Served + 1 /\ r \in 1..Requests
  BY <1>0, NextServed
<1>5. Served \in Nat
  BY BatchAssumption DEF OrderInv, BatchTypes, RequestsInOrder, Served, Waiting
<1>2. UNCHANGED <<store, git, writer, answers, caller, err>> /\ git = "serving"
  BY DEF GitReads
<1>3. Answered'
  BY <1>2 DEF OrderInv, Answered, AnswersMatch, Expected
<1>4. AnswersInOrder'
  <2> SUFFICES ASSUME caller' \in {"header", "content"} PROVE \E o : Numbers(o)'
    BY DEF AnswersInOrder
  <2>1. PICK f, g : f = Flying /\ g = Flying'
    OBVIOUS
  <2>2. PICK o : Numbers(o)
    BY <1>2 DEF OrderInv, AnswersInOrder
  <2>3. /\ f \in Nat /\ g \in {f + 1, f + 2}
        /\ \A n \in 1..f : Piece(n)' = Piece(n)
        /\ HeaderFor(Piece(f + 1), r)'
        /\ g = f + 1 => ~HasContent(Piece(f + 1))'
        /\ g = f + 2 => HasContent(Piece(f + 1))' /\ Piece(f + 2)' = Body(r)
    BY <1>0, <1>1, <2>1, AnswerJoins
  <2> DEFINE p == [n \in 1..g |-> IF n <= f THEN o[n] ELSE r]
  <2>4. UNCHANGED <<store, answers, caller>> /\ Len(answers) \in Nat
    BY <1>2 DEF OrderInv, BatchTypes
  <2>5. /\ \A n \in 1..f : o[n] \in 1..Requests
        /\ f > 0 => o[f] + 1 = r /\ ~HasContent(Piece(f))
        /\ f = 0 => r = Len(answers) + 1 /\ caller = "header"
    <3>1. o \in [1..f -> 1..Requests]
      BY <2>1, <2>2 DEF Numbers
    <3>2. f > 0 => o[f] = Served /\ ~HasContent(Piece(f))
      BY <2>1, <2>2 DEF Numbers
    <3>3. f = 0 => Served = Len(answers) /\ caller = "header"
      BY <2>1, <2>2 DEF Numbers
    <3> QED BY <1>1, <3>1, <3>2, <3>3
  <2>6. p \in [1..g -> 1..Requests]
    BY <1>1, <2>3, <2>5
  <2>7. \A x, n : /\ HeaderFor(x, n)' = HeaderFor(x, n) /\ HasContent(x)' = HasContent(x)
                 /\ IsHeader(x)' = IsHeader(x)
    BY <1>2 DEF HeaderFor, IsHeader, KindOf, HasContent
  <2>8. IsHeader(Piece(f + 1))' /\ (g = f + 2 => ~IsHeader(Piece(f + 2))' /\ Piece(f + 2)'.r = r
                                                /\ ~HasContent(Piece(f + 2))')
    BY <2>3 DEF HeaderFor, IsHeader, Body, HasContent
  <2>9. ASSUME NEW n \in 1..g
        PROVE  IF IsHeader(Piece(n))' THEN HeaderFor(Piece(n), p[n])'
               ELSE Piece(n)'.r = p[n]
    <3>1. CASE n <= f
      <4>1. n \in 1..f /\ p[n] = o[n] /\ Piece(n)' = Piece(n)
        BY <2>3, <3>1
      <4>2. IF IsHeader(Piece(n)) THEN HeaderFor(Piece(n), o[n]) ELSE Piece(n).r = o[n]
        BY <2>1, <2>2, <4>1 DEF Numbers
      <4> QED BY <2>7, <4>1, <4>2
    <3>2. CASE n = f + 1
      BY <2>3, <2>8, <3>2
    <3>3. CASE n = f + 2 /\ g = f + 2
      BY <2>3, <2>8, <3>3
    <3> QED BY <2>3, <3>1, <3>2, <3>3
  <2>10. ASSUME NEW n \in 1..(g - 1)
         PROVE  IF HasContent(Piece(n))' THEN ~IsHeader(Piece(n + 1))' /\ p[n + 1] = p[n]
                ELSE IsHeader(Piece(n + 1))' /\ p[n + 1] = p[n] + 1
    <3>1. CASE n < f
      <4>1. n \in 1..(f - 1) /\ n \in 1..f /\ n + 1 \in 1..f
        BY <2>3, <3>1
      <4>2. /\ p[n] = o[n] /\ p[n + 1] = o[n + 1]
            /\ Piece(n)' = Piece(n) /\ Piece(n + 1)' = Piece(n + 1)
        BY <2>3, <4>1
      <4>3. IF HasContent(Piece(n)) THEN ~IsHeader(Piece(n + 1)) /\ o[n + 1] = o[n]
            ELSE IsHeader(Piece(n + 1)) /\ o[n + 1] = o[n] + 1
        BY <2>1, <2>2, <4>1 DEF Numbers
      <4> QED BY <2>7, <4>1, <4>2, <4>3
    <3>2. CASE n = f
      <4>1. f \in 1..f /\ p[n] = o[f] /\ p[n + 1] = r /\ Piece(f)' = Piece(f)
        BY <2>3, <3>2
      <4>2. ~HasContent(Piece(n))'
        BY <2>5, <2>7, <3>2, <4>1
      <4> QED BY <2>5, <2>8, <3>2, <4>1, <4>2
    <3>3. CASE n = f + 1 /\ g = f + 2
      <4>1. p[n] = r /\ p[n + 1] = r /\ n + 1 = f + 2
        BY <2>3, <3>3
      <4> QED BY <2>3, <2>8, <3>3, <4>1
    <3> QED BY <2>3, <3>1, <3>2, <3>3
  <2>11. /\ p[1] = Len(answers) + 1
         /\ IsHeader(Piece(1))' <=> caller = "header"
         /\ p[g] = r
         /\ ~HasContent(Piece(g))'
    <3>1. p[g] = r /\ ~HasContent(Piece(g))'
      BY <2>3, <2>8
    <3>2. CASE f = 0
      BY <2>3, <2>5, <2>8, <3>2
    <3>3. CASE f > 0
      <4>1. 1 \in 1..f /\ p[1] = o[1] /\ Piece(1)' = Piece(1)
        BY <2>3, <3>3
      <4>2. o[1] = Len(answers) + 1 /\ (IsHeader(Piece(1)) <=> caller = "header")
        BY <2>1, <2>2, <3>3 DEF Numbers
      <4> QED BY <2>7, <3>1, <4>1, <4>2
    <3> QED BY <2>3, <3>1, <3>2, <3>3
  <2>12. caller = "content" => store[Len(answers) + 1] \in {"blob", "tree"}
    BY <2>2 DEF Numbers
  <2>13. g > 0 /\ r = Served'
    BY <1>1, <2>3
  <2>14. Numbers(p)'
    <3> HIDE DEF p
    <3> QED BY <2>1, <2>4, <2>6, <2>9, <2>10, <2>11, <2>12, <2>13 DEF Numbers
  <2> QED BY <2>14
<1> QED BY <1>1, <1>3, <1>4 DEF OrderInv

(* What git writes and how it ends change no order.                        *)
LEMMA GitOrder == OrderInv /\ (GitStep \/ GitDies) => OrderInv'
<1> SUFFICES ASSUME OrderInv, GitStep \/ GitDies PROVE OrderInv'
  OBVIOUS
<1>1. CASE GitReads
  BY <1>1, ReadsOrder
<1>2. CASE GitWrites \/ GitExits \/ GitDies
  <2>1. /\ UNCHANGED <<store, written, buffer, writer, stdin, caller, answers, err>>
        /\ git = "serving"
    BY <1>2 DEF GitWrites, GitExits, GitDies
  <2>2. /\ unsent' \in Seq(Pieces) /\ stdout' \in Seq(Pieces)
        /\ Flying' = Flying /\ Flying \in Nat
        /\ \A n \in 1..Flying : Piece(n)' = Piece(n)
    <3> USE DEF Flying, Piece, OrderInv, BatchTypes
    <3>1. CASE GitWrites
      <4>1. /\ unsent # <<>> /\ unsent' = Tail(unsent)
            /\ stdout' = Append(stdout, Head(unsent))
        BY <3>1 DEF GitWrites
      <4> HIDE DEF Pieces
      <4> QED BY <4>1
    <3>2. CASE GitExits \/ GitDies
      <4>1. UNCHANGED <<unsent, stdout>>
        BY <3>2 DEF GitExits, GitDies
      <4> HIDE DEF Pieces
      <4> QED BY <4>1
    <3> QED BY <1>2, <3>1, <3>2
  <2>3. BatchTypes' /\ RequestsInOrder' /\ Served' = Served
    BY <2>1, <2>2 DEF OrderInv, BatchTypes, RequestsInOrder, Served, Waiting, Request
  <2>4. AnswersInOrder'
    <3> SUFFICES ASSUME caller' \in {"header", "content"} PROVE \E o : Numbers(o)'
      BY DEF AnswersInOrder
    <3>1. PICK o : Numbers(o)
      BY <2>1 DEF OrderInv, AnswersInOrder
    <3>2. Numbers(o)'
      BY <2>1, <2>2, <2>3, <3>1, NumbersKept
    <3> QED BY <3>2
  <2>5. Answered'
    BY <2>1 DEF OrderInv, Answered, AnswersMatch, Expected
  <2> QED BY <2>3, <2>4, <2>5 DEF OrderInv
<1> QED BY <1>1, <1>2 DEF GitStep

-----------------------------------------------------------------------------
(* The caller. *)

(* It takes the first of the pieces.                                       *)
LEMMA PieceTaken ==
  ASSUME OrderInv, stdout # <<>>, stdout' = Tail(stdout), UNCHANGED unsent,
         NEW f, f = Flying
  PROVE  /\ f \in Nat \ {0} /\ Flying' = f - 1
         /\ \A n \in 1..(f - 1) : Piece(n)' = Piece(n + 1)
         /\ Piece(1) = Head(stdout)
         /\ stdout' \in Seq(Pieces)
<1>1. /\ stdout \in Seq(Pieces) /\ unsent \in Seq(Pieces)
      /\ Len(stdout) \in Nat \ {0} /\ Len(unsent) \in Nat
  BY DEF OrderInv, BatchTypes
<1>2. Len(stdout)' = Len(stdout) - 1
  BY <1>1
<1>3. f \in Nat \ {0} /\ Flying' = f - 1 /\ Piece(1) = Head(stdout)
  BY <1>1, <1>2 DEF Flying, Piece
<1>4. ASSUME NEW n \in 1..(f - 1) PROVE Piece(n)' = Piece(n + 1)
  <2>1. CASE n <= Len(stdout) - 1
    BY <1>1, <1>2, <2>1 DEF Piece
  <2>2. CASE n > Len(stdout) - 1
    <3>1. n - Len(stdout)' = (n + 1) - Len(stdout)
      BY <1>1, <1>2
    <3> QED BY <1>1, <1>2, <2>2, <3>1 DEF Piece
  <2> QED BY <1>1, <2>1, <2>2
<1>5. stdout' \in Seq(Pieces)
  BY <1>1
<1> QED BY <1>3, <1>4, <1>5

(* p numbers the pieces behind x, the first of f, with a answers read.      *)
Shifted(f, p, x, a) ==
  /\ f \in Nat \ {0} /\ Flying' = f - 1 /\ a + 1 \in 1..Requests
  /\ p \in [1..(f - 1) -> 1..Requests]
  /\ \A n \in 1..(f - 1) : IF IsHeader(Piece(n))' THEN HeaderFor(Piece(n), p[n])'
                           ELSE Piece(n)'.r = p[n]
  /\ \A n \in 1..(f - 2) :
       IF HasContent(Piece(n))' THEN ~IsHeader(Piece(n + 1))' /\ p[n + 1] = p[n]
       ELSE IsHeader(Piece(n + 1))' /\ p[n + 1] = p[n] + 1
  /\ f > 1 => /\ p[1] = IF HasContent(x) THEN a + 1 ELSE a + 2
              /\ IsHeader(Piece(1))' <=> ~HasContent(x)
              /\ p[f - 1] = Served
              /\ ~HasContent(Piece(f - 1))'
  /\ f = 1 => ~HasContent(x) /\ Served = a + 1
  /\ Served' = Served
  /\ IsHeader(x) <=> caller = "header"
  /\ IF IsHeader(x) THEN HeaderFor(x, a + 1) ELSE x.r = a + 1

(* The pieces behind the first keep their numbers.  The first belongs to   *)
(* the answer the caller is at.                                            *)
LEMMA NumbersShift ==
  ASSUME OrderInv, NEW o, Numbers(o), stdout # <<>>, stdout' = Tail(stdout),
         UNCHANGED <<store, written, buffer, stdin, unsent>>,
         NEW f, f = Flying, NEW p, p = [n \in 1..(f - 1) |-> o[n + 1]],
         NEW x, x = Head(stdout), NEW a, a = Len(answers)
  PROVE  Shifted(f, p, x, a)
<1>1. /\ f \in Nat \ {0} /\ Flying' = f - 1
      /\ \A n \in 1..(f - 1) : Piece(n)' = Piece(n + 1)
      /\ Piece(1) = x
  BY PieceTaken
<1>2. /\ o \in [1..f -> 1..Requests]
      /\ o[1] = a + 1 /\ o[f] = Served /\ ~HasContent(Piece(f))
      /\ (IsHeader(x) <=> caller = "header")
  BY <1>1 DEF Numbers
<1>3. /\ \A n \in 1..f : IF IsHeader(Piece(n)) THEN HeaderFor(Piece(n), o[n])
                         ELSE Piece(n).r = o[n]
      /\ \A n \in 1..(f - 1) :
           IF HasContent(Piece(n)) THEN ~IsHeader(Piece(n + 1)) /\ o[n + 1] = o[n]
           ELSE IsHeader(Piece(n + 1)) /\ o[n + 1] = o[n] + 1
  BY DEF Numbers
<1>4. \A y, n : /\ HeaderFor(y, n)' = HeaderFor(y, n) /\ HasContent(y)' = HasContent(y)
                /\ IsHeader(y)' = IsHeader(y)
  BY DEF HeaderFor, IsHeader, KindOf, HasContent
<1>5. a + 1 \in 1..Requests /\ a \in Nat
  BY <1>1, <1>2 DEF OrderInv, BatchTypes
<1>6. p \in [1..(f - 1) -> 1..Requests] /\ \A n \in 1..(f - 1) : p[n] = o[n + 1]
  BY <1>1, <1>2
<1>7. ASSUME NEW n \in 1..(f - 1)
      PROVE  IF IsHeader(Piece(n))' THEN HeaderFor(Piece(n), p[n])'
             ELSE Piece(n)'.r = p[n]
  <2>1. n + 1 \in 1..f
    BY <1>1
  <2> QED BY <1>1, <1>3, <1>4, <1>6, <2>1
<1>8. ASSUME NEW n \in 1..(f - 2)
      PROVE  IF HasContent(Piece(n))' THEN ~IsHeader(Piece(n + 1))' /\ p[n + 1] = p[n]
             ELSE IsHeader(Piece(n + 1))' /\ p[n + 1] = p[n] + 1
  <2>1. n \in 1..(f - 1) /\ n + 1 \in 1..(f - 1)
    BY <1>1
  <2> QED BY <1>1, <1>3, <1>4, <1>6, <2>1
<1>9. ASSUME f > 1
      PROVE  /\ p[1] = IF HasContent(x) THEN a + 1 ELSE a + 2
             /\ IsHeader(Piece(1))' <=> ~HasContent(x)
             /\ p[f - 1] = Served
             /\ ~HasContent(Piece(f - 1))'
  <2>1. 1 \in 1..(f - 1) /\ f - 1 \in 1..(f - 1)
    BY <1>1, <1>9
  <2>2. p[f - 1] = o[f] /\ Piece(f - 1)' = Piece(f)
    BY <1>1, <1>6, <2>1
  <2>3. p[1] = o[2] /\ Piece(1)' = Piece(2)
    BY <1>1, <1>6, <2>1
  <2>4. IF HasContent(x) THEN ~IsHeader(Piece(2)) /\ o[2] = o[1]
        ELSE IsHeader(Piece(2)) /\ o[2] = o[1] + 1
    BY <1>1, <1>3, <2>1
  <2> QED BY <1>2, <1>4, <1>5, <2>2, <2>3, <2>4
<1>10. f = 1 => ~HasContent(x) /\ Served = a + 1
  BY <1>1, <1>2
<1>11. Served' = Served
  BY DEF Served, Waiting
<1>12. IF IsHeader(x) THEN HeaderFor(x, a + 1) ELSE x.r = a + 1
  BY <1>1, <1>2, <1>3
<1> QED BY <1>1, <1>2, <1>5, <1>6, <1>7, <1>8, <1>9, <1>10, <1>11, <1>12
    DEF Shifted

(* The last piece of an answer: the next one is a header, of the request   *)
(* after.                                                                  *)
LEMMA AnswerEnds ==
  ASSUME OrderInv, Reading, stdout # <<>>, stdout' = Tail(stdout),
         UNCHANGED <<store, written, buffer, stdin, unsent>>,
         ~HasContent(Head(stdout)), caller' = "header",
         Len(answers)' = Len(answers) + 1
  PROVE  AnswersInOrder'
<1>1. PICK o : Numbers(o)
  BY DEF OrderInv, AnswersInOrder, Reading
<1>2. PICK f, x, a : f = Flying /\ x = Head(stdout) /\ a = Len(answers)
  OBVIOUS
<1>3. PICK p : p = [n \in 1..(f - 1) |-> o[n + 1]]
  OBVIOUS
<1>4. Shifted(f, p, x, a)
  BY <1>1, <1>2, <1>3, NumbersShift
<1>5. ~HasContent(x) /\ Len(answers)' = a + 1 /\ a \in Nat
  BY <1>2 DEF OrderInv, BatchTypes
<1>6. PICK g : g = f - 1
  OBVIOUS
<1>7. g \in Nat /\ Flying' = g /\ f - 2 = g - 1 /\ (f > 1 <=> g > 0) /\ (f = 1 <=> g = 0)
  BY <1>4, <1>6 DEF Shifted
<1>8. /\ p \in [1..g -> 1..Requests]
      /\ \A n \in 1..g : IF IsHeader(Piece(n))' THEN HeaderFor(Piece(n), p[n])'
                         ELSE Piece(n)'.r = p[n]
      /\ \A n \in 1..(g - 1) :
           IF HasContent(Piece(n))' THEN ~IsHeader(Piece(n + 1))' /\ p[n + 1] = p[n]
           ELSE IsHeader(Piece(n + 1))' /\ p[n + 1] = p[n] + 1
  BY <1>4, <1>6, <1>7 DEF Shifted
<1>9. /\ g > 0 => /\ p[1] = (a + 1) + 1
                  /\ IsHeader(Piece(1))'
                  /\ p[g] = Served'
                  /\ ~HasContent(Piece(g))'
      /\ g = 0 => Served' = a + 1
  BY <1>4, <1>5, <1>6, <1>7 DEF Shifted
<1>10. Numbers(p)'
  BY <1>5, <1>7, <1>8, <1>9 DEF Numbers
<1> QED BY <1>10 DEF AnswersInOrder

(* An object's header: its bytes are the next piece.                       *)
LEMMA ContentFollows ==
  ASSUME OrderInv, Reading, stdout # <<>>, stdout' = Tail(stdout),
         UNCHANGED <<store, written, buffer, stdin, unsent, answers>>,
         Head(stdout).k \in {"blob", "tree"}, caller' = "content"
  PROVE  AnswersInOrder'
<1>1. PICK o : Numbers(o)
  BY DEF OrderInv, AnswersInOrder, Reading
<1>2. PICK f, x, a : f = Flying /\ x = Head(stdout) /\ a = Len(answers)
  OBVIOUS
<1>3. PICK p : p = [n \in 1..(f - 1) |-> o[n + 1]]
  OBVIOUS
<1>4. Shifted(f, p, x, a)
  BY <1>1, <1>2, <1>3, NumbersShift
<1>5. HasContent(x) /\ IsHeader(x) /\ Len(answers)' = a
  BY <1>2 DEF HasContent, IsHeader
<1>6. store[a + 1] \in {"blob", "tree"}
  <2>1. KindOf(a + 1) \in {"blob", "tree"}
    BY <1>2, <1>4, <1>5 DEF Shifted, HeaderFor
  <2> QED BY <2>1 DEF KindOf
<1>7. PICK g : g = f - 1
  OBVIOUS
<1>8. g \in Nat \ {0} /\ Flying' = g /\ f - 2 = g - 1
  BY <1>4, <1>5, <1>7 DEF Shifted
<1>9. /\ p \in [1..g -> 1..Requests]
      /\ \A n \in 1..g : IF IsHeader(Piece(n))' THEN HeaderFor(Piece(n), p[n])'
                         ELSE Piece(n)'.r = p[n]
      /\ \A n \in 1..(g - 1) :
           IF HasContent(Piece(n))' THEN ~IsHeader(Piece(n + 1))' /\ p[n + 1] = p[n]
           ELSE IsHeader(Piece(n + 1))' /\ p[n + 1] = p[n] + 1
  BY <1>4, <1>7, <1>8 DEF Shifted
<1>10. /\ p[1] = a + 1 /\ ~IsHeader(Piece(1))'
       /\ p[g] = Served' /\ ~HasContent(Piece(g))'
  BY <1>4, <1>5, <1>7, <1>8 DEF Shifted
<1>11. Numbers(p)'
  BY <1>5, <1>6, <1>8, <1>9, <1>10 DEF Numbers
<1> QED BY <1>11 DEF AnswersInOrder

(* The first piece is what the caller takes it for.                        *)
LEMMA FirstPiece ==
  ASSUME OrderInv, Reading, stdout # <<>>
  PROVE  LET x == Head(stdout)
             r == Len(answers) + 1
         IN  /\ r \in 1..Requests
             /\ x.k \in {"missing", "submodule"} => HeaderFor(x, r)
             /\ caller = "content" => x.k = "content" /\ x.r = r /\ store[r] \in {"blob", "tree"}
<1>1. PICK o : Numbers(o)
  BY DEF OrderInv, AnswersInOrder, Reading
<1>2. Flying \in Nat \ {0} /\ Piece(1) = Head(stdout)
  BY DEF OrderInv, BatchTypes, Flying, Piece
<1>3. /\ o[1] = Len(answers) + 1 /\ o[1] \in 1..Requests
      /\ (IsHeader(Head(stdout)) <=> caller = "header")
      /\ caller = "content" => store[Len(answers) + 1] \in {"blob", "tree"}
  BY <1>1, <1>2 DEF Numbers
<1>4. IF IsHeader(Head(stdout)) THEN HeaderFor(Head(stdout), o[1])
      ELSE Head(stdout).r = o[1]
  BY <1>1, <1>2 DEF Numbers
<1> QED BY <1>3, <1>4 DEF IsHeader

(* The caller gives the answer it has read the place of its request.       *)
LEMMA AnswerReadOrder == OrderInv /\ (ReadHeader \/ ReadContent) => OrderInv'
<1> SUFFICES ASSUME OrderInv, ReadHeader \/ ReadContent PROVE OrderInv'
  OBVIOUS
<1> DEFINE x == Head(stdout)
           r == Len(answers) + 1
<1>1. /\ UNCHANGED <<store, written, buffer, writer, stdin, git, unsent>>
      /\ Reading /\ stdout # <<>> /\ stdout' = Tail(stdout)
      /\ err = "none" /\ caller \in {"header", "content"}
  BY DEF ReadHeader, ReadContent, Reading, OrderInv, Answered
<1>2. /\ r \in 1..Requests
      /\ x.k \in {"missing", "submodule"} => HeaderFor(x, r)
      /\ caller = "content" => x.k = "content" /\ x.r = r /\ store[r] \in {"blob", "tree"}
  BY <1>1, FirstPiece
<1>3. stdout' \in Seq(Pieces)
  BY <1>1, PieceTaken
<1>4. RequestsInOrder'
  BY <1>1 DEF OrderInv, RequestsInOrder, Served, Waiting, Request
<1>5. answers \in Seq(0..Requests)
  BY DEF OrderInv, BatchTypes
<1>6. \A i \in 1..Len(answers) : answers[i] = IF store[i] \in {"blob", "tree"} THEN Content(i) ELSE Absent
  BY <1>1 DEF OrderInv, Answered
(* An answer read in full, v being what the request asked for.             *)
<1>7. ASSUME NEW v \in 0..Requests, v = IF store[r] \in {"blob", "tree"} THEN Content(r) ELSE Absent,
             answers' = Append(answers, v), caller' = "header", UNCHANGED err,
             ~HasContent(x)
      PROVE  OrderInv'
  <2>1. Len(answers)' = Len(answers) + 1 /\ answers' \in Seq(0..Requests)
    BY <1>5, <1>7
  <2>2. \A i \in 1..Len(answers)' : answers'[i] = IF i <= Len(answers) THEN answers[i] ELSE v
    BY <1>5, <1>7, <2>1
  <2>3. AnswersInOrder'
    BY <1>1, <1>7, <2>1, AnswerEnds
  <2>4. BatchTypes'
    BY <1>1, <1>3, <1>7, <2>1 DEF OrderInv, BatchTypes
  <2>5. \A i \in 1..Len(answers)' :
          answers'[i] = IF store'[i] \in {"blob", "tree"} THEN Content(i) ELSE Absent
    <3> SUFFICES ASSUME NEW i \in 1..Len(answers)'
                 PROVE  answers'[i] = IF store[i] \in {"blob", "tree"} THEN Content(i) ELSE Absent
      BY <1>1
    <3>1. CASE i <= Len(answers)
      BY <1>5, <1>6, <2>2, <3>1
    <3>2. CASE i = r
      BY <1>5, <1>7, <2>2, <3>2
    <3> QED BY <1>5, <2>1, <3>1, <3>2
  <2>6. Len(answers)' <= Requests
    BY <1>2, <1>5, <2>1
  <2>7. Answered'
    BY <1>1, <1>7, <2>5, <2>6 DEF Answered, AnswersMatch, Content
  <2> QED BY <1>4, <2>3, <2>4, <2>7 DEF OrderInv
<1>8. CASE ReadHeader /\ x.k \in {"missing", "submodule"}
  <2>1. answers' = Append(answers, Absent) /\ caller' = "header" /\ UNCHANGED err
    BY <1>8 DEF ReadHeader
  <2>2. store[r] \notin {"blob", "tree"}
    BY <1>2, <1>8 DEF HeaderFor, KindOf
  <2>3. ~HasContent(x)
    BY <1>8 DEF HasContent
  <2>4. Absent \in 0..Requests
    BY BatchAssumption DEF Absent
  <2> QED BY <1>7, <2>1, <2>2, <2>3, <2>4
<1>9. CASE ReadContent
  <2>1. answers' = Append(answers, r) /\ caller' = "header" /\ UNCHANGED err /\ caller = "content"
    BY <1>2, <1>9 DEF ReadContent, Content
  <2>2. ~HasContent(x)
    BY <1>2, <2>1 DEF HasContent
  <2>3. r \in 0..Requests /\ r = IF store[r] \in {"blob", "tree"} THEN Content(r) ELSE Absent
    BY <1>2, <1>5, <2>1 DEF Content
  <2> QED BY <1>7, <2>1, <2>2, <2>3
<1>10. CASE ReadHeader /\ x.k \in {"blob", "tree"}
  <2>1. caller' = "content" /\ UNCHANGED <<answers, err>>
    BY <1>10 DEF ReadHeader
  <2>2. AnswersInOrder'
    BY <1>1, <1>10, <2>1, ContentFollows
  <2>3. BatchTypes'
    BY <1>1, <1>3, <2>1 DEF OrderInv, BatchTypes
  <2>4. Answered'
    BY <1>1, <2>1 DEF OrderInv, Answered, AnswersMatch
  <2> QED BY <1>4, <2>2, <2>3, <2>4 DEF OrderInv
<1>11. CASE ReadHeader /\ x.k = "garbled"
  <2>1. caller' = "join" /\ err' = "read" /\ UNCHANGED answers
    BY <1>11 DEF ReadHeader
  <2>2. AnswersInOrder'
    BY <2>1 DEF AnswersInOrder
  <2>3. BatchTypes'
    BY <1>1, <1>3, <2>1 DEF OrderInv, BatchTypes
  <2>4. Answered'
    BY <1>1, <2>1 DEF OrderInv, Answered, AnswersMatch
  <2> QED BY <1>4, <2>2, <2>3, <2>4 DEF OrderInv
<1> QED BY <1>8, <1>9, <1>10, <1>11 DEF ReadHeader

(* What the caller does when it does not read.                             *)
LEMMA CallerOrder == OrderInv /\ CallerStep => OrderInv'
<1> SUFFICES ASSUME OrderInv, CallerStep PROVE OrderInv'
  OBVIOUS
<1>1. CASE ReadHeader \/ ReadContent
  BY <1>1, AnswerReadOrder
<1>2. ASSUME UNCHANGED <<store, written, buffer, stdin, unsent, stdout>>
      PROVE  RequestsInOrder' /\ Served' = Served /\ Flying' = Flying
  BY <1>2 DEF OrderInv, RequestsInOrder, Served, Waiting, Request, Flying
<1>3. CASE Start
  <2>1. UNCHANGED <<store, written, buffer, stdin, unsent, stdout, answers>>
        /\ caller = "start" /\ caller' \in {"header", "returned"}
        /\ (caller' = "header" => UNCHANGED err) /\ (caller' = "returned" => err' = "start")
    BY <1>3 DEF Start
  <2>2. answers = <<>> /\ Flying = 0 /\ Served = 0 /\ err = "none" /\ Len(answers) = 0
    BY <2>1 DEF OrderInv, Answered
  <2>3. Flying' = 0 /\ Served' = 0 /\ RequestsInOrder'
    BY <1>2, <2>1, <2>2
  <2>4. BatchTypes'
    BY <2>1 DEF OrderInv, BatchTypes
  <2>5. AnswersInOrder'
    <3> SUFFICES ASSUME caller' = "header" PROVE \E o : Numbers(o)'
      BY <2>1 DEF AnswersInOrder
    <3>1. PICK o : o = [n \in 1..0 |-> 1]
      OBVIOUS
    <3>2. o \in [1..0 -> 1..Requests]
      BY <3>1
    <3>3. Numbers(o)'
      BY <2>1, <2>2, <2>3, <3>2 DEF Numbers
    <3> QED BY <3>3
  <2>6. Answered'
    BY <2>1, <2>2, BatchAssumption DEF OrderInv, Answered, AnswersMatch
  <2> QED BY <2>3, <2>4, <2>5, <2>6 DEF OrderInv
<1>4. CASE ReadEOF \/ AllRead \/ Join \/ Wait
  <2>1. UNCHANGED <<store, written, buffer, stdin, unsent, stdout, answers>>
        /\ caller' \in {"join", "wait", "retry", "returned"}
    BY <1>4 DEF ReadEOF, AllRead, Join, Wait
  <2>2. BatchTypes' /\ RequestsInOrder' /\ AnswersInOrder'
    BY <1>2, <2>1 DEF OrderInv, BatchTypes, AnswersInOrder
  <2>3. Answered'
    <3> USE <2>1 DEF OrderInv, Answered, AnswersMatch
    <3>1. CASE ReadEOF
      BY <3>1 DEF ReadEOF
    <3>2. CASE AllRead
      BY <3>2 DEF AllRead
    <3>3. CASE Join
      BY <3>3 DEF Join
    <3>4. CASE Wait
      BY <3>4 DEF Wait
    <3> QED BY <1>4, <3>1, <3>2, <3>3, <3>4
  <2> QED BY <2>2, <2>3 DEF OrderInv
<1>5. CASE Retry
  <2>1. UNCHANGED <<store, written, buffer, stdin, unsent, stdout>>
        /\ caller = "retry" /\ caller' = "returned"
    BY <1>5 DEF Retry
  <2>2. answers \in Seq(0..Requests) /\ Len(answers) = Requests /\ err = "none"
    BY <2>1 DEF OrderInv, BatchTypes, Answered
  <2>5. DOMAIN answers = 1..Requests /\ answers \in [1..Requests -> 0..Requests]
    BY <2>2
  <2>3. CASE UNCHANGED answers /\ err' = "retry"
    <3>1. BatchTypes' /\ RequestsInOrder' /\ AnswersInOrder'
      BY <1>2, <2>1, <2>3 DEF OrderInv, BatchTypes, AnswersInOrder
    <3>2. Answered'
      BY <2>1, <2>3 DEF Answered, AnswersMatch
    <3> QED BY <3>1, <3>2 DEF OrderInv
  <2>4. CASE /\ answers' = [i \in DOMAIN answers |->
                              IF i \in Misses THEN Content(i) ELSE answers[i]]
             /\ UNCHANGED err
    <3>1. answers' \in [1..Requests -> 0..Requests]
      BY <2>4, <2>5, BatchAssumption DEF Content
    <3>2. answers' \in Seq(0..Requests) /\ Len(answers)' = Requests
      BY <3>1, BatchAssumption
    <3>3. BatchTypes' /\ RequestsInOrder' /\ AnswersInOrder'
      BY <1>2, <2>1, <3>2 DEF OrderInv, BatchTypes, AnswersInOrder
    <3>4. ASSUME NEW i \in 1..Requests PROVE answers'[i] = Expected(i)'
      <4>1. answers[i] = IF store[i] \in {"blob", "tree"} THEN Content(i) ELSE Absent
        BY <2>1, <2>2 DEF OrderInv, Answered
      <4>2. answers'[i] = IF i \in Misses THEN Content(i) ELSE answers[i]
        BY <2>4, <2>5
      <4>3. Expected(i)' = Expected(i)
        BY <2>1 DEF Expected
      <4>4. i \in Misses <=> answers[i] = Absent /\ store[i] = "promised"
        BY <2>5 DEF Misses
      <4> QED BY <4>1, <4>2, <4>3, <4>4 DEF Expected, Content, Absent
    <3>5. Answered'
      BY <2>1, <3>2, <3>4 DEF Answered, AnswersMatch
    <3> QED BY <3>3, <3>5 DEF OrderInv
  <2> QED BY <1>5, <2>3, <2>4 DEF Retry
<1> QED BY <1>1, <1>3, <1>4, <1>5 DEF CallerStep

(* The rest of Run does not touch the batch.                               *)
LEMMA RestOrder ==
  ASSUME OrderInv, UNCHANGED batchVars
  PROVE  OrderInv'
<1> USE DEF OrderInv, batchVars
<1>1. BatchTypes' /\ RequestsInOrder' /\ Served' = Served
  BY DEF BatchTypes, RequestsInOrder, Served, Waiting, Request
<1>2. Flying' = Flying /\ Flying \in Nat /\ \A n \in 1..Flying : Piece(n)' = Piece(n)
  BY DEF BatchTypes, Flying, Piece
<1>3. AnswersInOrder'
  <2> SUFFICES ASSUME caller \in {"header", "content"} PROVE \E o : Numbers(o)'
    BY DEF AnswersInOrder
  <2>1. PICK o : Numbers(o)
    BY DEF AnswersInOrder
  <2>2. Numbers(o)'
    BY <1>1, <1>2, <2>1, NumbersKept
  <2> QED BY <2>2
<1>4. Answered'
  BY <1>1, <1>2 DEF Answered, AnswersMatch, Expected
<1> QED BY <1>1, <1>3, <1>4

(* The invariant of this module, in every reachable state.                 *)
LEMMA AlwaysOrder == Spec => []OrderInv
<1>1. Init => OrderInv
  BY OrderInit
<1>2. OrderInv /\ [Next]_vars => OrderInv'
  <2> SUFFICES ASSUME OrderInv, [Next]_vars PROVE OrderInv'
    OBVIOUS
  <2>1. CASE Prefetch
    <3>1. BatchNext
      BY <2>1 DEF Prefetch
    <3> QED BY <3>1, WriterOrder, GitOrder, CallerOrder DEF BatchNext
  <2>2. CASE MainStep
    <3>1. UNCHANGED batchVars
      BY <2>2 DEF MainStep, Prefetched, Launch, Merge, ListUntracked, Return, CloseClient
    <3> QED BY <3>1, RestOrder
  <2>3. ASSUME NEW i \in Files, WorkerStep(i) PROVE OrderInv'
    <3>1. UNCHANGED batchVars
      BY <2>3 DEF WorkerStep, Build, Lock, Cached, SpawnFails, Spawn, HandshakeFails,
                  HandshakeOK, Query, Finish
    <3> QED BY <3>1, RestOrder
  <2>4. ASSUME NEW l \in Languages, ServerDies(l) PROVE OrderInv'
    <3>1. UNCHANGED batchVars
      BY <2>4 DEF ServerDies
    <3> QED BY <3>1, RestOrder
  <2>5. CASE UNCHANGED vars
    <3>1. UNCHANGED batchVars
      BY <2>5 DEF vars
    <3> QED BY <3>1, RestOrder
  <2> QED BY <2>1, <2>2, <2>3, <2>4, <2>5 DEF Next
<1> QED BY <1>1, <1>2, PTL DEF Spec

(* A batch that succeeds gives every request the bytes of its own object,  *)
(* a tree's raw ones included, or nothing for a path that is not there or  *)
(* is a submodule (BatchCatFile, gitx.go:355-360, and                      *)
(* readCatFileBatchResponses, gitx.go:482-511), however many there are,    *)
(* whatever the sizes of the pipes and whenever git dies.                  *)
THEOREM AnswersReachTheirRequests == Spec => []AnswersMatch
<1>1. OrderInv => AnswersMatch
  BY DEF OrderInv, Answered
<1> QED BY <1>1, AlwaysOrder, PTL
=============================================================================
