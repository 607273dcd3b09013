------------------------------ MODULE EditSplice ------------------------------
(***************************************************************************)
(* applyEdits of src/internal/synth/synth.go: the edits planned for one    *)
(* file, in the order its targets were named, become the blob to stage.    *)
(* Overlapping edits are coalesced, insertions at one offset are merged,   *)
(* and what is left is spliced into HEAD's text from the end to the start, *)
(* every edit still addressing HEAD's original offsets.                    *)
(*                                                                         *)
(* A text is a sequence of tokens.  NL is the newline byte, any other      *)
(* token a run of bytes without one.  Offsets are Go's: offset n is the    *)
(* place after n tokens.  A gap, a run of newlines, is its length.  The    *)
(* loops of the code are steps here, one iteration each, so what they      *)
(* keep true is an invariant.                                              *)
(***************************************************************************)
EXTENDS Integers, Sequences, FiniteSets

CONSTANTS NL,     \* the newline byte
          Tokens  \* NL and every other token a text may hold

ASSUME TokensAssumption == NL \in Tokens

VARIABLES
  head,     \* the file's text in HEAD
  ops,      \* the planned edits, in the order they were added
  pc,       \* where applyEdits is
  todo,     \* coalescing: the edits not looked at yet; merging: the kept ones
  kept,     \* the edits that survived coalescing
  pending,  \* the merged edits not spliced yet
  out       \* the text being built

spliceVars == <<head, ops, pc, todo, kept, pending, out>>

Kinds == {"replace", "insert", "delete"}

(* An edit of the text h.  Only an insertion may be empty in h. *)
OpOf(h) == {o \in [kind: Kinds, start: 0..Len(h), end: 0..Len(h),
                   text: Seq(Tokens), seq: Nat, wstart: Nat, wend: Nat,
                   member: BOOLEAN, lead: Nat, trail: Nat] :
              o.kind # "insert" => o.start < o.end}

-----------------------------------------------------------------------------
(* Texts: s[:n], s[n:], and the trimming and joining of newlines. *)

Take(s, n) == SubSeq(s, 1, n)
Drop(s, n) == SubSeq(s, n + 1, Len(s))

TrimmedLen(s) == CHOOSE n \in 0..Len(s) :
                   /\ \A i \in (n + 1)..Len(s) : s[i] = NL
                   /\ n = 0 \/ s[n] # NL

BlankLen(s) == CHOOSE n \in 0..Len(s) :
                 /\ \A i \in 1..n : s[i] = NL
                 /\ n = Len(s) \/ s[n + 1] # NL

TrimRight(s) == Take(s, TrimmedLen(s))
TrimLeft(s)  == Drop(s, BlankLen(s))

Newlines(n) == [i \in 1..n |-> NL]

EndsInNL(s) == Len(s) > 0 /\ s[Len(s)] = NL

(* Mutant of EndLike: the terminator is not put back. *)
EndLikeTrimmed(s, t) == TrimRight(s)

(* bytes.TrimRight(s, "\n"), and "\n" again where t ends in one. *)
EndLike(s, t) == IF EndsInNL(t) THEN Append(TrimRight(s), NL) ELSE TrimRight(s)

JoinWithSeparator(a, b, gap) ==
  LET x == TrimRight(a)
      y == TrimLeft(b)
  IN  IF Len(x) = 0 THEN y
      ELSE IF Len(y) = 0 THEN x
      ELSE x \o Newlines(gap) \o y

(* Mutant of WiderGap: the worktree's gap, with no minimum. *)
WiderGapBare(member, gap) == gap

WiderGap(member, gap) ==
  LET minimum == IF member THEN 1 ELSE 2
  IN  IF gap > minimum THEN gap ELSE minimum

-----------------------------------------------------------------------------
(* The three splices. *)

SpliceReplace(t, o) == Take(t, o.start) \o o.text \o Drop(t, o.end)

SpliceExcise(t, o) ==
  LET rest   == TrimLeft(Drop(t, o.end))
      prefix == Take(t, o.start)
  IN  IF Len(rest) # 0 THEN prefix \o rest
      ELSE IF Len(TrimRight(prefix)) = 0 THEN <<>>
      ELSE EndLike(prefix, t)

SpliceInsert(t, o) ==
  LET start == IF o.start < Len(t) THEN o.start ELSE Len(t)
      rest  == Drop(t, start)
      mid   == JoinWithSeparator(Take(t, start), o.text,
                                 WiderGap(o.member, o.lead))
  IN  IF Len(TrimLeft(rest)) = 0 THEN EndLike(mid, t)
      ELSE JoinWithSeparator(mid, rest, WiderGap(o.member, o.trail))

-----------------------------------------------------------------------------
(* coalesceOverlaps: the widest edit first, ties in the order they came. *)

Span(o) == IF o.kind = "insert" THEN 0 ELSE o.end - o.start

RanksBefore(i, j) == \/ Span(ops[i]) > Span(ops[j])
                     \/ Span(ops[i]) = Span(ops[j]) /\ i < j

Overlap(o, k) == o.start < k.end /\ k.start < o.end

(* k's replacement text already holds what o inserts. *)
CarriedBy(o, k) == /\ k.kind = "replace"
                   /\ o.wend > o.wstart
                   /\ o.wstart >= k.wstart
                   /\ o.wend <= k.wend

(* o and k insert the same declaration. *)
SameInsertion(o, k) == /\ o.wend > o.wstart
                       /\ o.wstart = k.wstart
                       /\ o.wend = k.wend

(* Mutant of Swallows: only a replacement covers what overlaps it. *)
SwallowsIfReplaced(k, o) ==
  IF k.kind = "insert" THEN o.kind = "insert" /\ SameInsertion(o, k)
  ELSE IF o.kind = "insert" THEN CarriedBy(o, k)
  ELSE k.kind = "replace" /\ Overlap(o, k)

(* Mutant of Swallows: what is inserted inside a range goes, not what its   *)
(* text holds.                                                             *)
SwallowsByPlace(k, o) ==
  IF k.kind = "insert" THEN o.kind = "insert" /\ SameInsertion(o, k)
  ELSE IF o.kind = "insert" THEN k.start < o.start /\ o.start < k.end
  ELSE Overlap(o, k)

Swallows(k, o) ==
  IF k.kind = "insert" THEN o.kind = "insert" /\ SameInsertion(o, k)
  ELSE IF o.kind = "insert" THEN CarriedBy(o, k)
  ELSE Overlap(o, k)

SwallowedBy(ks, o) == \E j \in DOMAIN ks : Swallows(ks[j], o)

Coalesce(i) ==
  /\ pc = "coalesce"
  /\ i \in todo
  /\ \A j \in todo \ {i} : RanksBefore(i, j)
  /\ kept' = IF SwallowedBy(kept, ops[i]) THEN kept ELSE Append(kept, ops[i])
  /\ todo' = todo \ {i}
  /\ UNCHANGED <<head, ops, pc, pending, out>>

Coalesced ==
  /\ pc = "coalesce"
  /\ todo = {}
  /\ pc' = "merge"
  /\ todo' = {i \in DOMAIN kept : kept[i].kind = "insert"}
  /\ pending' = {kept[i] : i \in {j \in DOMAIN kept : kept[j].kind # "insert"}}
  /\ UNCHANGED <<head, ops, kept, out>>

-----------------------------------------------------------------------------
(* mergeInsertTies: insertions at one offset become one, in the order of   *)
(* the worktree (seq), ties in the order they were kept.                   *)

(* Mutant of MergesBefore: in the order they were kept. *)
MergesAsKept(i, j) == i < j

MergesBefore(i, j) == \/ kept[i].seq < kept[j].seq
                      \/ kept[i].seq = kept[j].seq /\ i < j

Tied(o) == {p \in pending : p.kind = "insert" /\ p.start = o.start}

FirstOfGroup(o) == [o EXCEPT !.end = 0, !.seq = 0, !.wstart = 0, !.wend = 0]

MergedOnto(p, o) ==
  [p EXCEPT !.text = JoinWithSeparator(p.text, o.text, WiderGap(p.member, o.lead)),
            !.trail = o.trail]

MergeTies(i) ==
  /\ pc = "merge"
  /\ i \in todo
  /\ \A j \in todo \ {i} : MergesBefore(i, j)
  /\ IF Tied(kept[i]) = {}
       THEN pending' = pending \cup {FirstOfGroup(kept[i])}
       ELSE pending' = (pending \ Tied(kept[i]))
                         \cup {MergedOnto(p, kept[i]) : p \in Tied(kept[i])}
  /\ todo' = todo \ {i}
  /\ UNCHANGED <<head, ops, pc, kept, out>>

Merged ==
  /\ pc = "merge"
  /\ todo = {}
  /\ pc' = "splice"
  /\ out' = head
  /\ UNCHANGED <<head, ops, todo, kept, pending>>

-----------------------------------------------------------------------------
(* The splice pass: the greatest offset first; at one offset the range     *)
(* goes before the insertion, which was appended last before the stable    *)
(* sort.  Slicing past the end of the buffer is a run-time panic.          *)

(* Mutant of SplicesBefore: the least offset first. *)
SplicesAscending(p, q) ==
  \/ p.start < q.start
  \/ p.start = q.start /\ p.kind # "insert" /\ q.kind = "insert"

(* Mutant of SplicesBefore: at one offset the insertion goes first. *)
SplicesInsertionsFirst(p, q) ==
  \/ p.start > q.start
  \/ p.start = q.start /\ p.kind = "insert" /\ q.kind # "insert"

SplicesBefore(p, q) ==
  \/ p.start > q.start
  \/ p.start = q.start /\ p.kind # "insert" /\ q.kind = "insert"

Foremost(p) == \A q \in pending \ {p} : SplicesBefore(p, q)

Fits(p) == p.kind # "insert" => p.end <= Len(out)

Spliced(t, p) == IF p.kind = "replace" THEN SpliceReplace(t, p)
                 ELSE IF p.kind = "delete" THEN SpliceExcise(t, p)
                 ELSE SpliceInsert(t, p)

Splice(p) ==
  /\ pc = "splice"
  /\ p \in pending
  /\ Foremost(p)
  /\ Fits(p)
  /\ out' = Spliced(out, p)
  /\ pending' = pending \ {p}
  /\ UNCHANGED <<head, ops, pc, todo, kept>>

Panic(p) ==
  /\ pc = "splice"
  /\ p \in pending
  /\ Foremost(p)
  /\ ~Fits(p)
  /\ pc' = "panic"
  /\ UNCHANGED <<head, ops, todo, kept, pending, out>>

AllSpliced ==
  /\ pc = "splice"
  /\ pending = {}
  /\ pc' = "spliced"
  /\ UNCHANGED <<head, ops, todo, kept, pending, out>>

ApplyEdits ==
  \/ \E i \in todo : Coalesce(i) \/ MergeTies(i)
  \/ Coalesced
  \/ Merged
  \/ \E p \in pending : Splice(p) \/ Panic(p)
  \/ AllSpliced

-----------------------------------------------------------------------------
(* applyEdits by itself, on any text and any edits of it: what its caller  *)
(* (PlanStage, stage.go) may do before and after it.                       *)

SpliceInit ==
  /\ head \in Seq(Tokens)
  /\ ops = <<>>
  /\ pc = "plan"
  /\ todo = {}
  /\ kept = <<>>
  /\ pending = {}
  /\ out = <<>>

Collect ==
  /\ pc = "plan"
  /\ ops' \in Seq(OpOf(head))
  /\ UNCHANGED <<head, pc, todo, kept, pending, out>>

Abandon ==
  /\ pc = "plan"
  /\ pc' = "refused"
  /\ UNCHANGED <<head, ops, todo, kept, pending, out>>

Begin ==
  /\ pc = "plan"
  /\ pc' = "coalesce"
  /\ ops' \in Seq(OpOf(head))
  /\ todo' = DOMAIN ops'
  /\ UNCHANGED <<head, kept, pending, out>>

(* The terminator a new file may still lack is all its caller adds. *)
Deliver ==
  /\ pc = "spliced"
  /\ pc' = "done"
  /\ out' \in {out, Append(out, NL)}
  /\ UNCHANGED <<head, ops, todo, kept, pending>>

SpliceNext == Collect \/ Abandon \/ Begin \/ ApplyEdits \/ Deliver

(* Also what the planner of BlobSynth implements: every anchor it          *)
(* classifies becomes an edit within HEAD's text, an insertion or a range  *)
(* that is not empty (classify.go:31-131).                                 *)
SpliceSpec == SpliceInit /\ [][SpliceNext]_spliceVars

-----------------------------------------------------------------------------
(* Properties. *)

SpliceTypeOK ==
  /\ head \in Seq(Tokens)
  /\ ops \in Seq(OpOf(head))
  /\ todo \subseteq Nat
  /\ kept \in Seq(OpOf(head))
  /\ pending \subseteq OpOf(head)
  /\ out \in Seq(Tokens)

(* No two edits that survived coalescing address the same bytes of HEAD:   *)
(* the purpose of coalesceOverlaps (synth.go:110-126), without which the   *)
(* second splice of two nested anchors would land mid-token.               *)
KeptDisjoint ==
  \A i, j \in DOMAIN kept :
    i # j /\ kept[i].kind # "insert" /\ kept[j].kind # "insert"
      => kept[i].end <= kept[j].start \/ kept[j].end <= kept[i].start

(* No declaration's text is kept twice: an insertion goes when a surviving  *)
(* replacement already holds it, or another surviving one is of the same   *)
(* declaration, whichever anchor was named first (synth.go:127-201).       *)
KeptOnce ==
  \A i, j \in DOMAIN kept :
    i # j /\ kept[i].kind = "insert" =>
      /\ ~CarriedBy(kept[i], kept[j])
      /\ kept[j].kind = "insert" => ~SameInsertion(kept[i], kept[j])

(* What a grammar without sections gives applyEdits: no surviving          *)
(* insertion point lies inside a surviving range, and no surviving range   *)
(* ends in a newline.                                                      *)
KeptTidy ==
  \A i \in DOMAIN kept :
    kept[i].kind # "insert" =>
      /\ head[kept[i].end] # NL
      /\ \A j \in DOMAIN kept :
           kept[j].kind = "insert" =>
             kept[j].start <= kept[i].start \/ kept[i].end <= kept[j].start

(* A replacement's text ends where its declaration does, so not in a       *)
(* newline; and nothing is inserted before a deletion that only newlines   *)
(* precede (an insertion goes before a declaration both texts have).       *)
KeptGrounded ==
  \A i \in DOMAIN kept :
    /\ kept[i].kind = "replace" => kept[i].text # <<>> /\ ~EndsInNL(kept[i].text)
    /\ kept[i].kind = "delete" =>
         \A j \in DOMAIN kept :
           kept[j].kind = "insert" /\ kept[j].start <= kept[i].start =>
             \E n \in 1..kept[i].start : head[n] # NL

(* While the splice pass runs over tidy edits, everything up to the end of *)
(* each range still to be spliced is HEAD's own text, whatever the later   *)
(* splices trimmed and padded around it: the descending splice pass of     *)
(* applyEdits (synth.go:92-108), whose order is there "so an earlier       *)
(* splice cannot invalidate a later offset" (synth.go:8-10).               *)
PrefixIntact ==
  pc = "splice" /\ KeptTidy =>
    \A p \in pending : p.kind # "insert" =>
      p.end <= Len(out) /\ \A i \in 1..p.end : out[i] = head[i]

(* What applyEdits returns ends in a newline if and only if HEAD's text    *)
(* does, unless nothing is left of it: "EOF newline inherited, never       *)
(* normalized" (spliceExcise and spliceInsert, synth.go:253-320).          *)
EndInherited ==
  pc = "spliced" /\ KeptTidy /\ KeptGrounded =>
    out = <<>> \/ (EndsInNL(out) <=> EndsInNL(head))

TokenCount(s, x) == Cardinality({i \in DOMAIN s : s[i] = x})

(* What HEAD has where p is spliced, and what p puts there.                *)
Removed(p) == IF p.kind = "insert" THEN <<>> ELSE SubSeq(head, p.start + 1, p.end)
Added(p)   == IF p.kind = "delete" THEN <<>> ELSE p.text

(* A splice removes from the text the tokens HEAD has in the range of its  *)
(* edit, adds the edit's own and touches nothing else but newlines,        *)
(* whatever the splices before it moved (synth.go:260-320); and what is    *)
(* merged holds both texts (mergeInsertTies, synth.go:217-251).            *)
TokensAccounted ==
  [][/\ \A p \in pending : Splice(p) /\ KeptTidy =>
          \A x \in Tokens \ {NL} :
            TokenCount(out', x) = TokenCount(out, x) - TokenCount(Removed(p), x)
                                    + TokenCount(Added(p), x)
     /\ \A i \in todo : MergeTies(i) =>
          \A q \in Tied(kept[i]) : \E p \in pending' : \A x \in Tokens \ {NL} :
            TokenCount(p.text, x) = TokenCount(q.text, x) + TokenCount(kept[i].text, x)
    ]_spliceVars

(* Two insertions at different offsets have a token of HEAD between them:  *)
(* each goes before or after a declaration, or on a container's last line. *)
KeptSpaced ==
  \A i, j \in DOMAIN kept :
    kept[i].kind = "insert" /\ kept[j].kind = "insert" /\ kept[i].start < kept[j].start =>
      \E n \in (kept[i].start + 1)..kept[j].start : head[n] # NL

(* The kept edit i comes before j: by offset, at one offset the insertions *)
(* in the worktree's order and then the range.                             *)
Ahead(i, j) ==
  \/ kept[i].start < kept[j].start
  \/ /\ kept[i].start = kept[j].start
     /\ kept[i].kind = "insert"
     /\ \/ kept[j].kind # "insert"
        \/ kept[i].seq < kept[j].seq
        \/ kept[i].seq = kept[j].seq /\ i < j

(* Where HEAD has x up to offset n, outside the ranges of D; and where the *)
(* texts of the edits E have it.                                           *)
Remaining(D, n, x) ==
  {l \in 1..n : /\ head[l] = x
                /\ \A i \in D : kept[i].kind # "insert" =>
                     l <= kept[i].start \/ kept[i].end < l}
Brings(E, x) ==
  UNION {{i} \X {l \in DOMAIN Added(kept[i]) : Added(kept[i])[l] = x} : i \in E}

Solids == Tokens \ {NL}

(* How often each token occurs in HEAD up to n without the ranges of D, in *)
(* the texts of E and in t; and how often in s up to each place it can be  *)
(* cut at.                                                                 *)
Ledger(D, n, E, t) ==
  [x \in Solids |-> Cardinality(Remaining(D, n, x)) + Cardinality(Brings(E, x))
                      + TokenCount(t, x)]

Cuts(s) == {[x \in Solids |-> TokenCount(Take(s, m), x)] : m \in 0..Len(s)}

(* s is HEAD's text with the edits D carried out: it holds what HEAD has    *)
(* outside their ranges and what they bring, each token as often; it can   *)
(* be cut for any offset of HEAD so that what comes before in HEAD, and    *)
(* the texts of the edits that start before, stand before the cut and      *)
(* nothing else; and for any place in the text of an edit so that, besides *)
(* HEAD up to its start, the texts of the edits ahead of it and its own up *)
(* to there do.                                                            *)
EditedBy(s, D) ==
  LET cuts == Cuts(s) IN
  /\ \A x \in Solids : TokenCount(s, x) = Ledger(D, Len(head), D, <<>>)[x]
  /\ \A n \in 0..Len(head) : Ledger(D, n, {i \in D : kept[i].start < n}, <<>>) \in cuts
  /\ \A j \in D : \A k \in 0..Len(Added(kept[j])) :
       Ledger(D, kept[j].start, {i \in D : Ahead(i, j)}, Take(Added(kept[j]), k)) \in cuts

(* What applyEdits returns is HEAD's text with every edit it kept carried  *)
(* out where HEAD has its offsets, whatever was trimmed, padded and merged *)
(* on the way (synth.go:92-108).                                           *)
AsEdited ==
  pc = "spliced" /\ KeptTidy /\ KeptSpaced => EditedBy(out, DOMAIN kept)

(* applyEdits never slices past the end of its buffer, tidy edits or not   *)
(* (synth.go:8-10 and 92-108).                                             *)
NeverPanics == pc # "panic"
=============================================================================
