------------------------------ MODULE BlobSynth -------------------------------
(***************************************************************************)
(* Blob synthesis for one file: the anchors a caller names, in any order,  *)
(* are classified against HEAD and the worktree, each becomes an edit of   *)
(* HEAD's text (src/internal/synth/classify.go, stage.go), and applyEdits  *)
(* (EditSplice) builds the blob that is staged.                            *)
(*                                                                         *)
(* A file has top-level declarations, one of them a container with         *)
(* members.  Style is the shape a language gives it: "braces" (Go,         *)
(* TypeScript, Rust: a closing delimiter, members flush), "indent"         *)
(* (Python: no delimiter, members apart) and "sections" (Markdown: an      *)
(* extent runs to the next heading and owns the blank lines before it).    *)
(* Every declaration in both texts differs between them.                   *)
(***************************************************************************)
EXTENDS EditSplice, SequencesExt, FiniteSetsExt

CONSTANTS Container,   \* the declaration that has members
          Members,     \* its members
          Symbols,     \* all declarations
          Files,       \* the files considered: records, see FileType
          MaxTargets   \* bound: how many anchors a caller names

ASSUME SymbolsAssumption ==
  /\ IsFiniteSet(Symbols)
  /\ Members \subseteq Symbols /\ Container \in Symbols \ Members

VARIABLES
  file,    \* what HEAD and the worktree hold
  named    \* the anchors the caller named

vars == <<file, named, spliceVars>>

FileType ==
  [style: {"braces", "indent", "sections"},
   order: [1..Cardinality(Symbols) -> Symbols],  \* of declarations, in both texts
   inHead: SUBSET Symbols, inWork: SUBSET Symbols,
   headExists: BOOLEAN, preface: BOOLEAN,
   gapHead: Nat, gapWork: Nat,    \* newlines between top-level declarations
   eofHead: 0..1, eofWork: 0..1,  \* newlines at the end of the file
   refs: SUBSET (Symbols \X Symbols)]  \* <<x, y>>: x's worktree text names y

-----------------------------------------------------------------------------
(* Rendering a file: what tree-sitter would parse. *)

Tab        == [k |-> "tab"]
Preface    == [k |-> "preface"]          \* the package clause, front matter
Opening(d) == [k |-> "open", d |-> d]
Closing    == [k |-> "close"]
Text(d, v) == [k |-> "text", d |-> d, v |-> v]   \* v is "old" or "new"

IsMember(d) == d \in Members

DeclOrder(f, S) == SelectSeq(f.order, LAMBDA d : d \in S)

Lead(f, ds, i, gap) ==
  IF i = 1 /\ ~f.preface THEN <<>>
  ELSE IF ~IsMember(ds[i]) \/ f.style = "sections" THEN Newlines(gap)
  ELSE IF f.style = "indent" /\ IsMember(ds[i - 1]) THEN <<NL, NL, Tab>>
  ELSE <<NL, Tab>>

(* The token that stands for d. *)
Own(d, v) == IF d = Container THEN Opening(d) ELSE Text(d, v)

ClosesAfter(f, ds, i) ==
  /\ f.style = "braces"
  /\ ds[i] = Container \/ IsMember(ds[i])
  /\ i = Len(ds) \/ ~IsMember(ds[i + 1])

Render(f, S, v, gap, eof) ==
  LET ds == DeclOrder(f, S)
      piece(i) == Lead(f, ds, i, gap) \o <<Own(ds[i], v)>>
                    \o (IF ClosesAfter(f, ds, i) THEN <<NL, Closing>> ELSE <<>>)
  IN  (IF f.preface THEN <<Preface>> ELSE <<>>)
        \o FlattenSeq([i \in DOMAIN ds |-> piece(i)])
        \o Newlines(eof)

HeadText(f) == IF f.headExists
                 THEN Render(f, f.inHead, "old", f.gapHead, f.eofHead) ELSE <<>>
WorkText(f) == Render(f, f.inWork, "new", f.gapWork, f.eofWork)

-----------------------------------------------------------------------------
(* The extent of a declaration d that the text src declares, S being all   *)
(* it declares: offsets [start, end).                                      *)

PlaceOf(src, d) == CHOOSE i \in DOMAIN src :
                     src[i].k \in {"open", "text"} /\ src[i].d = d

IndexIn(ds, d) == CHOOSE i \in DOMAIN ds : ds[i] = d

EndOf(f, S, src, d) ==
  LET ds == DeclOrder(f, S)
      inside(j) == d = Container /\ IsMember(ds[j])
      after == {j \in DOMAIN ds : j > IndexIn(ds, d) /\ ~inside(j)}
      last  == Max({j \in DOMAIN ds : j = IndexIn(ds, d) \/ inside(j)})
  IN  IF f.style = "sections"
        THEN IF after = {} THEN Len(src) ELSE PlaceOf(src, ds[Min(after)]) - 1
      ELSE IF f.style = "braces" /\ d = Container
        THEN CHOOSE i \in DOMAIN src : src[i] = Closing
      ELSE PlaceOf(src, ds[last])

Extent(f, S, src, d) == [start |-> PlaceOf(src, d) - 1,
                         end   |-> EndOf(f, S, src, d)]

work == WorkText(file)
HeadExtent(d) == Extent(file, file.inHead, head, d)
WorkExtent(d) == Extent(file, file.inWork, work, d)

InExtent(x, y) == y.start <= x.start /\ x.end <= y.end
-----------------------------------------------------------------------------
(* Lines and gaps around an offset of src. *)

LineStartOf(src, off) == Max({0} \cup {i \in 1..off : src[i] = NL})

(* The start of the line, when nothing but indentation precedes off on it. *)
LineStart(src, off) ==
  LET start == LineStartOf(src, off)
  IN  IF \A i \in (start + 1)..off : src[i] = Tab THEN start ELSE off

LeadingGap(src, start) == start - TrimmedLen(Take(src, start))
TrailingGap(src, end)  == BlankLen(Drop(src, end))

InsertionText(src, x) == SubSeq(src, LineStart(src, x.start) + 1, x.end)

(* Where a first member goes: the line of the closing delimiter, but not   *)
(* before the container. *)
ContainerBodyEnd(src, x) ==
  LET solid == {i \in (x.start + 1)..x.end : src[i] \notin {NL, Tab}}
  IN  IF src[Max(solid)] = Closing
        THEN Max({x.start, LineStartOf(src, Max(solid) - 1)})
        ELSE x.end

-----------------------------------------------------------------------------
(* What the parser and the layout give of every file. *)

(* A parsed text: an extent lies in it, is not empty and begins with its   *)
(* declaration, not in a blank.                                            *)
Parsed(f, S, src) ==
  /\ src \in Seq(Tokens)
  /\ \A d \in S : LET x == Extent(f, S, src, d)
                  IN  /\ x.end \in 1..Len(src) /\ x.start \in 0..(x.end - 1)
                      /\ src[x.start + 1] \notin {NL, Tab}

(* Without sections an extent ends with its declaration, too; one begins   *)
(* on a line after the end of the one before, or on a line of its          *)
(* container's body.  The delimiter of a container is on a later line than *)
(* its start: a container on one line, such as type T struct{}, is outside.*)
SetOut(f, S, src) ==
  LET listed == {i \in DOMAIN f.order : f.order[i] \in S}
      x      == [i \in listed |-> Extent(f, S, src, f.order[i])]
  IN  /\ \A i \in listed : src[x[i].end] \notin {NL, Tab}
      /\ \A i \in listed : f.order[i] = Container =>
           ContainerBodyEnd(src, x[i]) \in (x[i].start + 1)..x[i].end
      /\ \A i, j \in listed : i < j =>
           IF f.order[i] = Container /\ IsMember(f.order[j])
             THEN /\ x[i].start < LineStartOf(src, x[j].start)
                  /\ x[j].end <= ContainerBodyEnd(src, x[i])
             ELSE x[i].end <= LineStartOf(src, x[j].start)

(* The order of the declarations: each once, a container before its        *)
(* members.                                                                *)
Ordered(order) ==
  /\ \A d \in Symbols : \E i \in DOMAIN order : order[i] = d
  /\ \A i, j \in DOMAIN order :
       /\ order[i] = order[j] => i = j
       /\ order[i] = Container /\ IsMember(order[j]) => i < j

(* Besides blanks a text holds the preface, with which it begins, the token *)
(* of each declaration, with which that begins, and the delimiter that ends *)
(* a container: each once.                                                  *)
Labelled(f, S, v, src) ==
  \A i \in DOMAIN src :
    /\ src[i] \in {NL, Tab, Preface, Closing} \cup {Own(d, v) : d \in S}
    /\ src[i] = Preface <=> f.preface /\ i = 1
    /\ src[i] = Closing <=> /\ f.style = "braces" /\ Container \in S
                           /\ i = Extent(f, S, src, Container).end
    /\ \A d \in S : src[i] = Own(d, v) <=> i = Extent(f, S, src, d).start + 1

(* What may stand beside what: lines do not run together, and indentation  *)
(* is at the start of its line.                                            *)
Follows(x, y) == /\ x # NL /\ y # NL => x = Tab /\ y # Tab
                 /\ y = Tab => x = NL

Lined(s) == \A i \in 1..(Len(s) - 1) : Follows(s[i], s[i + 1])

(* Also, a member has its container around it, and nothing is read of a     *)
(* text HEAD does not have.                                                 *)
ASSUME FilesAssumption ==
  /\ NL \notin {Tab, Preface}
  /\ \A f \in Files :
    /\ f \in FileType
    /\ Ordered(f.order)
    /\ Parsed(f, f.inHead, HeadText(f)) /\ Parsed(f, f.inWork, WorkText(f))
    /\ Labelled(f, f.inHead, "old", HeadText(f))
    /\ Labelled(f, f.inWork, "new", WorkText(f))
    /\ Lined(HeadText(f)) /\ Lined(WorkText(f))
    /\ f.style # "sections" =>
         SetOut(f, f.inHead, HeadText(f)) /\ SetOut(f, f.inWork, WorkText(f))
    /\ \A S \in {f.inHead, f.inWork} : S \cap Members # {} => Container \in S
    /\ f.preface => WorkText(f) # <<>> /\ (f.headExists => HeadText(f) # <<>>)
    /\ ~f.headExists => f.inHead = {}

-----------------------------------------------------------------------------
(* classify: the edit an anchor becomes. *)

Replacement(d) ==
  [kind |-> "replace", start |-> HeadExtent(d).start, end |-> HeadExtent(d).end,
   text |-> SubSeq(work, WorkExtent(d).start + 1, WorkExtent(d).end),
   seq |-> 0, wstart |-> WorkExtent(d).start, wend |-> WorkExtent(d).end,
   member |-> FALSE, lead |-> 0, trail |-> 0]

(* Mutant of Deletion: an inclusive end. *)
DeletionInclusive(d) ==
  [kind |-> "delete", start |-> LineStart(head, HeadExtent(d).start),
   end |-> HeadExtent(d).end + 1, text |-> <<>>, seq |-> 0, wstart |-> 0,
   wend |-> 0, member |-> FALSE, lead |-> 0, trail |-> 0]

Deletion(d) ==
  [kind |-> "delete", start |-> LineStart(head, HeadExtent(d).start),
   end |-> HeadExtent(d).end, text |-> <<>>, seq |-> 0, wstart |-> 0,
   wend |-> 0, member |-> FALSE, lead |-> 0, trail |-> 0]

(* Mutant of Escalated: only a new file escalates. *)
EscalatedInNewFile(d) == IsMember(d) /\ ~file.headExists

(* escalateToContainer: a member whose container HEAD lacks brings it all. *)
Escalated(d) == IsMember(d) /\ ~(file.headExists /\ Container \in file.inHead)

Widened(d) == IF Escalated(d) THEN Container ELSE d

(* insertionPoint: after the nearest declaration before d, in the          *)
(* worktree's order, that HEAD has; else before the nearest after it.      *)
InsertionPoint(d) ==
  LET ds      == file.order
      known   == {i \in DOMAIN ds : ds[i] \in file.inWork \cap file.inHead}
      before  == {i \in known : i < IndexIn(ds, d)}
      after   == {i \in known : i > IndexIn(ds, d)}
      sib     == HeadExtent(ds[Max(before)])
      next    == HeadExtent(ds[Min(after)])
      encloses == /\ InExtent(WorkExtent(d), WorkExtent(ds[Max(before)]))
                  /\ WorkExtent(d) # WorkExtent(ds[Max(before)])
  IN  IF ~file.headExists THEN 0
      ELSE IF before # {} /\ encloses
        THEN IF after # {} /\ InExtent(next, sib)
               THEN LineStartOf(head, next.start)
               ELSE ContainerBodyEnd(head, sib)
      ELSE IF before # {} THEN sib.end
      ELSE IF after # {} THEN next.start
      ELSE Len(head)

(* Mutant of MembersSitFlush: members are set apart like declarations. *)
MembersSetApart == FALSE

MembersSitFlush == file.style = "braces"

Insertion(d) ==
  LET x == WorkExtent(Widened(d))
  IN  [kind |-> "insert", start |-> InsertionPoint(Widened(d)), end |-> 0,
       text |-> InsertionText(work, x), seq |-> x.start,
       wstart |-> x.start, wend |-> x.end,
       member |-> IsMember(d) /\ ~Escalated(d) /\ MembersSitFlush,
       lead |-> LeadingGap(work, x.start), trail |-> TrailingGap(work, x.end)]

OnlyHead(d) == file.headExists /\ d \in file.inHead \ file.inWork
OnlyWork(d) == d \in file.inWork /\ ~(file.headExists /\ d \in file.inHead)

Classified(d) == IF OnlyHead(d) THEN Deletion(d)
                 ELSE IF OnlyWork(d) THEN Insertion(d)
                 ELSE Replacement(d)

-----------------------------------------------------------------------------
(* finishFile: the new top-level declarations the edits' text refers to,   *)
(* and the preface of a new file.                                          *)

RefersTo(o, y) ==
  \E x \in file.inWork :
    /\ <<x, y>> \in file.refs
    /\ o.wend > o.wstart
    /\ InExtent(WorkExtent(x), [start |-> o.wstart, end |-> o.wend])

Wanted(o, y) == /\ RefersTo(o, y)
                /\ ~IsMember(y)
                /\ ~InExtent(WorkExtent(y), [start |-> o.wstart, end |-> o.wend])
                /\ OnlyWork(y)

(* addReferencedSiblings.  They are insertions: mergeInsertTies orders them *)
(* by the worktree, whatever order the edits mention them in.               *)
ReferencedSiblings ==
  {y \in file.inWork \ named : \E i \in DOMAIN ops : Wanted(ops[i], y)}

(* ExtendThroughOwnedSeparator: gofmt's blank line belongs to the preface. *)
PrefaceEnd ==
  IF file.style # "braces" THEN 1
  ELSE 1 + BlankLen(Drop(work, 1))

PrefaceInsertion ==
  [kind |-> "insert", start |-> 0, end |-> 0, text |-> Take(work, PrefaceEnd),
   seq |-> 0, wstart |-> 0, wend |-> 0, member |-> FALSE, lead |-> 0,
   trail |-> 0]

Preamble == IF file.headExists \/ ~file.preface THEN <<>>
            ELSE <<PrefaceInsertion>>

-----------------------------------------------------------------------------
(* Actions. *)

Init ==
  /\ file \in Files
  /\ named = {}
  /\ head = HeadText(file)
  /\ ops = <<>>
  /\ pc = "plan"
  /\ todo = {}
  /\ kept = <<>>
  /\ pending = {}
  /\ out = <<>>

(* planSymbol: the caller's next anchor. *)
PlanSymbol(d) ==
  /\ pc = "plan"
  /\ Len(ops) < MaxTargets
  /\ OnlyHead(d) \/ d \in file.inWork
  /\ named' = named \cup {d}
  /\ ops' = Append(ops, Classified(d))
  /\ UNCHANGED <<file, head, pc, todo, kept, pending, out>>

(* The anchor is in neither text, or a language server disagrees with an   *)
(* extent (crossCheckPending): PlanStage fails and nothing is staged.      *)
Refuse ==
  /\ pc = "plan"
  /\ pc' = "refused"
  /\ UNCHANGED <<file, named, head, ops, todo, kept, pending, out>>

FinishFile ==
  /\ pc = "plan"
  /\ ops # <<>>
  /\ \E siblings \in SetToSeqs(ReferencedSiblings) :
       ops' = ops \o [i \in DOMAIN siblings |-> Classified(siblings[i])]
                  \o Preamble
  /\ pc' = "coalesce"
  /\ todo' = DOMAIN ops'
  /\ UNCHANGED <<file, named, head, kept, pending, out>>

Apply == ApplyEdits /\ UNCHANGED <<file, named>>

(* inheritEOF: a new file ends as the worktree's does. *)
InheritEOF ==
  /\ pc = "spliced"
  /\ pc' = "done"
  /\ out' = IF /\ ~file.headExists
               /\ Len(out) > 0
               /\ EndsInNL(work)
               /\ ~EndsInNL(out)
              THEN Append(out, NL) ELSE out
  /\ UNCHANGED <<file, named, head, ops, todo, kept, pending>>

Finished == pc \in {"done", "refused", "panic"} /\ UNCHANGED vars

Next ==
  \/ \E d \in Symbols : PlanSymbol(d)
  \/ Refuse
  \/ FinishFile
  \/ Apply
  \/ InheritEOF
  \/ Finished

Spec == Init /\ [][Next]_vars

-----------------------------------------------------------------------------
(* What the staged file must declare, read off the forest of declarations  *)
(* and not off any text.                                                   *)

(* What the caller's anchors bring along: a container for a member HEAD    *)
(* has no place for, and the new declarations their text names.            *)
Asked == {Widened(d) : d \in named \cap {x \in Symbols : OnlyWork(x)}}
           \cup {d \in named : ~OnlyWork(d)}

Carries(d) == IF d = Container THEN {d} \cup (Members \cap file.inWork) ELSE {d}

Brought == {y \in Symbols : /\ OnlyWork(y) /\ ~IsMember(y)
                            /\ \E d \in Asked : \E x \in Carries(d) :
                                 x \in file.inWork /\ <<x, y>> \in file.refs}

Taken == Asked \cup Brought

(* A member goes the way of its container when that is taken whole. *)
Decider(d) == IF IsMember(d) /\ Container \in Taken THEN Container ELSE d

Survives(d) ==
  IF Decider(d) \in Taken THEN d \in file.inWork
  ELSE /\ file.headExists
       /\ d \in file.inHead

TokenOf(d) == Own(d, IF Decider(d) \in Taken THEN "new" ELSE "old")

Survivors == {d \in Symbols : Survives(d)}

Declared ==
  {TokenOf(d) : d \in Survivors}
    \cup (IF file.style = "braces" /\ Survives(Container) THEN {Closing} ELSE {})
    \cup (IF file.preface THEN {Preface} ELSE {})

Place(t) == CHOOSE i \in DOMAIN out : out[i] = t

(* x stands before y in a text that holds both. *)
Precedes(x, y) ==
  /\ IndexIn(file.order, x) < IndexIn(file.order, y)
  /\ {x, y} \subseteq file.inHead \/ {x, y} \subseteq file.inWork

(* The staged text declares exactly what it should, each once, ...         *)
RightContent ==
  /\ ToSet(out) \subseteq Declared \cup {NL, Tab}
  /\ \A x \in Declared : TokenCount(out, x) = 1

(* ... in the order HEAD or the worktree has them, ...                     *)
RightOrder ==
  /\ file.preface => Place(Preface) = 1
  /\ \A x, y \in Survivors : Precedes(x, y) => Place(TokenOf(x)) < Place(TokenOf(y))

(* ... and nothing that is not the container's between its lines.          *)
RightNesting ==
  Survives(Container) =>
    LET inner == {TokenOf(d) : d \in Survivors \cap Members}
                   \cup (Declared \cap {Closing})
    IN  \A d \in Survivors \ ({Container} \cup Members), t \in inner :
          Place(TokenOf(d)) < Place(Opening(Container)) <=> Place(TokenOf(d)) < Place(t)

(* A new top-level declaration is spliced between the members of the       *)
(* container HEAD has.                                                     *)
LandsInside(d) ==
  /\ OnlyWork(d) /\ ~IsMember(d)
  /\ file.headExists /\ Container \in file.inHead
  /\ HeadExtent(Container).start < InsertionPoint(d)
  /\ InsertionPoint(d) < HeadExtent(Container).end

Misplaced == \E d \in Taken : LandsInside(d)

(* The blob is the one "that would exist if only the named symbols had     *)
(* changed" (synth.go:1-2): each declaration once, the named ones as the   *)
(* worktree has them and the others as HEAD does, in order, members and    *)
(* delimiter inside their container.                                       *)
AsNamed == RightContent /\ RightOrder /\ RightNesting

(* That, of every file whose new top-level declarations insertionPoint     *)
(* (classify.go:376-445) places outside the container: whatever anchors    *)
(* are named, in whatever order, overlapping, repeated or nested.          *)
StagedAsNamed == pc = "done" /\ ~Misplaced => AsNamed

(* That, of every file: what the package comment (synth.go:1-2) promises.  *)
SynthesizedAsNamed == pc = "done" => AsNamed

(* The splices (synth.go:260-320) never run two lines together nor leave   *)
(* an indentation that is not at the start of a line.  A last section      *)
(* without a final newline is left out: its text carries no separator.     *)
LinesApart ==
  /\ pc = "done" /\ ~Misplaced
  /\ file.style = "sections" => file.eofWork = 1
  => Lined(out)

(* The staged file ends in a newline if and only if HEAD's does, or, for a *)
(* new file, the worktree's, whatever was deleted or inserted at its end   *)
(* (synth.go:253-320, inheritEOF stage.go:840-849): "EOF newline           *)
(* inherited, never normalized".  Sections own the newlines at their end.  *)
EndsAsBefore ==
  /\ pc = "done"
  /\ Len(out) > 0
  /\ file.style # "sections"
  => (EndsInNL(out) <=> EndsInNL(IF file.headExists THEN head ELSE work))

(* Of every grammar without sections the planner makes the edits applyEdits *)
(* can splice: no range ends in a newline or holds an insertion point,     *)
(* nothing is inserted before a deletion that begins the file, and only    *)
(* what goes to one place is inserted there, not to two ends of a blank    *)
(* (insertionPoint, classify.go:376-445).                                  *)
EditsTidy ==
  /\ pc \in {"merge", "splice", "spliced", "done"} /\ ~Misplaced
  /\ file.style # "sections"
  => KeptTidy /\ KeptGrounded /\ KeptSpaced

(* A text without the versions of its declarations. *)
Shape(s) == [i \in DOMAIN s |-> IF s[i].k = "text"
                                  THEN [k |-> "text", d |-> s[i].d] ELSE s[i]]

SameLayout == file.gapHead = file.gapWork /\ file.eofHead = file.eofWork

OneSided(d) == d \in file.inHead <=> d \notin file.inWork

(* Naming everything that was added or removed gives the worktree's own    *)
(* layout back, blank line for blank line, where HEAD and the worktree are *)
(* laid out alike and no narrower than the structural minimum: the         *)
(* round-trip promise of cmd/rgit/stage_roundtrip_test.go:14-24, for any   *)
(* number of anchors.                                                      *)
RoundTrip ==
  /\ pc = "done" /\ ~Misplaced
  /\ file.inWork # {} /\ SameLayout /\ file.gapWork >= 2
  /\ file.style = "braces"
  /\ \A d \in Symbols : OneSided(d) => Decider(d) \in Taken
  => Shape(out) = Shape(work)
=============================================================================
