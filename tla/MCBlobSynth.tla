---------------------------- MODULE MCBlobSynth ----------------------------
(* Small instances of BlobSynth for TLC. *)
EXTENDS BlobSynth

MCNL == [k |-> "nl"]
MCSymbols == {"a", "b", "C", "m", "n"}
MCTokens == {MCNL, Tab, Preface, Closing, Opening("C")}
              \cup {Text(d, v) : d \in MCSymbols \ {"C"}, v \in {"old", "new"}}

Orders == {<<"a", "C", "m", "n", "b">>, <<"C", "m", "n", "a", "b">>}

WellNested(S) == S \cap {"m", "n"} # {} => "C" \in S

File(style, order, h, w, hx, p, gh, gw, eh, ew, refs) ==
  [style |-> style, order |-> order, inHead |-> h, inWork |-> w,
   headExists |-> hx, preface |-> p, gapHead |-> gh, gapWork |-> gw,
   eofHead |-> eh, eofWork |-> ew, refs |-> refs]

Styles == {"braces", "indent", "sections"}

(* Which declarations HEAD has and which the worktree has, out of S. *)
Pairs(S) == {x \in (SUBSET S) \X (SUBSET S) : WellNested(x[1]) /\ WellNested(x[2])}

(* Every pair of declarations, in the usual layout: of all five where the   *)
(* indentation holds a container together, of four in the other shapes.     *)
Edited == {File(st, <<"a", "C", "m", "n", "b">>, x[1], x[2], TRUE, FALSE, 2, 2, 1, 1, {}) :
             st \in {"braces", "sections"}, x \in Pairs(MCSymbols \ {"b"})}
            \cup {File("indent", <<"a", "C", "m", "n", "b">>, x[1], x[2], TRUE, FALSE,
                       2, 2, 1, 1, {}) : x \in Pairs(MCSymbols)}

(* The container first, after a preface. *)
Prefaced == {File(st, <<"C", "m", "n", "a", "b">>, x[1], x[2], TRUE, TRUE, 2, 2, 1, 1, {}) :
               st \in Styles, x \in Pairs({"C", "m", "a", "b"})}

(* Every layout: gaps narrower and wider than the structural minimum, and  *)
(* texts with and without a newline at their end.                          *)
LaidOut == {File(st, <<"a", "C", "m", "n", "b">>, x[1], x[2], TRUE, TRUE,
                 g[1], g[2], e[1], e[2], {}) :
              st \in Styles, x \in Pairs({"a", "C", "m"}),
              g \in {<<1, 1>>, <<2, 3>>, <<3, 2>>, <<3, 3>>},
              e \in (0..1) \X (0..1)}

(* References between declarations. *)
Referring == {File("braces", <<"a", "C", "m", "n", "b">>, x[1], x[2], TRUE, FALSE,
                   2, 2, 1, 1, r) :
                x \in Pairs({"a", "b", "C", "m"}),
                r \in {{<<"a", "b">>}, {<<"m", "b">>, <<"b", "a">>},
                       {<<"a", "b">>, <<"a", "C">>},
                       {<<"a", "C">>, <<"b", "C">>}}}

(* Files HEAD does not have, without and with references. *)
Fresh == {File(st, o, {}, x[2], FALSE, p, l[1], l[1], l[2], l[2], r) :
            st \in Styles, o \in Orders, x \in Pairs({"a", "b", "C", "m"}),
            p \in BOOLEAN, l \in {<<2, 1>>, <<3, 0>>},
            r \in {{}, {<<"a", "b">>, <<"m", "a">>}}}

(* New declarations after a container that keeps members. *)
NestFiles == {File("braces", <<"C", "m", "n", "a", "b">>, x[1], x[2], TRUE, FALSE,
                   2, 2, 1, 1, {}) : x \in Pairs({"C", "m", "a"})}

(* Files whose last section may go. *)
TailFiles == {File("sections", <<"a", "C", "m", "n", "b">>, x[1], x[2], TRUE, FALSE,
                   2, 2, 1, 1, {}) : x \in {y \in Pairs({"a", "b"}) : y[2] # {}}}

MCFiles == Edited \cup Prefaced \cup LaidOut \cup Referring \cup Fresh
=============================================================================
