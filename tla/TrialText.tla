----------------------------- MODULE TrialText -----------------------------
(***************************************************************************)
(* The cuts of the minimizer as suite/nemesis.c makes them: on the lines   *)
(* of the text, from the line where the phase or step starts to the line   *)
(* where what follows it starts, by the line numbers of the parsed tree.   *)
(* Scenario has the same cuts on phases and steps; the texts here are      *)
(* those of the generator and of users who lay a file out differently.     *)
(***************************************************************************)
EXTENDS Integers, Scenario, Yaml, SequencesExt

(***************************************************************************)
(* Layouts.  list: how much deeper than its key a list stands; bare: the   *)
(* dash of a phase or step has a line of its own; order: where a phase     *)
(* has its do; cond: the key of its condition; empty: a phase without      *)
(* steps says do: []; notes: a comment stands before each phase; tail: a   *)
(* key of the file follows the phases.                                     *)
(***************************************************************************)
Layout == [list : {0, 2}, bare : BOOLEAN, order : {"first", "mid", "last"},
           cond : {"until", "sustain"}, empty : BOOLEAN, notes : BOOLEAN,
           tail : BOOLEAN]

\* How the emit functions lay out a phase.
Own == [list |-> 2, bare |-> FALSE, order |-> "mid", cond |-> "until",
        empty |-> FALSE, notes |-> FALSE, tail |-> FALSE]

\* An item of a list: its lines, a map's, with the dash before the first key
\* or on a line of its own.
Item(lay, ind, lines) ==
    IF lay.bare THEN <<L(ind, TRUE, NoKey, <<>>)>> \o lines
    ELSE <<[Head(lines) EXCEPT !.ind = ind, !.dash = TRUE]>> \o Tail(lines)

StepText(lay, ind, s) ==
    Item(lay, ind, <<L(ind + 2, FALSE, s.verb, <<>>),
                     L(ind + 4, FALSE, "node", <<s.node>>)>>)

DoText(lay, ind, p) ==
    IF p.steps # <<>>
    THEN <<L(ind, FALSE, "do", <<>>)>>
         \o FlattenSeq([i \in DOMAIN p.steps |->
                            StepText(lay, ind + lay.list, p.steps[i])])
    ELSE IF lay.empty THEN <<L(ind, FALSE, "do", EmptyList)>> ELSE <<>>

PhaseText(lay, p) ==
    LET ind  == lay.list + 2
        name == <<L(ind, FALSE, "name", <<p.name>>)>>
        cond == <<L(ind, FALSE, lay.cond, <<>>),
                  L(ind + 2, FALSE, p.cond.kind, <<p.cond.n>>),
                  L(ind, FALSE, "timeout_s", <<9>>)>>
        do   == DoText(lay, ind, p)
        body == CASE lay.order = "first" -> do \o name \o cond
                  [] lay.order = "mid"   -> name \o do \o cond
                  [] OTHER               -> name \o cond \o do
    IN  (IF lay.notes THEN <<Comment>> ELSE <<>>) \o Item(lay, lay.list, body)

\* The keys that trial_valid asks for are one here.
Text(lay, f) ==
    <<L(0, FALSE, "version", <<1>>), L(0, FALSE, "phases", <<>>)>>
    \o FlattenSeq([i \in DOMAIN f |-> PhaseText(lay, f[i])])
    \o (IF lay.tail THEN <<L(0, FALSE, "isolate", <<"on">>)>> ELSE <<>>)

\* A scalar's value; nothing else has one.
ScalarOf(nd) == IF nd.kind = "scalar" THEN nd.items[1] ELSE -1

\* The phases that trial_valid and the lint read from a tree.  A step is a map
\* of one key.
PhasesOf(root) ==
    LET Steps(d) == [i \in DOMAIN d.items |->
                        [verb |-> d.items[i].items[1].key,
                         node |-> ScalarOf(suite_map_find(d.items[i].items[1].value,
                                                          "node"))]]
        CondOf(c) == IF c.kind = "map"
                    THEN [kind |-> c.items[1].key, n |-> ScalarOf(c.items[1].value)]
                    ELSE [kind |-> c.kind, n |-> ScalarOf(c)]
        Read(ph) ==
            LET u == suite_map_find(ph, "until")
            IN  [name  |-> ScalarOf(suite_map_find(ph, "name")),
                 steps |-> Steps(suite_map_find(ph, "do")),
                 cond  |-> CondOf(IF u.kind # "none" THEN u
                                 ELSE suite_map_find(ph, "sustain"))]
        phs == suite_map_find(root, "phases")
    IN  [i \in DOMAIN phs.items |-> Read(phs.items[i])]

\* The keys of the file beside its phases, with their values.
KeysOf(root) ==
    {<<e.key, ScalarOf(e.value)>> : e \in {d \in Range(root.items) : d.key # "phases"}}

\* What of trial_valid is about the tree alone.
ShapeOK(root) ==
    LET phs == suite_map_find(root, "phases")
        PhaseOK(ph) ==
            LET Has(key) == suite_map_find(ph, key).kind # "none"
                d == suite_map_find(ph, "do")
            IN  /\ suite_map_find(ph, "name").kind = "scalar"
                /\ Has("until") # Has("sustain")
                /\ Has("timeout_s")
                /\ d.kind \in {"none", "list"}
                /\ \A i \in DOMAIN d.items :
                       d.items[i].kind = "map" /\ Len(d.items[i].items) = 1
    IN  /\ suite_map_find(root, "version").kind # "none"
        /\ phs.kind = "list" /\ phs.items # <<>>
        /\ \A i \in DOMAIN phs.items : PhaseOK(phs.items[i])

-----------------------------------------------------------------------------
(* The cuts.                                                               *)

\* The text without its lines from a up to b.
Splice(text, a, b) == SubSeq(text, 1, a - 1) \o SubSeq(text, b, Len(text))

End(text) == Len(text) + 1

phases(root) == suite_map_find(root, "phases").items

\* The first line of phase i, or the end of the text.
PhaseLine(text, root, i) ==
    IF i <= Len(phases(root)) THEN phases(root)[i].line ELSE End(text)

cut_phase(text, root, i) ==
    Splice(text, PhaseLine(text, root, i), PhaseLine(text, root, i + 1))

\* The first line after ln on which the phase has a key; 0 if there is none.
next_key_after(ph, ln) ==
    LET after == {ph.items[i].key_line : i \in DOMAIN ph.items} \ (0..ln)
    IN  IF after = {} THEN 0 ELSE CHOOSE x \in after : \A y \in after : x <= y

do_key_line(ph) ==
    ph.items[CHOOSE i \in DOMAIN ph.items : ph.items[i].key = "do"].key_line

\* Slip: the do key stays when its last step goes.
CutStepKeepsDo(text, root, i, l) ==
    LET ph   == phases(root)[i]
        d    == suite_map_find(ph, "do").items
        post == next_key_after(ph, d[l].line)
        b    == IF l < Len(d) THEN d[l + 1].line
                ELSE IF post # 0 THEN post ELSE PhaseLine(text, root, i + 1)
    IN  Splice(text, d[l].line, b)

\* A step ends where the next one starts, or the next key of its phase, or
\* the next phase.  The last step takes the do key along.
cut_step(text, root, i, l) ==
    LET ph   == phases(root)[i]
        d    == suite_map_find(ph, "do").items
        post == next_key_after(ph, d[l].line)
        a    == IF Len(d) = 1 THEN do_key_line(ph) ELSE d[l].line
        b    == IF l < Len(d) THEN d[l + 1].line
                ELSE IF post # 0 THEN post ELSE PhaseLine(text, root, i + 1)
    IN  Splice(text, a, b)

-----------------------------------------------------------------------------
(* Properties.                                                             *)

\* The cuts the minimizer may try: <<i, 0>> of phase i, <<i, l>> of its step
\* l.  The last phase stays if it is the only one.
Cuts(f) ==
    {<<i, 0>> : i \in IF Len(f) > 1 THEN DOMAIN f ELSE {}}
    \union UNION {{i} \X DOMAIN f[i].steps : i \in DOMAIN f}

\* The tree of the cut text, and the file it should stand for.
TreeOf(text, root, c) ==
    suite_parse(IF c[2] = 0 THEN cut_phase(text, root, c[1])
                            ELSE cut_step(text, root, c[1], c[2]))
FileOf(f, c) ==
    IF c[2] = 0 THEN trial_no_phase(f, c[1]) ELSE trial_no_step(f, c[1], c[2])

\* Nothing of the phases follows what is cut.
AtEnd(lay, f, c) ==
    /\ c[1] = Len(f)
    /\ c[2] = 0 \/ (lay.order = "last" /\ c[2] = Len(f[c[1]].steps))

\* For every layout, a text stands for its file, and each cut of its lines
\* is refused or stands for the file without just that phase or step: no cut
\* moves a step to another phase, takes a neighbour along, leaves half of
\* something behind or touches another key of the file.  The exception is a
\* cut at the end of the phases, which loses the keys that follow them, and
\* no others.  In the generator's own layout no cut is refused.
CutsMean(f, layouts) ==
    \A lay \in layouts :
        LET text == Text(lay, f)
            root == suite_parse(text)
        IN  /\ ShapeOK(root) /\ PhasesOf(root) = f
            /\ \A c \in Cuts(f) :
                   LET tree == TreeOf(text, root, c)
                   IN  /\ ShapeOK(tree) =>
                              /\ PhasesOf(tree) = FileOf(f, c)
                              /\ KeysOf(tree) = IF AtEnd(lay, f, c)
                                                THEN KeysOf(suite_parse(Text(Own, f)))
                                                ELSE KeysOf(root)
                       /\ lay = Own => ShapeOK(tree)
=============================================================================
