-------------------------------- MODULE Yaml --------------------------------
(***************************************************************************)
(* The YAML parser of suite/parse.c, from the lines of a file to its tree. *)
(* A line is what take_line and scrub_line make of it: its indentation, a  *)
(* dash or not, a key or not, a value or not.  Keys and values are opaque  *)
(* and well formed; quoting, escapes and the characters that plain text    *)
(* may not hold are left out, and so are the texts of errors: a failed     *)
(* parse is NoTree.  Every node has the line it starts on, which the       *)
(* minimizer cuts by.                                                      *)
(***************************************************************************)
EXTENDS Naturals, Sequences

CONSTANT MaxDepth  \* kMaxDepth

ASSUME MaxDepthAssumption == MaxDepth \in Nat \ {0}

NoKey     == ""
EmptyList == <<"[", "]">>

\* A line of text; val is <<>>, holds the value, or is the empty list.
L(ind, dash, key, val) ==
    [blank |-> FALSE, ind |-> ind, dash |-> dash, key |-> key, val |-> val]
Comment == [blank |-> TRUE, ind |-> 0, dash |-> FALSE, key |-> NoKey, val |-> <<>>]

is_empty_list(ln) == Len(ln.val) = 2

\* The lines that take_line keeps, each with its number.
take_lines(text) ==
    LET Numbered == [i \in DOMAIN text |-> [no |-> i, ln |-> text[i]]]
        Kept(x)  == ~x.ln.blank
    IN  SelectSeq(Numbered, Kept)

Scalar(line, v)  == [kind |-> "scalar", line |-> line, items |-> <<v>>]
ListOf(line, it) == [kind |-> "list", line |-> line, items |-> it]
MapOf(line, it)  == [kind |-> "map", line |-> line, items |-> it]
NoTree           == [kind |-> "none", line |-> 0, items |-> <<>>]

Entry(key, line, v) == [key |-> key, key_line |-> line, value |-> v]

\* Where the parser stands after a node; pos 0 for a failure.
At(pos, nd) == [pos |-> pos, nd |-> nd]
Bad         == At(0, NoTree)

More(ls, pos, ind) == pos <= Len(ls) /\ ls[pos].ln.ind > ind

map_has(items, key) == \E i \in DOMAIN items : items[i].key = key

RECURSIVE parse_block(_, _, _), parse_map_body(_, _, _, _, _, _),
          parse_list(_, _, _, _, _, _)

\* The value after a key: on the line, or the block below it.  A list may
\* stand at the indentation of the key it belongs to, unless the key follows
\* a dash.
parse_value(ls, pos, x, ind, same, depth) ==
    CASE x.ln.val = <<>> ->
             IF \/ More(ls, pos, ind)
                \/ /\ same /\ pos <= Len(ls)
                   /\ ls[pos].ln.ind = ind /\ ls[pos].ln.dash
             THEN parse_block(ls, pos, depth)
             ELSE Bad
      [] is_empty_list(x.ln) -> At(pos, ListOf(x.no, <<>>))
      [] OTHER -> At(pos, Scalar(x.no, x.ln.val[1]))

\* The entries of a map at one indentation, behind those it has.
parse_map_body(ls, pos, line, items, ind, depth) ==
    IF pos <= Len(ls) /\ ls[pos].ln.ind = ind
    THEN LET x == ls[pos]
             v == parse_value(ls, pos + 1, x, ind, TRUE, depth)
         IN  IF \/ x.ln.dash \/ x.ln.key = NoKey
                \/ map_has(items, x.ln.key)
                \/ v.pos = 0
             THEN Bad
             ELSE parse_map_body(ls, v.pos, line,
                      Append(items, Entry(x.ln.key, x.no, v.nd)), ind, depth)
    ELSE IF More(ls, pos, ind) THEN Bad ELSE At(pos, MapOf(line, items))

\* A map whose first key stands behind a dash; the others follow at any
\* deeper indentation.
parse_inline(ls, pos, x, ind, depth) ==
    LET v    == parse_value(ls, pos, x, ind, FALSE, depth)
        frst == <<Entry(x.ln.key, x.no, v.nd)>>
    IN  IF v.pos = 0 THEN Bad
        ELSE IF More(ls, v.pos, ind)
        THEN parse_map_body(ls, v.pos, x.no, frst, ls[v.pos].ln.ind, depth)
        ELSE At(v.pos, MapOf(x.no, frst))

parse_item(ls, pos, ind, depth) ==
    LET x == ls[pos]
    IN  IF x.ln.key # NoKey
        THEN parse_inline(ls, pos + 1, x, ind, depth)
        ELSE parse_value(ls, pos + 1, x, ind, FALSE, depth)

parse_list(ls, pos, line, items, ind, depth) ==
    IF pos <= Len(ls) /\ ls[pos].ln.ind = ind /\ ls[pos].ln.dash
    THEN LET it == parse_item(ls, pos, ind, depth)
         IN  IF it.pos = 0
             THEN Bad
             ELSE parse_list(ls, it.pos, line, Append(items, it.nd), ind, depth)
    ELSE IF More(ls, pos, ind) THEN Bad ELSE At(pos, ListOf(line, items))

parse_block(ls, pos, depth) ==
    LET x == ls[pos]
    IN  IF depth >= MaxDepth THEN Bad
        ELSE IF x.ln.dash
        THEN parse_list(ls, pos, x.no, <<>>, x.ln.ind, depth + 1)
        ELSE parse_map_body(ls, pos, x.no, <<>>, x.ln.ind, depth + 1)

\* An empty file is an empty map; lines left over are an error.
suite_parse(text) ==
    LET ls == take_lines(text)
        r  == parse_block(ls, 1, 0)
    IN  IF ls = <<>> THEN MapOf(1, <<>>)
        ELSE IF r.pos = Len(ls) + 1 THEN r.nd ELSE NoTree

\* The value of a key; NoTree when the node is no map or lacks it.
suite_map_find(nd, key) ==
    IF nd.kind = "map" /\ map_has(nd.items, key)
    THEN nd.items[CHOOSE i \in DOMAIN nd.items : nd.items[i].key = key].value
    ELSE NoTree
=============================================================================
