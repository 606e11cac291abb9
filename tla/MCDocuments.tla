----------------------------- MODULE MCDocuments -----------------------------
(***************************************************************************)
(* Documents of YAML: small trees, and the tokens of a tree in a layout.   *)
(***************************************************************************)
EXTENDS Integers, Sequences, SequencesExt

(* Shapes of trees: all of two levels, and of three with little beside.     *)
Both(first, second) ==
    [kind : {"sequence", "mapping"},
     parts : {<<>>} \union { <<a>> : a \in first } \union { <<a, b>> : a \in first, b \in second }]
Leaves == {[kind |-> "scalar"]}
Flat == Both(Leaves, Leaves)
Deep == Both(Flat \union Leaves, Flat \union Leaves)
Shapes == Both(Deep \union Leaves, Leaves) \union Both(Flat \union Leaves, Deep \union Leaves)

(* All labels of a tree differ: those inside a node begin with its own.     *)
RECURSIVE Labelled(_, _)
Labelled(shape, label) ==
    IF shape.kind = "scalar" THEN [scalar |-> label]
    ELSE IF shape.kind = "sequence"
    THEN [sequence |-> [i \in DOMAIN shape.parts |-> Labelled(shape.parts[i], Append(label, i))] \o <<>>]
    ELSE [mapping |-> { <<[scalar |-> Append(label, i)], Labelled(shape.parts[i], Append(label, i + 2))>> :
                            i \in DOMAIN shape.parts }]

(* How a document is laid out: with brackets from a depth on, and above it  *)
(* with the dashes of a sequence in the column of its key, with items and   *)
(* values in lines of their own, or with "?" before the keys of the root.   *)
Layouts ==
    [flow : 1 .. 3, compact : BOOLEAN, own : BOOLEAN, explicit : {FALSE}]
        \union [flow : {0}, compact : {FALSE}, own : {FALSE}, explicit : {FALSE}]
        \union [flow : {3}, compact : {FALSE}, own : {FALSE}, explicit : {TRUE}]

Tok(type, column) == <<type, column, "">>
Leaf(node, column) == <<"scalar", column, node.scalar>>
Part(tree) == IF "sequence" \in DOMAIN tree THEN tree.sequence ELSE SetToSeq(tree.mapping)
Joined(lists) == FoldLeft(LAMBDA all, list : all \o list, <<>>, lists)

(* A tree in brackets, each token in a column of its own.                   *)
RECURSIVE Flow(_)
Flow(tree) ==
    LET parts == Part(tree)
        Piece(i) == IF "sequence" \in DOMAIN tree THEN Flow(parts[i])
                    ELSE <<Leaf(parts[i][1], 0), Tok(":", 0)>> \o Flow(parts[i][2])
        inside == Joined([i \in DOMAIN parts |-> (IF i = 1 THEN <<>> ELSE <<Tok(",", 0)>>) \o Piece(i)])
    IN IF "scalar" \in DOMAIN tree THEN <<Leaf(tree, 0)>>
       ELSE IF "sequence" \in DOMAIN tree THEN <<Tok("[", 0)>> \o inside \o <<Tok("]", 0)>>
       ELSE <<Tok("{", 0)>> \o inside \o <<Tok("}", 0)>>

(* The lines of a tree from a column on.                                    *)
RECURSIVE Lines(_, _, _, _)
Lines(tree, column, layout, depth) ==
    LET parts == Part(tree)
        InLine(t) == "scalar" \in DOMAIN t \/ Part(t) = <<>> \/ depth + 1 >= layout.flow
        Below(t, columns) == Lines(t, column + columns, layout, depth + 1)
        After(line, t) == LET below == Below(t, 2) IN <<line \o below[1]>> \o Tail(below)
        Item(t) ==
            IF layout.own THEN <<<<Tok("-", column)>>>> \o Below(t, 2) ELSE After(<<Tok("-", column)>>, t)
        Entry(k, t) ==
            LET key == <<Leaf(k, column), Tok(":", column + 1)>>
            IN IF layout.explicit /\ column = 0
               THEN <<<<Tok("?", column), Leaf(k, column + 2)>>>> \o After(<<Tok(":", column)>>, t)
               ELSE IF InLine(t) /\ ~layout.own THEN <<key \o Below(t, 3)[1]>>
               ELSE <<key>> \o Below(t, IF layout.compact /\ column = 0 /\ ~InLine(t)
                                           /\ "sequence" \in DOMAIN t THEN 0 ELSE 2)
    IN IF "scalar" \in DOMAIN tree THEN <<<<Leaf(tree, column)>>>>
       ELSE IF parts = <<>> \/ depth >= layout.flow
       THEN LET flow == Flow(tree)
            IN <<[i \in DOMAIN flow |-> <<flow[i][1], column + i - 1, flow[i][3]>>] \o <<>>>>
       ELSE Joined([i \in DOMAIN parts |->
                IF "sequence" \in DOMAIN tree THEN Item(parts[i]) ELSE Entry(parts[i][1], parts[i][2])])

Tokens(tree, layout) ==
    LET lines == Lines(tree, 0, layout, 0)
    IN Joined([n \in DOMAIN lines |->
            [i \in DOMAIN lines[n] |->
                [type |-> lines[n][i][1], line |-> n, indent |-> lines[n][i][2], value |-> lines[n][i][3]]]])

Followed(list, types) ==
    list \o [i \in DOMAIN types |->
                [type |-> types[i], line |-> Last(list).line + i, indent |-> 0, value |-> <<0>>]]

(* What is around the tree in its file: nothing; a directive before and an  *)
(* end behind; a directive behind; a second document; more of the first.    *)
Framed(list, frame) ==
    CASE frame = "alone"    -> list
      [] frame = "ended"    -> [i \in 1 .. 2 |-> [type |-> <<"%", "---">>[i], line |-> 0, indent |-> 0,
                                                  value |-> ""]] \o Followed(list, <<"...", "scalar">>)
      [] frame = "directed" -> Followed(list, <<"%">>)
      [] frame = "second"   -> Followed(list, <<"---", "scalar">>)
      [] frame = "more"     -> Followed(list, <<"scalar">>)
Frames == {"alone", "ended", "directed", "second", "more"}

InBrackets(list) == \E i \in DOMAIN list : list[i].type \in {"[", "{"}

DocumentsOf(shapes, frames) ==
    [kind : {"document"}, tree : { Labelled(s, <<>>) : s \in shapes }, layout : Layouts, frame : frames]
DocumentJobs == DocumentsOf(Shapes, {"alone"}) \union DocumentsOf(Flat, Frames)
==============================================================================
