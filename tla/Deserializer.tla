----------------------------- MODULE Deserializer ----------------------------
(***************************************************************************)
(* From the tokens of a configuration file to the tree of its nodes: the   *)
(* deserializer of fkYAML (fkYAML.hpp), which main.cpp gives the file to.  *)
(* A step reads one token, with those that its handler asks for.           *)
(*                                                                         *)
(* A token has its type, its place, and a value if it is a scalar.  Nodes  *)
(* are numbered in the order of their making: one is a scalar, a sequence  *)
(* of numbers or a set of pairs of a key and a number, where a key is a    *)
(* whole tree.  Tags, anchors and tag directives are left out.             *)
(***************************************************************************)
EXTENDS Integers, Sequences, SequencesExt, FiniteSetsExt

VARIABLES tokens,        \* what the lexer makes of the file
          parser         \* the deserializer and the locals of its loop

vars == <<tokens, parser>>

End == "end of buffer"
Type(i) == IF i > Len(tokens) THEN End ELSE tokens[i].type
Line(i) == IF i > Len(tokens) THEN 1 + (IF tokens = <<>> THEN 0 ELSE Last(tokens).line) ELSE tokens[i].line
Column(i) == IF i > Len(tokens) THEN 0 ELSE tokens[i].indent

-----------------------------------------------------------------------------
(* Nodes and contexts *)

Null == [null |-> {}]
Empty(kind) == IF kind = "sequence" THEN [sequence |-> <<>>] ELSE [mapping |-> {}]
Is(s, kind) == kind \in DOMAIN s.nodes[s.current]

(* A node is made after the one that holds it.                              *)
Tree(s, number) ==
    LET tree[n \in DOMAIN s.nodes] ==
            LET node == s.nodes[n]
            IN CASE "sequence" \in DOMAIN node ->
                        [sequence |-> [i \in DOMAIN node.sequence |-> tree[node.sequence[i]]]]
                 [] "mapping" \in DOMAIN node ->
                        [mapping |-> { <<entry[1], tree[entry[2]]>> : entry \in node.mapping }]
                 [] OTHER -> node
    IN tree[number]

Advance(s) == [s EXCEPT !.at = @ + 1, !.line = Line(s.at + 1), !.indent = Column(s.at + 1)]
Throw(s) == [s EXCEPT !.outcome = "error"]
Undefined(s) == [s EXCEPT !.outcome = "undefined"]

Put(s, node) == [s EXCEPT !.nodes[s.current] = node]
Made(s, node) == [s EXCEPT !.nodes = Append(@, node), !.current = Len(s.nodes) + 1]
Appended(s, node) ==
    Made([s EXCEPT !.nodes[s.current].sequence = Append(@, Len(s.nodes) + 1)], node)
Keyed(s, key) ==
    Made([s EXCEPT !.nodes[s.current].mapping = @ \union {<<key, Len(s.nodes) + 1>>}], Null)

Top(s) == Last(s.contexts)
Context(s, state) == [line |-> s.line, indent |-> s.indent, state |-> state, node |-> s.current]
Push(s, state) == [s EXCEPT !.contexts = Append(@, Context(s, state))]
Relabel(s, state) == [s EXCEPT !.contexts = Append(Front(@), [Context(s, state) EXCEPT !.node = Top(s).node])]

(* The first n contexts are kept; the current node is that of the last one. *)
KeepFirst(s, n) == [s EXCEPT !.contexts = SubSeq(@, 1, n), !.current = s.contexts[n].node]
MoveBack(s, n) == IF n = Len(s.contexts) THEN s ELSE KeepFirst(s, n)

Latest(s, Test(_)) == Max({0} \union { n \in DOMAIN s.contexts : Test(s.contexts[n]) })

(* Where a key or a flow collection belongs that is outside of any flow:    *)
(* at the root, in the block around it that begins in its column, or here.  *)
Holder(s, isLeft) ==
    IF s.indent = 0
    THEN 1
    ELSE IF isLeft
    THEN Latest(s, LAMBDA c : c.indent = s.indent /\ c.state \in {"block mapping", "mapping value"})
    ELSE Len(s.contexts)

-----------------------------------------------------------------------------
(* Keys and values *)

(* A variant: the mapping that the column belongs to is not looked for.     *)
AddHere(s, key) ==
    LET here == IF Is(s, "sequence") THEN Push(Appended(s, Empty("mapping")), "block mapping") ELSE s
    IN LET keyed == Keyed(here, key)
       IN [keyed EXCEPT !.contexts = Append(@, [Top(here) EXCEPT !.state = "mapping value",
                                                                !.node = keyed.current])]

add_new_key(s, key) ==
    LET holder == Holder(s, s.indent < Top(s).indent)
        back   == IF s.depth = 0 THEN MoveBack(s, holder) ELSE s
        here   == IF Is(back, "sequence")
                  THEN Push(Appended(back, Empty("mapping")), "block mapping") ELSE back
        keyed  == Keyed(here, key)
    IN IF \/ s.depth = 0 /\ holder = 0
          \/ s.depth > 0 /\ s.needsSeparator
          \/ ~Is(here, "mapping")
          \/ \E entry \in here.nodes[here.current].mapping : entry[1] = key
       THEN Throw(s)
       ELSE [keyed EXCEPT !.contexts = Append(@, [Top(here) EXCEPT !.state = "mapping value",
                                                                  !.node = keyed.current])]

assign_node_value(s, node) ==
    CASE Is(s, "sequence") /\ s.depth > 0 /\ s.needsSeparator -> Throw(s)
      [] Is(s, "sequence") /\ ~(s.depth > 0 /\ s.needsSeparator) ->
            [Appended(s, node) EXCEPT !.current = s.current, !.needsSeparator = s.depth > 0 \/ @]
      [] ~Is(s, "sequence") /\ s.depth = 0 /\ Top(s).state = "explicit key" -> Put(s, node)
      [] ~Is(s, "sequence") /\ ~(s.depth = 0 /\ Top(s).state = "explicit key") ->
            IF Len(s.contexts) = 1
            THEN Undefined(s)
            ELSE [KeepFirst(Put(s, node), Len(s.contexts) - 1) EXCEPT
                    !.needsSeparator = s.depth > 0 \/ @]

(* A mapping begins with the scalar as its first key.                       *)
Opened(s) ==
    IF Top(s).state \in {"explicit key", "explicit value"}
    THEN Put(Push(s, "block mapping"), Empty("mapping"))
    ELSE Put(Relabel(s, "block mapping"), Empty("mapping"))

deserialize_scalar(s, node) ==
    LET assigned == assign_node_value(s, node)
        isKey    == Type(s.at + 1) = ":"
    IN CASE Is(s, "mapping") -> add_new_key(s, node)
         [] ~Is(s, "mapping") /\ isKey /\ Line(s.at + 1) # s.line ->
               IF Top(assigned).state = "explicit key"
               THEN assigned
               ELSE [assigned EXCEPT !.current = Top(assigned).node, !.contexts = Front(@)]
         [] ~Is(s, "mapping") /\ isKey /\ Line(s.at + 1) = s.line ->
               IF Is(s, "sequence") THEN add_new_key(s, node)
               ELSE IF /\ Top(s).state \notin {"explicit key", "explicit value"}
                       /\ Top(s).line = s.line
               THEN Throw(s)
               ELSE add_new_key(Opened(s), node)
         [] ~Is(s, "mapping") /\ ~isKey -> assigned

-----------------------------------------------------------------------------
(* The handlers of the tokens *)

Scalar(s) == Advance(deserialize_scalar(s, [scalar |-> tokens[s.at].value]))

ExplicitKey(s) ==
    LET kept == IF s.indent = 0 THEN 1
                ELSE IF s.indent < Top(s).indent
                THEN Latest(s, LAMBDA c : c.indent < s.indent) ELSE Len(s.contexts)
        back == MoveBack(s, kept)
        here == IF Is(back, "null") THEN Put(back, Empty("mapping")) ELSE back
        held == IF Top(here).state = "block sequence"
                THEN Push(Appended(here, Empty("mapping")), "block mapping") ELSE here
    IN IF Type(s.at + 1) = "-"
       THEN Advance(Push(Advance(Push(Made(held, Empty("sequence")), "explicit key")), "block sequence"))
       ELSE Advance(Push(Made(held, Null), "explicit key"))

(* The key of the last "?" is complete.  The line of a key that is there    *)
(* already is not looked at: its value is given anew.                       *)
ExplicitValue(s) ==
    LET n    == Latest(s, LAMBDA c : c.state = "explicit key")
        key  == Tree(s, s.contexts[n].node)
        held == KeepFirst(s, n - 1)
        had  == { entry \in held.nodes[held.current].mapping : entry[1] = key }
        here == IF had = {} THEN Keyed(held, key)
                ELSE [held EXCEPT !.current = (CHOOSE entry \in had : TRUE)[2]]
        open == Push(here, "explicit value")
    IN IF n = 0 THEN Undefined(s)
       ELSE IF ~Is(held, "mapping") THEN Throw(s)
       ELSE IF Type(s.at) = "-"
       THEN Advance(Push(Put(open, Empty("sequence")), "block sequence"))
       ELSE open

KeySeparator(s) ==
    LET next == Advance(s)
    IN IF Is(s, "sequence") /\ s.nodes[s.current].sequence = <<>> THEN Throw(s)
       ELSE IF \/ s.depth > 0
               \/ next.line = s.line /\ (s.contexts = <<>> \/ s.indent > Top(s).indent)
       THEN next
       ELSE IF next.line = s.line THEN ExplicitValue(next)
       ELSE IF Type(next.at) = "-"
       THEN IF s.contexts = <<>> THEN Undefined(s)
            ELSE Advance(Put(Relabel(next, "block sequence"), Empty("sequence")))
       ELSE next

SequencePrefix(s) ==
    LET n == Latest(s, LAMBDA c : c.state = "block sequence" /\ c.indent = s.indent)
    IN IF s.indent > Top(s).indent
       THEN IF Is(s, "sequence")
            THEN Advance(Push(Appended(s, Empty("sequence")), "block sequence")) ELSE Throw(s)
       ELSE IF n = 0 THEN Undefined(s) ELSE Advance(KeepFirst(s, n))

FlowBegin(s, kind) ==
    LET holder == Holder(s, s.indent <= Top(s).indent)
        back   == [(IF s.depth = 0 THEN MoveBack(s, holder) ELSE s) EXCEPT !.depth = @ + 1]
        inside == CASE Top(back).state \in {"block sequence", "flow sequence"} ->
                            Push(Appended(back, Empty(kind)), "flow " \o kind)
                    [] Top(back).state \in {"block mapping", "flow mapping"} ->
                            Push(Made(back, Empty(kind)), "flow key " \o kind)
                    [] OTHER -> Put(Relabel(back, "flow " \o kind), Empty(kind))
    IN IF (s.depth = 0 /\ holder = 0) \/ (s.depth > 0 /\ s.needsSeparator)
       THEN Throw(s)
       ELSE Advance([inside EXCEPT !.needsSeparator = FALSE])

(* The collection is a key, is found to be one, or is a value.              *)
FlowEnd(s, kind) ==
    LET last   == Top(s)
        around == Front(s.contexts)
        closed == [s EXCEPT !.contexts = around, !.depth = @ - 1, !.indent = last.indent,
                            !.current = last.node]
        outer  == IF around = <<>> THEN closed ELSE [closed EXCEPT !.current = Last(around).node]
        key    == Tree(s, last.node)
    IN IF \/ s.depth = 0
          \/ Latest(s, LAMBDA c : c.state \in {"flow " \o kind, "flow key " \o kind}) = 0
       THEN Throw(s)
       ELSE IF around # <<>> /\ last.state = "flow key " \o kind
       THEN Advance(add_new_key([outer EXCEPT !.needsSeparator = FALSE], key))
       ELSE IF Type(s.at + 1) = ":"
       THEN Advance(add_new_key(Push(Put([closed EXCEPT !.needsSeparator = FALSE], Empty("mapping")),
                                     "block mapping"), key))
       ELSE Advance([outer EXCEPT !.needsSeparator = closed.depth > 0 \/ @])

ValueSeparator(s) ==
    IF s.depth = 0 THEN Undefined(s)
    ELSE IF ~s.needsSeparator THEN Throw(s)
    ELSE Advance([s EXCEPT !.needsSeparator = FALSE])

-----------------------------------------------------------------------------
(* A document *)

(* The directives before the document, and the marker that has to end them. *)
Leading == Max({0} \union { n \in DOMAIN tokens : \A i \in 1 .. n : tokens[i].type \in {"%", "---"} })
DirectivesFail ==
    \/ \E i, j \in 1 .. Leading : i # j /\ tokens[i].type = "%" /\ tokens[j].type = "%"
    \/ Leading > 0 /\ tokens[Leading].type = "%"

Begun ==
    LET first == Leading + 1
        flow  == Type(first) \in {"[", "{"}
        kind  == IF Type(first) \in {"-", "["} THEN "sequence" ELSE "mapping"
        start == Push([at |-> first, line |-> Line(first), indent |-> Column(first),
                       nodes |-> <<Empty(kind)>>, current |-> 1, contexts |-> <<>>,
                       depth |-> IF flow THEN 1 ELSE 0, needsSeparator |-> FALSE,
                       outcome |-> "reading"], (IF flow THEN "flow " ELSE "block ") \o kind)
    IN IF DirectivesFail THEN Throw(start)
       ELSE IF Type(first) \in {"-", "[", "{"} THEN Advance(start) ELSE start

Reading(types) ==
    parser.outcome = "reading" /\ Type(parser.at) \in types /\ UNCHANGED tokens
InContext(types) == Reading(types) /\ parser.contexts # <<>>
Behind(types) == Reading(types) /\ parser.contexts = <<>>

(* Behind a flow sequence at the root, a scalar that is no key is appended  *)
(* to it.                                                                   *)
IsItem ==
    Type(parser.at) = "scalar" /\ Is(parser, "sequence") /\ Type(parser.at + 1) # ":"

ReadScalar ==
    \/ InContext({"scalar"}) /\ parser' = Scalar(parser)
    \/ Behind({"scalar"}) /\ IsItem /\ parser' = Scalar(parser)
ReadExplicitKey == InContext({"?"}) /\ parser' = ExplicitKey(parser)
ReadKeySeparator == Reading({":"}) /\ parser' = KeySeparator(parser)
ReadSequencePrefix == InContext({"-"}) /\ parser' = SequencePrefix(parser)
ReadFlowBegin ==
    \/ InContext({"["}) /\ parser' = FlowBegin(parser, "sequence")
    \/ InContext({"{"}) /\ parser' = FlowBegin(parser, "mapping")
ReadFlowEnd ==
    \/ Reading({"]"}) /\ parser' = FlowEnd(parser, "sequence")
    \/ Reading({"}"}) /\ parser' = FlowEnd(parser, "mapping")
ReadValueSeparator == Reading({","}) /\ parser' = ValueSeparator(parser)
ReadMarker == Reading({"---"}) /\ parser' = Throw(parser)
ReadDirective == Reading({"%"}) /\ parser' = Advance(parser)
ReadEnd == Reading({End, "..."}) /\ parser' = [parser EXCEPT !.outcome = "read"]

(* What else looks back to a context, behind a flow collection at the root, *)
(* where there is none left.                                                *)
ReadBehind ==
    /\ Behind({"scalar", "?", "-", "[", "{"})
    /\ ~IsItem
    /\ parser' = Undefined(parser)

Init == parser = Begun

Next ==
    \/ ReadScalar
    \/ ReadExplicitKey
    \/ ReadKeySeparator
    \/ ReadSequencePrefix
    \/ ReadFlowBegin
    \/ ReadFlowEnd
    \/ ReadValueSeparator
    \/ ReadMarker
    \/ ReadDirective
    \/ ReadEnd
    \/ ReadBehind

Spec == Init /\ [][Next]_vars
=============================================================================
