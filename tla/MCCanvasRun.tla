---------------------------- MODULE MCCanvasRun ----------------------------
(* Small instances of CanvasRun.                                           *)
EXTENDS CanvasRun

MCIds == {"begin", "a", "b", "c", "d"}

(* Agents of four components without branches: every acyclic drawing, its  *)
(* edges in both orders, and every choice of inputs from upstream.         *)
Up == [c \in MCIds |-> CASE c = "begin" -> {} [] c = "a" -> {"begin"} [] c = "b" -> {"begin", "a"}
                         [] c = "c" -> {"begin", "a", "b"} [] OTHER -> {}]

Line(s, S) == SelectSeq(s, LAMBDA c : c \in S)

Drawing(E, order, needs) ==
  [kind |-> [c \in MCIds |-> "plain"],
   down |-> [c \in MCIds |-> Line(order, {x \in MCIds : <<c, x>> \in E})],
   needs |-> needs, goto |-> [c \in MCIds |-> <<>>], default |-> {},
   parent |-> [c \in MCIds |-> "none"]]

Edges == {<<x, y>> \in MCIds \X MCIds : x \in Up[y]}

(* Upstream of y along the edges E, begin apart.                           *)
Above(E, y) ==
  LET one == {x \in MCIds : <<x, y>> \in E}
  IN (one \cup UNION {{x \in MCIds : <<x, z>> \in E} : z \in one}) \ {"begin"}

Drawings ==
  UNION {{Drawing(E, order, [c \in MCIds |-> CASE c = "b" -> nb [] c = "c" -> nc [] OTHER -> {}]) :
            order \in {<<"a", "b", "c">>, <<"c", "b", "a">>},
            nb \in SUBSET Above(E, "b"), nc \in SUBSET Above(E, "c")} : E \in SUBSET Edges}

Agent(kind, down, needs, goto, default, parent) ==
  LET all(f, x) == [c \in MCIds |-> IF c \in DOMAIN f THEN f[c] ELSE x]
  IN [kind |-> all(kind, "plain"), down |-> all(down, <<>>), needs |-> all(needs, {}),
      goto |-> all(goto, <<>>), default |-> default, parent |-> all(parent, "none")]

(* A loop of two components with an exception branch; a switch with a form *)
(* on one side; an exit from a loop; an edge that leads back to a          *)
(* component that waits for what is behind it.  Default values for some.   *)
Special ==
  { Agent([a |-> "loop", b |-> "item"], [begin |-> <<"a">>, a |-> <<"d">>, b |-> <<"c">>],
          [c |-> {"b"}], [c |-> <<"d">>], {"d"}, [b |-> "a", c |-> "a"]),
    Agent([a |-> "switch", b |-> "fillup"], [begin |-> <<"a">>, a |-> <<"b", "c">>, b |-> <<"d">>, c |-> <<"d">>],
          [d |-> {"c"}], [c |-> <<"b">>], {}, <<>>),
    Agent([a |-> "loop", b |-> "item", c |-> "exit"], [begin |-> <<"a">>, a |-> <<"d">>, b |-> <<"c">>],
          <<>>, <<>>, {"c"}, [b |-> "a", c |-> "a"]),
    Agent(<<>>, [begin |-> <<"a">>, a |-> <<"b">>, b |-> <<"a">>], [a |-> {"b"}], <<>>, {}, <<>>) }

MCGraphs == Drawings \cup Special

=============================================================================
