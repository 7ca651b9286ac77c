--------------------------- MODULE MCClassLayout ----------------------------
(* The common base and four more classes: enough for an ancestor inherited *)
(* along two paths and for a chain of four.                                *)
EXTENDS ClassLayout

Shape(kind, widths) == [kind |-> kind, widths |-> widths]

MCShapes ==
    <<{Shape("quark", <<1>>)},
      {Shape("union", <<1, 2>>)},
      {Shape("quark", <<1>>)},
      {Shape("element", <<1>>)},
      {Shape("quark", <<1>>), Shape("element", <<1>>)}>>

MCParentLists == {<<>>, <<2>>, <<3>>, <<4>>, <<4, 2>>, <<2, 4>>}
=============================================================================
