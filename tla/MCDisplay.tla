----------------------------- MODULE MCDisplay -----------------------------
(* Instances of Display for TLC. *)
EXTENDS Display

IndicesDef == {0, 1, 2, -1}

WorkloadsDef ==
    {[kinds |-> {"path", "paint", "state", "img"}, indices |-> {0},
      streams |-> {1}, loads |-> BOOLEAN],
     [kinds |-> {"img", "blob", "other"}, indices |-> {0},
      streams |-> {1, 2}, loads |-> {TRUE}],
     [kinds |-> {"view", "cursor"}, indices |-> {0},
      streams |-> {}, loads |-> {}],
     [kinds |-> {"size", "paint"}, indices |-> {0, 1},
      streams |-> {}, loads |-> {}],
     [kinds |-> {"picture", "copy"}, indices |-> {0, 1},
      streams |-> {}, loads |-> {TRUE}],
     [kinds |-> {"copy", "dispose"}, indices |-> {0, -1},
      streams |-> {}, loads |-> {}],
     [kinds |-> {"paint", "picture", "dispose"}, indices |-> {1},
      streams |-> {}, loads |-> BOOLEAN],
     [kinds |-> {"move", "dispose"}, indices |-> {0, 1, 2},
      streams |-> {}, loads |-> {}]}
=============================================================================
