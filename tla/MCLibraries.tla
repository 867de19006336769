---------------------------- MODULE MCLibraries -----------------------------
(* Path and Values, which have nothing to do with each other, in one run.  *)
EXTENDS Path, Values

\* What scripts send: scalars, bytes, flat arrays and objects, and those within others.
Leaf(kind, content) == [a \in {<<>>} |-> Node(kind, content)]
Holder(kind, items) == [ArrayOf(items) EXCEPT ![<<>>].kind = kind]
Bytes(kind, n) == Holder(kind, [i \in 1 .. n |-> Leaf("byte", "1")])

Scalars == {Leaf("undefined", ""), Leaf("null", ""), Leaf("boolean", "false"),
            Leaf("number", "1"), Leaf("number", "NaN"), Leaf("number", "Infinity"),
            Leaf("string", "pair"), Leaf("string", "char"), Leaf("string", "lone"),
            Leaf("function", ""), Holder("function", <<Leaf("null", "")>>),
            Bytes("bytes", 0), Bytes("bytes", 3), Bytes("buffer", 1)}
Flat == UNION {{Holder(kind, s) : s \in [1 .. n -> Scalars]} :
                 kind \in {"array", "object"}, n \in 0 .. 2}
        \cup {Holder(kind, <<x, x, x>>) : kind \in {"array", "object"}, x \in Scalars}
MCRecoded == [text \in {"pair"} |-> "char"]
MCSendable == Scalars \cup Flat \cup {Holder("array", <<x>>) : x \in Flat}
              \cup {Holder("object", <<x>>) : x \in Flat}

NoValue == /\ vm = "none" /\ route = "result" /\ sent = Null /\ echo = {}
           /\ at = "none" /\ value = Null

LibrariesInit == \/ PathInit /\ NoValue
                 \/ ValueInit /\ one = Root /\ other = Root

LibrariesNext == \/ PathNext /\ UNCHANGED valueVars
                 \/ ValueNext /\ UNCHANGED pathVars
=============================================================================
