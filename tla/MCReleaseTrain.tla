---------------------------- MODULE MCReleaseTrain ----------------------------
(* One tool with a field a, which may be an object with a field a.b, in and
   out, and one resource template, over two pull requests and a release. *)
EXTENDS ReleaseTrain, TLC

MCItems == {"t", "u"}
MCListOf == [i \in MCItems |-> IF i = "t" THEN "tools" ELSE "resource_templates"]
MCPaths == {"a", "a.b"}
MCParent == [f \in MCPaths |-> IF f = "a" THEN "" ELSE "a"]

Field(types, enum) == [types |-> types, enum |-> enum]
Side(types, enum, required) == [fields |-> [f \in {"a"} |-> Field(types, enum)], required |-> required]
Nested(required) ==
  [fields |-> [f \in {"a", "a.b"} |-> Field(IF f = "a" THEN {"object"} ELSE {"string"}, Unlisted)],
   required |-> required]
Nothing == [fields |-> [f \in {} |-> Field({}, Unlisted)], required |-> {}]

Ins == {Side(ts, Unlisted, {}) : ts \in {{"string"}, {"string", "null"}, AnyType}}
       \cup {Side({"string"}, vs, {}) : vs \in {{"x"}, {"x", "y"}}}
       \cup {Side({"string"}, Unlisted, {"a"}), Nested({}), Nested({"a.b"}), Nothing}
Outs == {Side(ts, Unlisted, {"a"}) : ts \in {{"integer"}, {"number"}, {"integer", "null"}}}
        \cup {Side({"string"}, vs, {"a"}) : vs \in {{"x"}, {"x", "y"}}}
        \cup {Side({"integer"}, Unlisted, {}), Nothing}

In0 == Side({"string"}, Unlisted, {})
Out0 == Side({"integer"}, Unlisted, {"a"})
Tool(ins, outs, text) == [inputs |-> ins, outputs |-> outs, text |-> text]

MCFirst == [i \in MCItems |-> IF i = "t" THEN Tool(In0, Out0, 1) ELSE Tool(Nothing, Nothing, 1)]
MCChanges ==
  {[item |-> "t", to |-> {Tool(ins, Out0, 1)}] : ins \in Ins}
  \cup {[item |-> "t", to |-> {Tool(In0, outs, 1)}] : outs \in Outs}
  \cup {[item |-> "t", to |-> {Tool(In0, Out0, 2)}], [item |-> "t", to |-> {}],
        [item |-> "u", to |-> {Tool(Nothing, Nothing, 2)}], [item |-> "u", to |-> {}]}

MCDrafts ==
  {Silent,
   [where |-> "unreleased", tokens |-> {"BREAKING-CHANGE"}, ref |-> FALSE],
   [where |-> "shipped", tokens |-> {"BREAKING CHANGE"}, ref |-> TRUE],
   [where |-> "cut", tokens |-> {"breaking change"}, ref |-> FALSE],
   [where |-> "none", tokens |-> {"schema-change"}, ref |-> FALSE]}

Symmetry == Permutations(PRs)
=============================================================================
