---------------------------- MODULE MCFieldCodec ----------------------------
(***************************************************************************)
(* FieldCodec for TLC: a dropdown one of whose labels is another's id, a   *)
(* plain field, a built-in, and names that clash in every way.             *)
(***************************************************************************)
EXTENDS FieldCodec, FiniteSets, TLC

CONSTANTS n1, n2, n9

MCStrings == {"Tier", "tier", "Note", "note", "Title", "title", "k1", "k2", "k3",
              "Gold", "gold", "1", "2", "9"}
MCLower == [s \in MCStrings |->
  CASE s = "Tier" -> "tier" [] s = "Note" -> "note" [] s = "Title" -> "title"
    [] s = "Gold" -> "gold" [] OTHER -> s]
MCDigits == (n1 :> "1") @@ (n2 :> "2") @@ (n9 :> "9")

Field(name, options) == [name |-> name, custom |-> TRUE, writable |-> TRUE, options |-> options]
BuiltIn(name) == [Field(name, <<>>) EXCEPT !.custom = FALSE]
ReadOnly(f) == [f EXCEPT !.writable = FALSE]
Choices == << [id |-> n1, label |-> "2"], [id |-> n2, label |-> "Gold"] >>

\* Two fields and a built-in; a field called like it; two whose names differ in
\* case, or not at all; a read-only field and one called like a built-in's key.
MCMetas == {
  ("k1" :> Field("Tier", Choices)) @@ ("k2" :> Field("Note", <<>>)) @@ ("title" :> BuiltIn("Title")),
  ("k1" :> Field("Title", Choices)) @@ ("title" :> BuiltIn("Title")),
  ("k1" :> Field("Tier", Choices)) @@ ("k2" :> Field("tier", <<>>)),
  ("k1" :> Field("Note", Choices)) @@ ("k2" :> Field("Note", <<>>)),
  ("k1" :> ReadOnly(Field("Tier", Choices))) @@ ("k2" :> Field("title", <<>>))
    @@ ("title" :> BuiltIn("Title"))}

One(a) == [list |-> FALSE, of |-> <<a>>]
Several(s) == [list |-> TRUE, of |-> s]

MCRecords == {
  << >>, "k1" :> One(n1), "k1" :> Several(<<n2, n1>>), "k1" :> Several(<<n1, n9>>), "k2" :> Null,
  "k1" :> One(n9),
  ("k1" :> One(n2)) @@ ("k2" :> One("1")), ("k1" :> One(n2)) @@ ("k3" :> One("Gold"))}

Said == {"Tier", "tier", "Title", "title", "k1", "k2", "Note", "Gold"}
Sent == {Null, One("gold"), One("2"), One(n9), One("9"), Several(<<"Gold", n1>>)}
MCWrites == UNION {[S -> Sent] : S \in {T \in SUBSET Said : Cardinality(T) \in 1..2}}
=============================================================================
