------------------------------ MODULE FieldGuard ------------------------------
(***************************************************************************)
(* The pure half of the guarded write (internal/tools/guard.go): the field *)
(* table, the diff and the overwrite guard.                                *)
(*                                                                         *)
(* A record is what the table's projections make of it: a value per field, *)
(* Blank for one that holds nothing.  A request is a function whose domain *)
(* is the fields it sets.  Two fields may share a name, since a custom     *)
(* field is called what the workspace calls it.                            *)
(***************************************************************************)

CONSTANTS
  BaseFields,    \* the resource's own field table
  CustomFields,  \* the workspace's custom fields, by key
  Values,        \* projected values
  Blank,         \* the projection "" of a field that holds nothing
  Names,         \* the names a caller sees
  NameOf         \* NameOf[f]: the name of field f, fieldSpec.Name

Fields == BaseFields \cup CustomFields

ASSUME BlankAssumption == Blank \in Values
ASSUME NameOfAssumption == NameOf \in [Fields -> Names]

Records == [Fields -> Values]

\* Slip: the custom fields of the write left out of the table.
BaseTable(req) == BaseFields

\* spec: the base table and the custom fields this write names.
Table(req) == BaseFields \cup DOMAIN req

\* changedFields.
ChangedNames(table, before, after) ==
  {NameOf[f] : f \in {g \in table : before[g] # after[g]}}

\* populatedFields: every entry that has one of the names and a value.
PopulatedNames(table, r, names) ==
  {NameOf[f] : f \in {g \in table : NameOf[g] \in names /\ r[g] # Blank}}

\* Slip: one acknowledged field taken as acknowledging the write.
PermittedByAny(table, before, changed, overwrite, all) ==
  \/ all
  \/ PopulatedNames(table, before, changed) = {}
  \/ overwrite # {}

\* requireOverwrite: a transition permits itself, any other write needs every
\* field it would replace named.
Permitted(table, before, changed, overwrite, all) ==
  all \/ PopulatedNames(table, before, changed) \subseteq overwrite

\* predict: what the request sets, over the record as it was read.
Predict(r, req) == [f \in Fields |-> IF f \in DOMAIN req THEN req[f] ELSE r[f]]
=============================================================================
