------------------------------- MODULE MCPaging -------------------------------
(***************************************************************************)
(* Paging for TLC: four records of three types, one of them not made yet,  *)
(* in pages of one or two, and the questions that differ in what becomes   *)
(* of a read: each tool, each filter and each order once.                  *)
(***************************************************************************)
EXTENDS Paging

MCTypeOf == [id \in Ids |->
  CASE id = 2 -> "organization" [] id = 3 -> "deal" [] OTHER -> "person"]

Trait(owner, closed, archived) == [owner |-> owner, closed |-> closed, archived |-> archived]
Fresh == Trait(1, FALSE, FALSE)
MCTraits == {Fresh, Trait(1, TRUE, FALSE), Trait(2, FALSE, TRUE)}

MCWorlds == {
  [rank |-> <<1, 3, 2, 0>>, due |-> <<5, 3, 7, 1>>, dead |-> {},
   traits |-> <<Trait(1, TRUE, FALSE), Fresh, Fresh, Fresh>>],
  [rank |-> <<3, 1, 4, 2>>, due |-> <<1, 7, 3, 5>>, dead |-> {4},
   traits |-> <<Trait(2, FALSE, TRUE), Fresh, Trait(1, TRUE, FALSE), Fresh>>]}

Plain(tool) == [tool |-> tool, owner |-> 0, status |-> "", archived |-> FALSE,
                since |-> 0, until |-> 0, sortBy |-> "", sortDirection |-> ""]
MCQuestions == {
  Plain("list_deals"),
  [Plain("list_deals") EXCEPT !.archived = TRUE, !.sortBy = "id"],
  [Plain("list_deals") EXCEPT !.status = "deleted", !.sortBy = "add_time"],
  [Plain("list_persons") EXCEPT !.owner = 1, !.sortDirection = "asc"],
  [Plain("list_organizations") EXCEPT !.until = 3, !.sortBy = "id", !.sortDirection = "desc"],
  [Plain("list_activities") EXCEPT !.status = "all", !.since = 2, !.sortBy = "update_time"],
  [Plain("list_activities") EXCEPT !.status = "done", !.sortBy = "due_date",
                                   !.sortDirection = "desc"],
  [Plain("list_activities") EXCEPT !.status = "open", !.sortBy = "due_date"],
  [Plain("list_activities") EXCEPT !.status = "won"],
  Plain("list_notes"), [Plain("list_notes") EXCEPT !.sortBy = "due_date"],
  [Plain("list_notes") EXCEPT !.sortDirection = "asc"],
  Plain("search")}
=============================================================================
