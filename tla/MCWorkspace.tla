----------------------------- MODULE MCWorkspace -----------------------------
(***************************************************************************)
(* Workspace for TLC: two workspaces with a token each, a token neither    *)
(* accepts, and commands with and without a domain of their own.           *)
(***************************************************************************)
EXTENDS Workspace, TLC

CONSTANTS d1, d2, t1, t2

MCAccepted == {<<d1, t1>>, <<d2, t2>>}

LoginTo(d, t) == [cmd |-> "login", domain |-> d, token |-> t]
LogoutOf(d) == [cmd |-> "logout", domain |-> d, token |-> None]
Serve(d, t) == [cmd |-> "serve", domain |-> d, token |-> t]

MCOrders == {
  LoginTo(d1, t1), LoginTo(d2, t2), LoginTo(d1, t2),
  LogoutOf(d1), LogoutOf(None),
  Serve(None, None), Serve(d2, None), Serve(None, t1)}
Symmetry == Permutations(Processes)
=============================================================================
