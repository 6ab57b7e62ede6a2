---------------------------- MODULE MCAdminConsole ----------------------------
(***************************************************************************)
(* A file with one administrator, who may add a second user and a column,  *)
(* and somebody else who changes the administrator's password meanwhile.   *)
(***************************************************************************)
EXTENDS AdminConsole, TLC

CONSTANTS demo, ann, pw1, pw2, team

MCInitialDoc == [rows |-> demo :> [hash |-> pw1, cells |-> {}], columns |-> {}, by |-> {}]
MCTyped == {LoginRequest(0, demo, pw1), CreateUserRequest(0, ann, pw1), AddColumnRequest(0, team),
            Plain("query", 0), Plain("profile", 0)}
MCOutside == {ChangePasswordRequest(1, pw1, pw2)}

Symmetry == Permutations(Call)
=============================================================================
