------------------------------ MODULE MCUserAuth ------------------------------
(* A model-checking instance of UserAuth: an administrator's role and a plain *)
(* user's, and two names, one of which is given and taken again.              *)
EXTENDS UserAuth

CONSTANTS admin, plain, root, n1

RoleCan == [r \in Roles |-> IF r = admin THEN Kinds ELSE {}]

=============================================================================
