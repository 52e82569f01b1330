---------------------------- MODULE MCProjectLife ----------------------------
(***************************************************************************)
(* TLC instances of ProjectLife: which requests the clients send.           *)
(***************************************************************************)
EXTENDS ProjectLife

\* Every kind of request the modules of this composition handle.
AllKinds == RequestKind \ {"send", "register", "login", "refresh", "logout"}
EditKinds == {"edit_project", "create_item"}
=============================================================================
