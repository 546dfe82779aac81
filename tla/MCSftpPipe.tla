------------------------------ MODULE MCSftpPipe ------------------------------
(* Transfers of a kind are alike and each is called once: a behaviour in     *)
(* which they are called in another order is one of these with other names.  *)
EXTENDS SftpPipe

CONSTANTS u1, u2, d1, d2

Called(o) == stage[o] # "idle"

CalledInTurn == /\ Called(u2) => Called(u1)
                /\ Called(d2) => Called(d1)
=============================================================================
