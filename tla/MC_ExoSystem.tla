---------------------------- MODULE MC_ExoSystem ----------------------------
(* ExoSystem instantiated for TLC: slot 0, the activation slot, and one    *)
(* user slot whose roles each configuration chooses.                       *)
EXTENDS ExoSystem

CONSTANTS t1, t2, k1, k2

MCSlots == 0..1
MCUserSlots == {1}
MCRoleRW == [s \in MCUserSlots |-> {"Read", "Write"}]
MCRoleSub == [s \in MCUserSlots |-> {"Subscribe"}]
MCRoleAll == [s \in MCUserSlots |-> {"Read", "Write", "Subscribe"}]
MCRoleNone == [s \in MCUserSlots |-> {}]
MCTokens == {t1}
MCKeys1 == {k1}
MCKeys2 == {k1, k2}
MCAnyLoss == -1   \* the network may lose any number of datagrams
=============================================================================
