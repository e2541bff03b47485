-------------------------- MODULE MCNodeUpgradeGate --------------------------
(* Small instances of NodeUpgradeGate.                                     *)
EXTENDS NodeUpgradeGate, TLC

CONSTANTS h1, h2, h3, g1, g2, f1, f2

Alike == Permutations({g1, g2}) \cup Permutations({f1, f2})

(* A Confirm, or its Recover, that was overtaken.                          *)
Overtaken ==
    {g \in Gate : \/ g \in confirming /\ gate[g].state # "PREPARED"
                  \/ gate[g].state = "RECOVERING" /\ lock # g}

(* One gate at a time has been overtaken, left to the operators or cheated *)
(* by a command that took effect and raised; the other goes well.  Once    *)
(* both are there, the operators have set one flag at most.                *)
OneInDifficulty ==
    /\ \A g, h \in Overtaken \cup stuck \cup lost : g = h
    /\ (\A g \in Gate : gate[g].state # "ABSENT")
         => \A e, f \in Flag : setter[e] = Operator /\ setter[f] = Operator
                                 => e = f
=============================================================================
