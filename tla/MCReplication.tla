---------------------------- MODULE MCReplication ----------------------------
EXTENDS Replication, TLC

MCInitial == [k \in Keys |-> CHOOSE v \in Vals : TRUE]

\* Targets up to one past all ids, which stands for any higher one.
EveryTarget == 1..(MaxUpdates + 1)
LastTarget  == {MaxUpdates + 1}

\* A batch of StateMapModifier may be committed without a set.
AnyBatch == Contents

Symmetry == Permutations(Slaves)
=============================================================================
