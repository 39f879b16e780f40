------------------------------- MODULE MCPlay -------------------------------
(***************************************************************************)
(* An instance of Play for TLC: an empty system, or one that a sigma       *)
(* server of the same machine has set up.  Its volume 2 is in the HBA of   *)
(* PlayUp's backstore, its IQN 1 has two portal groups.                    *)
(***************************************************************************)
EXTENDS Play, TLC

T(p) == [id |-> p, name |-> 1]
SigmaCfs == [iqns |-> {1}, tpgs |-> {T(1), T(2)}, portals |-> {<<T(1), OwnPortal>>},
             luns |-> {<<T(1), 1>>, <<T(1), 2>>}, links |-> {<<T(1), 2, 2, 2>>},
             stores |-> {[id |-> 2, name |-> 2, path |-> 2, size |-> 1]}]
NoDisk  == [q \in Paths |-> NoFile]
MCBefore == {[cfs |-> EmptyCfs, hbas |-> {}, disk |-> NoDisk],
             [cfs |-> SigmaCfs, hbas |-> {1, 2},
              disk |-> [NoDisk EXCEPT ![2] = [size |-> 1, data |-> TRUE]]]}
=============================================================================
