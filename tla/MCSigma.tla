------------------------------- MODULE MCSigma -------------------------------
(***************************************************************************)
(* Instances of Sigma for TLC.  Ids and names share the numbers 0..MaxU16  *)
(* (digits sort before letters), names above MaxU16 are the ones clients   *)
(* choose.                                                                 *)
(***************************************************************************)
EXTENDS SigmaCatalog, TLC

MCNames       == 0..(MaxU16 + 2)
MCDecimalName == [i \in Ids |-> i]

\* One path for every pair of names that a run can use, the decimal ones and the
\* chosen ones; 0 for the others.
InUse(n)   == n \in 1..MaxU16 \cup NameArgs
MCDiskPath == [k \in Names \X Names |->
                 IF InUse(k[1]) /\ InUse(k[2]) THEN 1 + 10 * k[1] + k[2] ELSE 0]
MCPaths    == {MCDiskPath[k] : k \in Names \X Names}

Symmetry == Permutations(Handlers)
=============================================================================
