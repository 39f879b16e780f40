------------------------------ MODULE Catalog ------------------------------
(***************************************************************************)
(* What the sigma server promises its clients, without the kernel, the     *)
(* goroutines and the steps of a call: a catalog of pools and volumes that *)
(* changes one pool or volume at a time, is saved before the client is     *)
(* told, and comes back after a restart as it was saved last.              *)
(*                                                                         *)
(* Key <<p, 0>> is pool p, key <<p, v>> volume v of pool p: 0 is reserved. *)
(* Sigma implements this specification step by step; Registry (the server  *)
(* as the Kubernetes provisioner sees it) does too, with coarser steps: a  *)
(* change can be saved, or the save go wrong, in the step that makes it.   *)
(***************************************************************************)
EXTENDS Integers

CONSTANTS
    Ids,        \* of pools and of volumes
    Things,     \* what there is to know of a pool or volume
    Nothing     \* of one that is not there

\* What the theorems of CatalogProofs ask of them.
CatalogAssumption == Ids \subseteq Nat /\ 0 \in Ids

VARIABLES
    serving,    \* whether a server is up
    mem,        \* its memory
    kept,       \* what a boot could load: one memory, or none any more
    told        \* what clients were told of a key last

vars == <<serving, mem, kept, told>>

Keys   == Ids \X Ids
Memory == [top : Ids,                               \* the highest id given out
           thing : [Keys -> Things \cup {Nothing}]]
Empty  == [top |-> 0, thing |-> [k \in Keys |-> Nothing]]

Has(m, k) == m.thing[k] # Nothing
Of(k)     == IF k[2] = 0 THEN {k[1]} \X Ids ELSE {k}
Status(k) == IF Has(mem, k) THEN "present" ELSE "absent"

\* Every volume has a pool, and an id that was given out.
WellNumbered(m) == \A k \in Keys :
    (k[2] # 0 /\ Has(m, k)) => Has(m, <<k[1], 0>>) /\ k[2] <= m.top

-----------------------------------------------------------------------------
\* What is not there is made: a volume in a pool that is there, under an id
\* that was given out, and nothing else is touched.
Create(k) ==
    /\ serving /\ ~Has(mem, k) /\ Has(mem', k)
    /\ \A j \in Keys \ {k} : mem'.thing[j] = mem.thing[j]
    /\ mem.top <= mem'.top /\ mem' \in Memory
    /\ k[2] # 0 => Has(mem, <<k[1], 0>>) /\ k[2] <= mem'.top
    /\ told' = [told EXCEPT ![k] = "unknown"]
    /\ kept' \in {kept, {mem'}, {}}
    /\ UNCHANGED serving

\* A pool goes with its volumes, a volume alone.
Delete(k) ==
    /\ serving
    /\ \A j \in Keys : mem'.thing[j] = IF j \in Of(k) THEN Nothing ELSE mem.thing[j]
    /\ mem'.top = mem.top /\ mem' \in Memory
    /\ told' = [j \in Keys |-> IF j \in Of(k) THEN "unknown" ELSE told[j]]
    /\ kept' \in {kept, {mem'}, {}}
    /\ UNCHANGED serving

\* An id is given out.
Count ==
    /\ serving
    /\ mem' \in Memory /\ mem'.thing = mem.thing /\ mem.top < mem'.top
    /\ UNCHANGED <<serving, kept, told>>

\* The memory is saved; after that clients may be told what is in it.
Save ==
    /\ serving /\ kept' = {mem}
    /\ told' \in [Keys -> {"unknown", "present", "absent"}]
    /\ \A k \in Keys : told'[k] \in {told[k], Status(k)}
    /\ UNCHANGED <<serving, mem>>

\* A save that is not finished leaves nothing to load.
Lose == kept' = {} /\ UNCHANGED <<serving, mem, told>>

Stop  == /\ serving /\ serving' = FALSE /\ mem' = Empty
         /\ UNCHANGED <<kept, told>>

Start == /\ serving' = TRUE /\ mem' \in kept
         /\ UNCHANGED <<kept, told>>

-----------------------------------------------------------------------------
Init == /\ serving \in BOOLEAN
        /\ \E m \in kept : /\ kept = {m} /\ m \in Memory /\ WellNumbered(m)
                           /\ mem = IF serving THEN m ELSE Empty
        /\ told = [k \in Keys |-> "unknown"]

Next == \/ \E k \in Keys : Create(k) \/ Delete(k)
        \/ Count \/ Save \/ Lose \/ Stop \/ Start

Spec == Init /\ [][Next]_vars

-----------------------------------------------------------------------------
\* What clients were told holds in every server that is up, and would in the
\* next one.
Agrees(m) == \A k \in Keys : /\ told[k] = "present" => Has(m, k)
                             /\ told[k] = "absent"  => ~Has(m, k)

TypeOK == /\ serving \in BOOLEAN /\ mem \in Memory /\ kept \in SUBSET Memory
          /\ told \in [Keys -> {"unknown", "present", "absent"}]

Promise == /\ serving => Agrees(mem) /\ WellNumbered(mem)
           /\ \A m \in kept : Agrees(m) /\ WellNumbered(m)
=============================================================================
