--------------------------- MODULE CatalogProofs ---------------------------
(***************************************************************************)
(* The catalog keeps its promise, for any ids and things: what clients     *)
(* were told holds in memory and in whatever a boot could load.  Every     *)
(* specification that implements Catalog keeps it too.                     *)
(***************************************************************************)
EXTENDS Catalog, TLAPS

\* The inductive invariant: the promise itself, with the types, and that a
\* server that is down has nothing in memory.
IInv == TypeOK /\ Promise /\ (serving \/ mem = Empty)

-----------------------------------------------------------------------------
\* Ids are numbers, of which 0 is one.
LEMMA IdFacts == ASSUME CatalogAssumption PROVE 0 \in Ids /\ \A i \in Ids : i \in Int
BY DEF CatalogAssumption

\* Keys are pairs of numbers, and every key has its pool's.
LEMMA KeyFacts == ASSUME CatalogAssumption PROVE \A k \in Keys : k[2] \in Int /\ <<k[1], 0>> \in Keys
BY IdFacts DEF Keys

\* The empty memory is a memory, of which nothing needs to hold.
LEMMA EmptyType == ASSUME CatalogAssumption PROVE Empty \in Memory
BY IdFacts DEF Empty, Memory

\* What is made is numbered, and only its own key is forgotten.
LEMMA CreateStep == ASSUME CatalogAssumption, IInv, NEW k \in Keys, Create(k) PROVE IInv'
<1>1. /\ serving /\ serving' = serving /\ mem' \in Memory
      /\ told' = [told EXCEPT ![k] = "unknown"] /\ kept' \in {kept, {mem'}, {}}
      /\ Agrees(mem) /\ WellNumbered(mem) /\ \A m \in kept : Agrees(m) /\ WellNumbered(m)
  BY DEF Create, IInv, Promise
<1>2. TypeOK'
  BY <1>1 DEF IInv, TypeOK
<1>3. \A j \in Keys : told'[j] = IF j = k THEN "unknown" ELSE told[j]
  BY <1>1 DEF IInv, TypeOK
<1>4. Agrees(mem)'
  <2>1. \A j \in Keys \ {k} : mem'.thing[j] = mem.thing[j]
    BY DEF Create
  <2> QED BY <1>1, <1>3, <2>1 DEF Agrees, Has
<1>5. WellNumbered(mem')
  <2>1. /\ \A j \in Keys \ {k} : mem'.thing[j] = mem.thing[j]
        /\ mem.top <= mem'.top /\ ~Has(mem, k) /\ Has(mem', k)
        /\ k[2] # 0 => Has(mem, <<k[1], 0>>) /\ k[2] <= mem'.top
    BY DEF Create
  <2>2. mem.top \in Int /\ mem'.top \in Int
    BY <1>1, IdFacts DEF IInv, TypeOK, Memory
  <2>3. ASSUME NEW j \in Keys, j[2] # 0, Has(mem', j)
        PROVE  Has(mem', <<j[1], 0>>) /\ j[2] <= mem'.top
    <3>1. CASE j = k
      <4>1. Has(mem, <<k[1], 0>>) /\ <<k[1], 0>> # k
        BY <2>1, <2>3, <3>1
      <4>2. <<k[1], 0>> \in Keys \ {k}
        BY <4>1, KeyFacts
      <4> QED BY <2>1, <2>3, <3>1, <4>1, <4>2 DEF Has
    <3>2. CASE j # k
      <4>1. Has(mem, j)
        BY <2>1, <2>3, <3>2 DEF Has
      <4>2. Has(mem, <<j[1], 0>>) /\ j[2] <= mem.top
        BY <1>1, <2>3, <4>1 DEF WellNumbered
      <4>3. Has(mem', <<j[1], 0>>)
        BY <2>1, <2>2, <4>2, KeyFacts DEF Has
      <4> QED BY <2>1, <2>2, <4>2, <4>3, KeyFacts
    <3> QED BY <3>1, <3>2
  <2> QED BY <2>3 DEF WellNumbered
<1>6. \A m \in kept' : Agrees(m)' /\ WellNumbered(m)
  <2>1. ASSUME NEW m \in kept PROVE Agrees(m)'
    BY <1>1, <1>3, <2>1 DEF Agrees
  <2> QED BY <1>1, <1>4, <1>5, <2>1 DEF Agrees
<1> QED BY <1>1, <1>2, <1>4, <1>5, <1>6 DEF IInv, Promise

\* A pool goes with its volumes: what stays is numbered as before.
LEMMA DeleteStep == ASSUME CatalogAssumption, IInv, NEW k \in Keys, Delete(k) PROVE IInv'
<1>1. /\ serving /\ serving' = serving /\ mem' \in Memory /\ mem'.top = mem.top
      /\ kept' \in {kept, {mem'}, {}}
      /\ Agrees(mem) /\ WellNumbered(mem) /\ \A m \in kept : Agrees(m) /\ WellNumbered(m)
  BY DEF Delete, IInv, Promise
<1>2. \A j \in Keys : /\ mem'.thing[j] = (IF j \in Of(k) THEN Nothing ELSE mem.thing[j])
                       /\ told'[j] = (IF j \in Of(k) THEN "unknown" ELSE told[j])
  BY DEF Delete
<1>3. TypeOK'
  <2>1. told' \in [Keys -> {"unknown", "present", "absent"}]
    BY DEF Delete, IInv, TypeOK
  <2> QED BY <1>1, <2>1 DEF IInv, TypeOK
<1>4. Agrees(mem)'
  BY <1>1, <1>2 DEF Agrees, Has
<1>5. WellNumbered(mem')
  <2>1. ASSUME NEW j \in Keys, j[2] # 0, Has(mem', j)
        PROVE  Has(mem', <<j[1], 0>>) /\ j[2] <= mem'.top
    <3>1. Has(mem, j) /\ j \notin Of(k)
      BY <1>2, <2>1 DEF Has
    <3>2. Has(mem, <<j[1], 0>>) /\ j[2] <= mem.top /\ <<j[1], 0>> \in Keys
      BY <1>1, <2>1, <3>1, KeyFacts DEF WellNumbered
    <3>3. <<j[1], 0>> \notin Of(k)
      <4>1. CASE k[2] = 0
        BY <4>1, <3>1 DEF Of, Keys
      <4>2. CASE k[2] # 0
        BY <4>2, <3>1 DEF Of, Keys
      <4> QED BY <4>1, <4>2
    <3> QED BY <1>1, <1>2, <3>2, <3>3 DEF Has
  <2> QED BY <2>1 DEF WellNumbered
<1>6. \A m \in kept' : Agrees(m)' /\ WellNumbered(m)
  <2>1. ASSUME NEW m \in kept PROVE Agrees(m)'
    BY <1>1, <1>2, <2>1 DEF Agrees
  <2> QED BY <1>1, <1>4, <1>5, <2>1 DEF Agrees
<1> QED BY <1>1, <1>3, <1>4, <1>5, <1>6 DEF IInv, Promise

\* An id given out makes room, and changes nothing that is there.
LEMMA CountStep == ASSUME CatalogAssumption, IInv, Count PROVE IInv'
<1>1. /\ serving /\ mem' \in Memory /\ mem'.thing = mem.thing /\ mem.top < mem'.top
      /\ UNCHANGED <<serving, kept, told>>
      /\ Agrees(mem) /\ WellNumbered(mem) /\ \A m \in kept : Agrees(m) /\ WellNumbered(m)
  BY DEF Count, IInv, Promise
<1>2. mem.top \in Int /\ mem'.top \in Int
  BY <1>1, IdFacts DEF IInv, TypeOK, Memory
<1>3. Agrees(mem)' /\ \A m \in kept' : Agrees(m)'
  BY <1>1 DEF Agrees, Has
<1>4. WellNumbered(mem')
  BY <1>1, <1>2, KeyFacts DEF WellNumbered, Has
<1> QED BY <1>1, <1>3, <1>4 DEF IInv, TypeOK, Promise

\* A save makes a boot find what clients may be told now.
LEMMA SaveStep == ASSUME CatalogAssumption, IInv, Save PROVE IInv'
<1>1. /\ serving /\ kept' = {mem} /\ UNCHANGED <<serving, mem>>
      /\ Agrees(mem) /\ WellNumbered(mem) /\ mem \in Memory
      /\ told' \in [Keys -> {"unknown", "present", "absent"}]
  BY DEF Save, IInv, TypeOK, Promise
<1>2. Agrees(mem)'
  <2>1. \A k \in Keys : told'[k] = told[k] \/ told'[k] = Status(k)
    BY DEF Save
  <2>2. \A k \in Keys : /\ Status(k) = "present" => Has(mem, k)
                        /\ Status(k) = "absent" => ~Has(mem, k)
    BY DEF Status
  <2>3. ASSUME NEW k \in Keys
        PROVE  /\ told'[k] = "present" => Has(mem, k)
               /\ told'[k] = "absent" => ~Has(mem, k)
    <3>1. CASE told'[k] = told[k]
      BY <1>1, <3>1 DEF Agrees
    <3>2. CASE told'[k] = Status(k)
      BY <2>2, <3>2
    <3> QED BY <2>1, <3>1, <3>2
  <2>4. mem' = mem
    BY <1>1
  <2> QED BY <2>3, <2>4 DEF Agrees
<1>3. \A m \in kept' : Agrees(m)' /\ WellNumbered(m)
  BY <1>1, <1>2 DEF Agrees
<1> QED BY <1>1, <1>2, <1>3 DEF IInv, TypeOK, Promise

\* A torn file promises nothing, and a process that ends takes only its memory
\* with it; the next one has what was kept.
LEMMA ProcessStep == ASSUME CatalogAssumption, IInv, Lose \/ Stop \/ Start PROVE IInv'
<1>1. CASE Lose
  BY <1>1 DEF Lose, IInv, TypeOK, Promise, Agrees
<1>2. CASE Stop
  BY <1>2, EmptyType DEF Stop, IInv, TypeOK, Promise, Agrees
<1>3. CASE Start
  BY <1>3 DEF Start, IInv, TypeOK, Promise, Agrees
<1> QED BY <1>1, <1>2, <1>3

-----------------------------------------------------------------------------
\* At first clients were told nothing.
LEMMA InitIInv == ASSUME CatalogAssumption, Init PROVE IInv
<1>1. PICK m \in kept : /\ kept = {m} /\ m \in Memory /\ WellNumbered(m)
                        /\ mem = IF serving THEN m ELSE Empty
  BY DEF Init
<1>2. \A k \in Keys : told[k] = "unknown"
  BY DEF Init
<1>3. TypeOK
  BY <1>1, EmptyType DEF Init, TypeOK
<1> QED BY <1>1, <1>2, <1>3 DEF IInv, Promise, Agrees

\* Every step, stuttering ones too, keeps the invariant.
LEMMA NextIInv == ASSUME CatalogAssumption, IInv, [Next]_vars PROVE IInv'
<1>1. ASSUME IInv, UNCHANGED vars PROVE IInv'
  BY <1>1 DEF vars, IInv, TypeOK, Promise, Agrees
<1> QED BY <1>1, CreateStep, DeleteStep, CountStep, SaveStep, ProcessStep DEF Next

\* Every variable of the catalog keeps its type.
THEOREM CatalogTypes == ASSUME CatalogAssumption PROVE Spec => []TypeOK
<1>1. Init => IInv
  BY InitIInv
<1>2. IInv /\ [Next]_vars => IInv'
  BY NextIInv
<1>3. IInv => TypeOK
  BY DEF IInv
<1> QED BY <1>1, <1>2, <1>3, PTL DEF Spec

\* What clients were told holds in the memory of a server that is up and in all
\* that a boot could load, and both are well numbered: the promise of sigma.go's
\* SaveState before every OK, without any of its kernel, locks or goroutines.
THEOREM CatalogPromise == ASSUME CatalogAssumption PROVE Spec => []Promise
<1>1. Init => IInv
  BY InitIInv
<1>2. IInv /\ [Next]_vars => IInv'
  BY NextIInv
<1>3. IInv => Promise
  BY DEF IInv
<1> QED BY <1>1, <1>2, <1>3, PTL DEF Spec
=============================================================================
