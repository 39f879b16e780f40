---------------------------- MODULE SigmaCatalog ----------------------------
(***************************************************************************)
(* The sigma server implements Catalog: with the kernel, the disk images,  *)
(* StateMutex and ReconcileAll hidden, every step of Sigma is a step of    *)
(* the catalog or changes nothing of it.                                   *)
(***************************************************************************)
EXTENDS Sigma

\* A State as a memory of the catalog.
MemoryOf(s) ==
    [top   |-> s.MaxLUNID,
     thing |-> [k \in Ids \X Ids |->
                  IF k[2] # 0 THEN s.vols[k]
                  ELSE IF HasPool(s, k[1]) THEN [name |-> s.pools[k[1]], size |-> 0]
                  ELSE NoVolume]]

\* What a boot could load: a booting process has it in memory already.
KeptStates == IF server = "booting" THEN {MemoryOf(st)}
              ELSE IF file.kind = "torn" THEN {} ELSE {MemoryOf(file.st)}

C == INSTANCE Catalog WITH
        Things  <- Volume,
        Nothing <- NoVolume,
        serving <- server = "up",
        mem     <- MemoryOf(IF server = "up" THEN st ELSE EmptyState),
        kept    <- KeptStates,
        told    <- acked

\* Each call has one effect, on the pool or volume it is about and not on one
\* that is there already; it happens at once, is saved before the reply, and a
\* restart brings back what was saved last. ReconcileAll, calls that fail
\* before their effect, and boots that fail have none.
ImplementsCatalog == C!Spec

\* What the mapping rests on: a process that boots has read what is in the
\* file, until it truncates the file to save; and CreateVolume is still about a
\* volume that is not there when it comes to put it into the state.
BootsFromFile == server = "booting" => file.kind = "torn" \/ file.st = st
CreatesNew == \A h \in Handlers : LET c == call[h] IN
    (c.op = "CreateVolume" /\ c.pc \in {"store", "lun"}) => ~HasVolume(st, c.pool, c.vol)
=============================================================================
