----------------------------- MODULE PlayProofs -----------------------------
(***************************************************************************)
(* What play-up and play-down leave behind, proved for any number of       *)
(* processes, names, images and portals and whatever there was before.     *)
(***************************************************************************)
EXTENDS Play, LioProofs

USE LioAssumption, PlayAssumption

-----------------------------------------------------------------------------
(* How a process goes on                                                    *)

LEMMA RunAtIs ==
  ASSUME NEW pc
  PROVE  /\ RunAt(pc).pc = pc /\ RunAt(pc).iqns = {} /\ RunAt(pc).tpgs = {}
         /\ RunAt(pc).hbas = {} /\ RunAt(pc).imgs = {}
BY DEF RunAt

LEMMA RunAtType ==
  ASSUME NEW pc \in Ended \cup {"create", "list", "iqn", "tpg", "hba", "img"}
  PROVE  RunAt(pc) \in Run
BY DEF RunAt, Run, Ended

\* One visit further.
LEMMA NextIs ==
  ASSUME NEW x, run[x] \in Run
  PROVE  /\ NextIQN(x) \in Run /\ NextIQN(x).pc = "iqn"
         /\ NextIQN(x).iqns = run[x].iqns \ {Iqn(x)}
         /\ NextTpg(x) \in Run /\ NextTpg(x).pc = "tpg" /\ NextTpg(x).iqns = run[x].iqns
         /\ NextTpg(x).tpgs = run[x].tpgs \ {Tpg(x)}
         /\ NextLUN(x) \in Run /\ NextLUN(x).pc = "luns" /\ NextLUN(x).iqns = run[x].iqns
         /\ NextLUN(x).tpgs = run[x].tpgs /\ NextLUN(x).luns = run[x].luns \ {Lun(x)}
         /\ NextHBA(x) \in Run /\ NextHBA(x).pc = "hba"
         /\ NextHBA(x).hbas = run[x].hbas \ {Hba(x)}
<1>1. /\ NextIQN(x) \in Run /\ NextIQN(x).pc = "iqn"
      /\ NextIQN(x).iqns = run[x].iqns \ {Iqn(x)}
  BY DEF NextIQN, RunAt, Run, Ended
<1>2. /\ NextTpg(x) \in Run /\ NextTpg(x).pc = "tpg" /\ NextTpg(x).iqns = run[x].iqns
      /\ NextTpg(x).tpgs = run[x].tpgs \ {Tpg(x)}
  BY DEF NextTpg, RunAt, Run, Ended
<1>3. /\ NextLUN(x) \in Run /\ NextLUN(x).pc = "luns" /\ NextLUN(x).iqns = run[x].iqns
      /\ NextLUN(x).tpgs = run[x].tpgs /\ NextLUN(x).luns = run[x].luns \ {Lun(x)}
  BY DEF NextLUN, Run
<1>4. /\ NextHBA(x) \in Run /\ NextHBA(x).pc = "hba"
      /\ NextHBA(x).hbas = run[x].hbas \ {Hba(x)}
  BY DEF NextHBA, RunAt, Run, Ended
<1> QED BY <1>1, <1>2, <1>3, <1>4

LEMMA GotoIs ==
  ASSUME run \in [Procs -> Run], NEW x \in Procs, NEW r, Goto(x, r)
  PROVE  run'[x] = r /\ (r \in Run => run' \in [Procs -> Run])
BY DEF Goto

UpPoints == {"store", "control", "enable", "target", "lun", "link", "enable tpg",
             "portal", "attributes", "up ok", "up failed"}

LEMMA JumpIs ==
  ASSUME run \in [Procs -> Run], NEW x \in Procs, NEW pc, Jump(x, pc)
  PROVE  /\ run'[x] = [run[x] EXCEPT !.pc = pc] /\ run'[x].pc = pc
         /\ pc \in UpPoints => run' \in [Procs -> Run]
<1>1. run'[x] = [run[x] EXCEPT !.pc = pc]
  BY DEF Jump
<1>2. run'[x].pc = pc
  BY <1>1 DEF Run
<1> DEFINE Points == Ended \cup {"create", "store", "control", "enable", "target", "lun",
                     "link", "enable tpg", "portal", "attributes", "list", "iqn", "tpg",
                     "np", "luns", "sub", "hba", "data", "img"}
<1>6. UpPoints \subseteq Points
  BY DEF UpPoints, Ended
<1>7. \A p \in Points : [run[x] EXCEPT !.pc = p] \in Run
  <2>1. Run = [pc : Points, iqns : SUBSET Names, tpgs : SUBSET Target,
               portals : SUBSET Portals, luns : SUBSET Ids, hbas : SUBSET Ids,
               names : SUBSET Names, imgs : SUBSET Paths]
    BY DEF Run
  <2> HIDE DEF Points
  <2> QED BY <2>1
<1>3. pc \in UpPoints => [run[x] EXCEPT !.pc = pc] \in Run
  BY <1>6, <1>7
<1>4. run' = [run EXCEPT ![x] = [run[x] EXCEPT !.pc = pc]]
  BY DEF Jump
<1>5. pc \in UpPoints => run' \in [Procs -> Run]
  BY <1>3, <1>4
<1> QED BY <1>1, <1>2, <1>5

-----------------------------------------------------------------------------
(* Every variable has its type                                              *)

DiskOK   == disk \in [Paths -> DiskFile]
RunOK    == run \in [Procs -> Run]
CalmOK   == calm \subseteq Procs /\ clear \subseteq Procs
CountsOK == budget \in [runs : 0..MaxRuns, faults : 0..MaxFaults]

LEMMA TypeParts ==
  TypeOK <=> /\ cfs \in Cfs /\ hbas \subseteq Ids /\ DiskOK
             /\ RunOK /\ CalmOK /\ CountsOK
BY DEF TypeOK, DiskOK, RunOK, CalmOK, CountsOK

LEMMA OwnTargetType == OwnTarget \in Target
BY DEF OwnTarget, Target, Ids

\* The configurations that PlayUp makes.
LEMMA MadeTypes ==
  ASSUME cfs \in Cfs
  PROVE  /\ \A S : S \subseteq Store => With(S) \in Cfs
         /\ OwnStores \subseteq Store
         /\ [MkTarget(cfs, OwnTarget) EXCEPT !.luns = @ \cup {<<OwnTarget, 0>>}] \in Cfs
         /\ [cfs EXCEPT !.links = @ \cup {<<OwnTarget, 0, OwnId, Own>>}] \in Cfs
         /\ [MkTarget(cfs, OwnTarget) EXCEPT !.portals = @ \cup {<<OwnTarget, OwnPortal>>}] \in Cfs
<1>1. ASSUME NEW S, S \subseteq Store PROVE With(S) \in Cfs
  <2> DEFINE R == cfs.stores \ OwnStores
  <2>1. R \subseteq Store
    BY DEF Cfs
  <2>2. With(S) = [cfs EXCEPT !.stores = R \cup S]
    BY DEF With, Cfs
  <2> HIDE DEF R
  <2> QED BY <1>1, <2>1, <2>2 DEF Cfs
<1>2. OwnStores \subseteq Store
  BY DEF OwnStores, Cfs
<1> DEFINE m == MkTarget(cfs, OwnTarget)
<1>3. m \in Cfs
  BY MkTargetType, OwnTargetType
<1> HIDE DEF m
<1>4. 0 \in Ids
  BY DEF Ids
<1>5. [m EXCEPT !.luns = @ \cup {<<OwnTarget, 0>>}] \in Cfs
  BY <1>3, <1>4, OwnTargetType DEF Cfs
<1>6. [m EXCEPT !.portals = @ \cup {<<OwnTarget, OwnPortal>>}] \in Cfs
  BY <1>3, OwnTargetType DEF Cfs
<1>7. [cfs EXCEPT !.links = @ \cup {<<OwnTarget, 0, OwnId, Own>>}] \in Cfs
  BY <1>4, OwnTargetType DEF Cfs
<1> QED BY <1>1, <1>2, <1>5, <1>6, <1>7 DEF m

LEMMA OwnStoreTypes ==
  /\ {[id |-> OwnId, name |-> Own, path |-> NoPath, size |-> 0]} \subseteq Store
  /\ \A S : S \subseteq Store => /\ {[s EXCEPT !.size = OwnSize] : s \in S} \subseteq Store
                                 /\ {[s EXCEPT !.path = OwnPath] : s \in S} \subseteq Store
BY DEF Store

-----------------------------------------------------------------------------
(* The inductive invariant                                                  *)

\* A process that is calm runs alone.
Alone == \A x \in calm, y \in Procs : y # x => y \notin Running

\* What PlayUp has done by the time it is at pc.
Portaled == {"attributes", "up ok"}
Linked   == Portaled \cup {"enable tpg", "portal"}
HasLUN   == Linked \cup {"link"}
Targeted == HasLUN \cup {"lun"}
Opened   == Targeted \cup {"target"}
Sized    == Opened \cup {"enable"}
Stored   == Sized \cup {"control"}
Imaged   == Stored \cup {"store"}
UpOK(x) ==
    /\ run[x].pc \in Imaged   => disk[OwnPath].size = OwnSize
    /\ run[x].pc \in Stored   => OwnStores # {}
    /\ run[x].pc \in Sized    => \A s \in OwnStores : s.size = OwnSize
    /\ run[x].pc \in Opened   => \A s \in OwnStores : s.path = OwnPath
    /\ run[x].pc \in Targeted => OwnTarget \in cfs.tpgs
    /\ run[x].pc \in HasLUN   => <<OwnTarget, 0>> \in cfs.luns
    /\ run[x].pc \in Linked   => <<OwnTarget, 0, OwnId, Own>> \in cfs.links
    /\ run[x].pc \in Portaled => <<OwnTarget, OwnPortal>> \in cfs.portals

\* Nothing came into its way, but what it has made.
ClearOK(x) == x \in clear =>
    /\ run[x].pc \in {"create", "store", "control", "enable"} => ~InTheWay
    /\ run[x].pc \in {"target", "lun", "link"} => LinkOf(cfs, OwnTarget, 0) = {}
    /\ run[x].pc # "up failed"

\* What PlayDown has still to visit covers all that is left there.
InIQN == {"tpg", "np", "luns", "sub"}
DownOK(x) ==
    /\ run[x].pc \in InIQN \cup {"iqn"} => cfs.iqns \subseteq run[x].iqns
    /\ run[x].pc \in InIQN => {t \in cfs.tpgs : t.name = Iqn(x)} \subseteq run[x].tpgs
    /\ run[x].pc = "np" =>
         \A p \in Portals : <<Tpg(x), p>> \in cfs.portals => p \in run[x].portals
    /\ run[x].pc \in {"luns", "sub"} =>
         /\ \A p \in Portals : <<Tpg(x), p>> \notin cfs.portals
         /\ ListLUNs(cfs, Tpg(x)) \subseteq run[x].luns
    /\ run[x].pc = "sub" => LinkOf(cfs, Tpg(x), Lun(x)) = {}
    /\ run[x].pc \in {"hba", "data", "img", "down ok"} => cfs.iqns = {}
    /\ run[x].pc \in {"hba", "data"} => hbas \subseteq run[x].hbas
    /\ run[x].pc = "data" => NamesOf(cfs, Hba(x)) \subseteq run[x].names
    /\ run[x].pc \in {"img", "down ok"} => hbas = {}
    /\ run[x].pc = "img" => \A q \in Paths : disk[q] # NoFile => q \in run[x].imgs
    /\ run[x].pc = "down ok" => \A q \in Paths : disk[q] = NoFile

\* What the properties rest on.
CommandsOK == \A x \in calm : UpOK(x) /\ ClearOK(x) /\ DownOK(x)
PlayInv == TypeOK /\ Nested(cfs, hbas) /\ Alone /\ CommandsOK

LEMMA CountsStep ==
  ASSUME CountsOK, NEW x \in Procs, Works \/ Fails(x), CalmOK
  PROVE  CountsOK' /\ CalmOK' /\ calm' \subseteq calm
BY DEF Works, Fails, CountsOK, CalmOK

\* What a step of PlayUp that goes by the outcomes of a call does.
LEMMA DoIs ==
  ASSUME TypeOK, NEW x \in Procs, NEW outcomes, NEW pc \in UpPoints, Do(x, outcomes, pc)
  PROVE  /\ \E o \in outcomes :
              /\ cfs' = o.c /\ run'[x].pc = (IF o.ok THEN pc ELSE "up failed")
              /\ o.fault => x \notin calm'
         /\ RunOK' /\ CalmOK' /\ CountsOK' /\ calm' \subseteq calm
<1>1. RunOK /\ CalmOK /\ CountsOK
  BY TypeParts
<1>2. PICK o \in outcomes :
        /\ cfs' = o.c /\ Jump(x, IF o.ok THEN pc ELSE "up failed")
        /\ IF o.fault THEN Fails(x) ELSE Works
  BY DEF Do
<1> DEFINE to == IF o.ok THEN pc ELSE "up failed"
<1>3. to \in UpPoints
  BY DEF UpPoints
<1>4. Jump(x, to)
  BY <1>2
<1> HIDE DEF to
<1>5. run'[x].pc = to /\ RunOK'
  BY <1>1, <1>3, <1>4, JumpIs DEF RunOK
<1>6. Works \/ Fails(x)
  BY <1>2
<1>7. o.fault => x \notin calm'
  BY <1>2 DEF Fails
<1> QED BY <1>1, <1>2, <1>5, <1>6, <1>7, CountsStep DEF to

LEMMA WriteIs ==
  ASSUME TypeOK, NEW x \in Procs, NEW exists, NEW d, NEW pc \in UpPoints,
         Write(x, exists, d, pc)
  PROVE  /\ \/ cfs' = cfs /\ x \notin calm'
            \/ exists /\ cfs' = d /\ run'[x].pc = pc
            \/ ~exists /\ cfs' = cfs /\ run'[x].pc = "up failed"
         /\ RunOK' /\ CalmOK' /\ CountsOK' /\ calm' \subseteq calm
<1> DEFINE O == {IF exists THEN Done(d) ELSE Refused(cfs), Broken(cfs)}
<1>1. Do(x, O, pc)
  BY DEF Write
<1>2. \A o \in O : \/ o.c = cfs /\ o.fault
                   \/ exists /\ o.c = d /\ o.ok
                   \/ ~exists /\ o.c = cfs /\ ~o.ok
  BY DEF Done, Refused, Broken
<1> HIDE DEF O
<1>3. PICK o \in O : /\ cfs' = o.c /\ run'[x].pc = (IF o.ok THEN pc ELSE "up failed")
                     /\ o.fault => x \notin calm'
  BY <1>1, DoIs
<1>4. RunOK' /\ CalmOK' /\ CountsOK' /\ calm' \subseteq calm
  BY <1>1, DoIs
<1>5. \/ cfs' = cfs /\ x \notin calm'
      \/ exists /\ cfs' = d /\ run'[x].pc = pc
      \/ ~exists /\ cfs' = cfs /\ run'[x].pc = "up failed"
  BY <1>2, <1>3
<1> QED BY <1>4, <1>5

\* MkdirAll of something in the target of PlayUp.
Made(what) == CASE what = "luns" ->
                     [MkTarget(cfs, OwnTarget) EXCEPT !.luns = @ \cup {<<OwnTarget, 0>>}]
                [] what = "portals" ->
                     [MkTarget(cfs, OwnTarget) EXCEPT !.portals = @ \cup {<<OwnTarget, OwnPortal>>}]
                [] OTHER -> MkTarget(cfs, OwnTarget)

LEMMA MakeIs ==
  ASSUME TypeOK, NEW x \in Procs, NEW what, NEW pc \in UpPoints,
         Do(x, {Done(Made(what))} \cup {Broken(d) : d \in MadeSoFar(cfs, OwnTarget)}, pc)
  PROVE  /\ \/ cfs' \in MadeSoFar(cfs, OwnTarget) /\ x \notin calm'
            \/ cfs' = Made(what) /\ run'[x].pc = pc
         /\ RunOK' /\ CalmOK' /\ CountsOK' /\ calm' \subseteq calm
<1> DEFINE O == {Done(Made(what))} \cup {Broken(d) : d \in MadeSoFar(cfs, OwnTarget)}
<1>2. \A o \in O : \/ o.c \in MadeSoFar(cfs, OwnTarget) /\ o.fault
                   \/ o.c = Made(what) /\ o.ok
  BY DEF Done, Broken
<1>1. Do(x, O, pc)
  OBVIOUS
<1> HIDE DEF O
<1>3. PICK o \in O : /\ cfs' = o.c /\ run'[x].pc = (IF o.ok THEN pc ELSE "up failed")
                     /\ o.fault => x \notin calm'
  BY <1>1, DoIs
<1>4. RunOK' /\ CalmOK' /\ CountsOK' /\ calm' \subseteq calm
  BY <1>1, DoIs
<1>5. \/ cfs' \in MadeSoFar(cfs, OwnTarget) /\ x \notin calm'
      \/ cfs' = Made(what) /\ run'[x].pc = pc
  BY <1>2, <1>3
<1> QED BY <1>4, <1>5


\* A call of PlayUp that failed, and those that the kernel answered.
Falls(x)  == x \notin calm' /\ (cfs' = cfs \/ cfs' \in MadeSoFar(cfs, OwnTarget))
NewStore  == [id |-> OwnId, name |-> Own, path |-> NoPath, size |-> 0]
Answers(x) ==
    \/ /\ At(x, "create") /\ run'[x].pc = "store" /\ disk'[OwnPath].size = OwnSize
       /\ cfs' = cfs
    \/ /\ At(x, "store") /\ run'[x].pc = "control" /\ OwnId \in hbas'
       /\ \/ OwnStores = {} /\ cfs' = With({NewStore})
          \/ OwnStores # {} /\ cfs' = cfs
    \/ /\ At(x, "control") /\ run'[x].pc = "enable" /\ OwnStores # {}
       /\ cfs' = With({[s EXCEPT !.size = OwnSize] : s \in OwnStores})
    \/ /\ At(x, "control") /\ run'[x].pc = "up failed" /\ OwnStores = {} /\ cfs' = cfs
    \/ /\ At(x, "enable") /\ run'[x].pc = "target" /\ OwnStores # {}
       /\ cfs' = With({[s EXCEPT !.path = OwnPath] : s \in OwnStores})
    \/ /\ At(x, "enable") /\ run'[x].pc = "up failed" /\ cfs' = cfs
       /\ OwnStores = {} \/ Enabled(cfs, OwnId, Own)
    \/ At(x, "target") /\ run'[x].pc = "lun" /\ cfs' = Made("target")
    \/ At(x, "lun") /\ run'[x].pc = "link" /\ cfs' = Made("luns")
    \/ /\ At(x, "link") /\ run'[x].pc = "enable tpg" /\ <<OwnTarget, 0>> \in cfs.luns
       /\ cfs' = [cfs EXCEPT !.links = @ \cup {<<OwnTarget, 0, OwnId, Own>>}]
    \/ /\ At(x, "link") /\ run'[x].pc = "up failed" /\ cfs' = cfs
       /\ \/ <<OwnTarget, 0>> \notin cfs.luns \/ ~Enabled(cfs, OwnId, Own)
          \/ LinkOf(cfs, OwnTarget, 0) # {}
    \/ At(x, "enable tpg") /\ run'[x].pc = "portal" /\ cfs' = cfs
    \/ At(x, "portal") /\ run'[x].pc = "attributes" /\ cfs' = Made("portals")
    \/ At(x, "attributes") /\ run'[x].pc = "up ok" /\ cfs' = cfs
    \/ /\ At(x, "enable tpg") \/ At(x, "attributes")
       /\ run'[x].pc = "up failed" /\ OwnTarget \notin cfs.tpgs /\ cfs' = cfs

LEMMA UpSteps ==
  ASSUME TypeOK, NEW x \in Procs, PlayUp(x)
  PROVE  /\ Falls(x) \/ Answers(x)
         /\ RunOK' /\ CalmOK' /\ CountsOK' /\ calm' \subseteq calm /\ DiskOK'
         /\ hbas' \in {hbas, hbas \cup {OwnId}}
         /\ At(x, "create") \/ disk' = disk
<1> DEFINE Rest == /\ RunOK' /\ CalmOK' /\ CountsOK' /\ calm' \subseteq calm
           Goal == Rest /\ (Falls(x) \/ Answers(x))
<1> USE DEF UpPoints
<1>0. RunOK /\ CalmOK /\ CountsOK /\ DiskOK
  BY TypeParts
<1>1. ASSUME CreateImage(x) PROVE Goal /\ DiskOK' /\ hbas' = hbas /\ At(x, "create")
  <2> DEFINE file(z) == [disk EXCEPT ![OwnPath] = [size |-> z, data |-> FALSE]]
  <2>1. \A z \in Nat : file(z) \in [Paths -> DiskFile] /\ file(z)[OwnPath].size = z
    BY <1>0 DEF DiskOK, DiskFile
  <2>2. /\ cfs' = cfs /\ hbas' = hbas /\ At(x, "create")
        /\ \/ disk' = file(OwnSize) /\ Jump(x, "store") /\ Works
           \/ disk' \in {disk, file(0)} /\ Jump(x, "up failed") /\ Fails(x)
    BY <1>1 DEF CreateImage
  <2> HIDE DEF file
  <2>3. DiskOK'
    BY <1>0, <2>1, <2>2 DEF DiskOK
  <2>4. Rest
    BY <1>0, <2>2, JumpIs, CountsStep DEF RunOK
  <2>5. CASE disk' = file(OwnSize) /\ Jump(x, "store") /\ Works
    <3>1. run'[x].pc = "store" /\ disk'[OwnPath].size = OwnSize
      BY <1>0, <2>1, <2>5, JumpIs DEF RunOK
    <3> QED BY <2>2, <2>3, <2>4, <3>1 DEF Answers
  <2>6. CASE Fails(x)
    BY <2>2, <2>3, <2>4, <2>6 DEF Fails, Falls
  <2> QED BY <2>2, <2>5, <2>6
<1>2. ASSUME MakeStore(x)
      PROVE  Goal /\ hbas' \in {hbas, hbas \cup {OwnId}} /\ disk' = disk
  <2> DEFINE O == {IF OwnStores = {} THEN Done(With({NewStore})) ELSE Done(cfs), Broken(cfs)}
  <2>1. /\ At(x, "store") /\ disk' = disk
        /\ \/ hbas' = hbas \cup {OwnId} /\ Do(x, O, "control")
           \/ hbas' = hbas /\ Do(x, {Broken(cfs)}, "control")
    BY <1>2 DEF MakeStore, NewStore
  <2>2. \A o \in O : \/ o.c = cfs /\ o.fault
                     \/ o.ok /\ OwnStores = {} /\ o.c = With({NewStore})
                     \/ o.ok /\ OwnStores # {} /\ o.c = cfs
    BY DEF Done, Broken
  <2> HIDE DEF O
  <2>3. CASE hbas' = hbas \cup {OwnId} /\ Do(x, O, "control")
    <3>0. Do(x, O, "control") /\ "control" \in UpPoints
      BY <2>3
    <3> HIDE DEF UpPoints
    <3>1. PICK o \in O : /\ cfs' = o.c
                         /\ run'[x].pc = (IF o.ok THEN "control" ELSE "up failed")
                         /\ o.fault => x \notin calm'
      BY <3>0, DoIs
    <3>2. Rest
      BY <3>0, DoIs
    <3>3. OwnId \in hbas'
      BY <2>3
    <3>4. Falls(x) \/ Answers(x)
      BY <2>1, <2>2, <3>1, <3>3 DEF Falls, Answers
    <3> QED BY <2>1, <2>3, <3>2, <3>4
  <2>4. CASE hbas' = hbas /\ Do(x, {Broken(cfs)}, "control")
    <3> DEFINE B == {Broken(cfs)}
    <3>0. Do(x, B, "control") /\ "control" \in UpPoints
      BY <2>4
    <3>4. \A o \in B : o.c = cfs /\ o.fault
      BY DEF Broken
    <3> HIDE DEF UpPoints, B
    <3>3. PICK o \in B : /\ cfs' = o.c
                         /\ run'[x].pc = (IF o.ok THEN "control" ELSE "up failed")
                         /\ o.fault => x \notin calm'
      BY <3>0, DoIs
    <3>1. cfs' = cfs /\ x \notin calm'
      BY <3>3, <3>4
    <3>2. Rest
      BY <3>0, DoIs
    <3> QED BY <2>1, <2>4, <3>1, <3>2 DEF Falls
  <2> QED BY <2>1, <2>3, <2>4
<1>3. ASSUME Configure(x) PROVE Goal /\ UNCHANGED <<hbas, disk>>
  <2>1. /\ Write(x, OwnStores # {}, With({[s EXCEPT !.size = OwnSize] : s \in OwnStores}),
                 "enable")
        /\ At(x, "control") /\ UNCHANGED <<hbas, disk>>
    BY <1>3 DEF Configure
  <2>2. Rest
    BY <2>1, WriteIs
  <2>3. \/ cfs' = cfs /\ x \notin calm'
        \/ /\ OwnStores # {} /\ run'[x].pc = "enable"
           /\ cfs' = With({[s EXCEPT !.size = OwnSize] : s \in OwnStores})
        \/ OwnStores = {} /\ cfs' = cfs /\ run'[x].pc = "up failed"
    BY <2>1, WriteIs
  <2>4. Falls(x) \/ Answers(x)
    BY <2>1, <2>3 DEF Falls, Answers
  <2> QED BY <2>1, <2>2, <2>4
<1>4. ASSUME EnableStore(x) PROVE Goal /\ UNCHANGED <<hbas, disk>>
  <2>1. /\ Write(x, OwnStores # {} /\ ~Enabled(cfs, OwnId, Own),
                 With({[s EXCEPT !.path = OwnPath] : s \in OwnStores}), "target")
        /\ At(x, "enable") /\ UNCHANGED <<hbas, disk>>
    BY <1>4 DEF EnableStore
  <2>2. Rest
    BY <2>1, WriteIs
  <2>3. \/ cfs' = cfs /\ x \notin calm'
        \/ /\ OwnStores # {} /\ run'[x].pc = "target"
           /\ cfs' = With({[s EXCEPT !.path = OwnPath] : s \in OwnStores})
        \/ (OwnStores = {} \/ Enabled(cfs, OwnId, Own)) /\ cfs' = cfs /\ run'[x].pc = "up failed"
    BY <2>1, WriteIs
  <2>4. Falls(x) \/ Answers(x)
    BY <2>1, <2>3 DEF Falls, Answers
  <2> QED BY <2>1, <2>2, <2>4
<1>5. ASSUME NEW what, NEW pc \in UpPoints,
             Do(x, {Done(Made(what))} \cup {Broken(d) : d \in MadeSoFar(cfs, OwnTarget)}, pc),
             \/ At(x, "target") /\ what = "target" /\ pc = "lun"
             \/ At(x, "lun") /\ what = "luns" /\ pc = "link"
             \/ At(x, "portal") /\ what = "portals" /\ pc = "attributes"
      PROVE  Goal
  <2>1. /\ \/ cfs' \in MadeSoFar(cfs, OwnTarget) /\ x \notin calm'
           \/ cfs' = Made(what) /\ run'[x].pc = pc
        /\ Rest
    BY <1>5, MakeIs
  <2>2. Falls(x) \/ Answers(x)
    BY <1>5, <2>1 DEF Falls, Answers
  <2> QED BY <2>1, <2>2
<1>6. ASSUME MakeTarget(x) \/ MakeLUN(x) \/ MakePortal(x)
      PROVE  Goal /\ UNCHANGED <<hbas, disk>>
  <2>1. UNCHANGED <<hbas, disk>>
    BY <1>6 DEF MakeTarget, MakeLUN, MakePortal
  <2>2. CASE MakeTarget(x)
    BY <1>5, <2>1, <2>2 DEF MakeTarget, UpsertTarget, Made
  <2>3. CASE MakeLUN(x)
    BY <1>5, <2>1, <2>3 DEF MakeLUN, Made
  <2>4. CASE MakePortal(x)
    BY <1>5, <2>1, <2>4 DEF MakePortal, Made
  <2> QED BY <1>6, <2>2, <2>3, <2>4
<1>7. ASSUME MakeLink(x) PROVE Goal /\ UNCHANGED <<hbas, disk>>
  <2> DEFINE able == /\ <<OwnTarget, 0>> \in cfs.luns /\ LinkOf(cfs, OwnTarget, 0) = {}
                     /\ Enabled(cfs, OwnId, Own)
             d == [cfs EXCEPT !.links = @ \cup {<<OwnTarget, 0, OwnId, Own>>}]
  <2>1. Write(x, able, d, "enable tpg") /\ At(x, "link") /\ UNCHANGED <<hbas, disk>>
    BY <1>7 DEF MakeLink
  <2> HIDE DEF able, d
  <2>3. Rest
    BY <2>1, WriteIs
  <2>4. \/ cfs' = cfs /\ x \notin calm'
        \/ able /\ cfs' = d /\ run'[x].pc = "enable tpg"
        \/ ~able /\ cfs' = cfs /\ run'[x].pc = "up failed"
    BY <2>1, WriteIs
  <2>5. CASE cfs' = cfs /\ x \notin calm'
    BY <2>1, <2>3, <2>5 DEF Falls
  <2>6. CASE able /\ cfs' = d /\ run'[x].pc = "enable tpg"
    <3>1. Answers(x)
      BY <2>1, <2>6 DEF Answers, able, d
    <3> QED BY <2>1, <2>3, <3>1
  <2>7. CASE ~able /\ cfs' = cfs /\ run'[x].pc = "up failed"
    <3>1. Answers(x)
      BY <2>1, <2>7 DEF Answers, able
    <3> QED BY <2>1, <2>3, <3>1
  <2> QED BY <2>4, <2>5, <2>6, <2>7
<1>8. ASSUME EnableTarget(x) \/ SetAttributes(x) PROVE Goal /\ UNCHANGED <<hbas, disk>>
  <2> DEFINE here == OwnTarget \in cfs.tpgs
  <2>1. PICK pc \in UpPoints : /\ Write(x, here, cfs, pc)
                               /\ UNCHANGED <<hbas, disk>>
                               /\ \/ At(x, "enable tpg") /\ pc = "portal"
                                  \/ At(x, "attributes") /\ pc = "up ok"
    BY <1>8 DEF EnableTarget, SetAttributes
  <2> HIDE DEF here
  <2>2. Rest
    BY <2>1, WriteIs
  <2>3. \/ cfs' = cfs /\ x \notin calm'
        \/ cfs' = cfs /\ run'[x].pc = pc
        \/ ~here /\ cfs' = cfs /\ run'[x].pc = "up failed"
    BY <2>1, WriteIs
  <2>4. Falls(x) \/ Answers(x)
    BY <2>1, <2>3 DEF Falls, Answers, here
  <2> QED BY <2>1, <2>2, <2>4
<1>9. /\ Goal /\ hbas' \in {hbas, hbas \cup {OwnId}}
      /\ (At(x, "create") /\ DiskOK') \/ disk' = disk
  <2> HIDE DEF Goal
  <2> QED BY <1>1, <1>2, <1>3, <1>4, <1>6, <1>7, <1>8 DEF PlayUp
<1> QED BY <1>0, <1>9 DEF DiskOK

\* What is made keeps the rest, and is in a directory that is there.
LEMMA MadeIs ==
  ASSUME cfs \in Cfs
  PROVE  /\ \A d \in MadeSoFar(cfs, OwnTarget) :
              d \in Cfs /\ (Nested(cfs, hbas) => Nested(d, hbas))
         /\ \A what \in {"target", "luns", "portals"} : LET d == Made(what) IN
              /\ d \in Cfs /\ (Nested(cfs, hbas) => Nested(d, hbas))
              /\ OwnTarget \in d.tpgs /\ d.stores = cfs.stores /\ d.links = cfs.links
              /\ cfs.tpgs \subseteq d.tpgs /\ cfs.luns \subseteq d.luns
              /\ what = "luns" => <<OwnTarget, 0>> \in d.luns
              /\ what = "portals" => <<OwnTarget, OwnPortal>> \in d.portals
<1> DEFINE m == MkTarget(cfs, OwnTarget)
           n == [cfs EXCEPT !.iqns = @ \cup {OwnTarget.name}]
<1>1. /\ m \in Cfs /\ m.tpgs = cfs.tpgs \cup {OwnTarget} /\ m.luns = cfs.luns
      /\ m.portals = cfs.portals /\ m.links = cfs.links /\ m.stores = cfs.stores
      /\ m.iqns = cfs.iqns \cup {OwnTarget.name}
  <2>1. m \in Cfs
    BY MkTargetType, OwnTargetType
  <2> QED BY <2>1 DEF MkTarget, Cfs
<1>2. /\ n.tpgs = cfs.tpgs /\ n.luns = cfs.luns
      /\ n.portals = cfs.portals /\ n.links = cfs.links /\ n.stores = cfs.stores
      /\ n.iqns = cfs.iqns \cup {OwnTarget.name}
  BY DEF Cfs
<1>3. MadeSoFar(cfs, OwnTarget) = {cfs, n, m} /\ MadeSoFar(cfs, OwnTarget) \subseteq Cfs
  BY MadeSoFarType, OwnTargetType DEF MadeSoFar
<1>4. Nested(cfs, hbas) => Nested(n, hbas) /\ Nested(m, hbas)
  <2> HIDE DEF m, n
  <2> QED BY <1>1, <1>2 DEF Nested
<1>5. ASSUME NEW what \in {"target", "luns", "portals"}
      PROVE  LET d == Made(what) IN
              /\ d \in Cfs /\ (Nested(cfs, hbas) => Nested(d, hbas))
              /\ OwnTarget \in d.tpgs /\ d.stores = cfs.stores /\ d.links = cfs.links
              /\ cfs.tpgs \subseteq d.tpgs /\ cfs.luns \subseteq d.luns
              /\ what = "luns" => <<OwnTarget, 0>> \in d.luns
              /\ what = "portals" => <<OwnTarget, OwnPortal>> \in d.portals
  <2> DEFINE d == Made(what)
             L == IF what = "luns" THEN cfs.luns \cup {<<OwnTarget, 0>>} ELSE cfs.luns
             P == IF what = "portals" THEN cfs.portals \cup {<<OwnTarget, OwnPortal>>}
                                      ELSE cfs.portals
  <2>1. d \in Cfs
    BY <1>1, MadeTypes DEF Made
  <2>2. /\ d.tpgs = m.tpgs /\ d.iqns = m.iqns /\ d.links = m.links /\ d.stores = m.stores
        /\ d.luns = L /\ d.portals = P
    <3>1. CASE what = "luns"
      <4>1. d = [m EXCEPT !.luns = @ \cup {<<OwnTarget, 0>>}]
        BY <3>1 DEF Made
      <4> HIDE DEF m, d
      <4> QED BY <1>1, <3>1, <4>1 DEF Cfs
    <3>2. CASE what = "portals"
      <4>1. d = [m EXCEPT !.portals = @ \cup {<<OwnTarget, OwnPortal>>}]
        BY <3>2 DEF Made
      <4> HIDE DEF m, d
      <4> QED BY <1>1, <3>2, <4>1 DEF Cfs
    <3>3. CASE what = "target"
      <4>1. d = m
        BY <3>3 DEF Made
      <4> HIDE DEF m, d
      <4> QED BY <1>1, <3>3, <4>1
    <3> QED BY <3>1, <3>2, <3>3
  <2> HIDE DEF d, m
  <2>3. Nested(cfs, hbas) => Nested(d, hbas)
    <3> SUFFICES ASSUME Nested(cfs, hbas) PROVE Nested(d, hbas)
      OBVIOUS
    <3>1. \A t \in d.tpgs : t.name \in d.iqns
      BY <1>1, <2>2 DEF Nested
    <3>2. \A k \in d.portals : k[1] \in d.tpgs
      BY <1>1, <2>2 DEF Nested
    <3>3. \A k \in d.luns : k[1] \in d.tpgs
      BY <1>1, <2>2 DEF Nested
    <3>4. \A k \in d.links : <<k[1], k[2]>> \in d.luns
      BY <1>1, <2>2 DEF Nested
    <3>5. \A s \in d.stores : s.id \in hbas
      BY <1>1, <2>2 DEF Nested
    <3> QED BY <3>1, <3>2, <3>3, <3>4, <3>5 DEF Nested
  <2> QED BY <1>1, <2>1, <2>2, <2>3 DEF d
<1> HIDE DEF m, n
<1> QED BY <1>1, <1>3, <1>4, <1>5

LEMMA WithIs ==
  ASSUME cfs \in Cfs, NEW S \in SUBSET Store, \A s \in S : s.id = OwnId /\ s.name = Own
  PROVE  LET d == With(S) IN
         /\ d \in Cfs /\ {s \in d.stores : s.id = OwnId /\ s.name = Own} = S
         /\ d.tpgs = cfs.tpgs /\ d.luns = cfs.luns /\ d.links = cfs.links
         /\ d.portals = cfs.portals /\ d.iqns = cfs.iqns
         /\ d.stores = (cfs.stores \ OwnStores) \cup S
<1> DEFINE d == With(S)
<1>1. /\ d.tpgs = cfs.tpgs /\ d.luns = cfs.luns /\ d.links = cfs.links
      /\ d.portals = cfs.portals /\ d.iqns = cfs.iqns
      /\ d.stores = (cfs.stores \ OwnStores) \cup S
  BY DEF With, Cfs
<1>2. d \in Cfs
  BY MadeTypes
<1> HIDE DEF d
<1>3. {s \in d.stores : s.id = OwnId /\ s.name = Own} = S
  BY <1>1 DEF OwnStores
<1> QED BY <1>1, <1>2, <1>3 DEF d

LEMMA NewStores ==
  ASSUME cfs \in Cfs
  PROVE  \A S \in {{NewStore}, {[s EXCEPT !.size = OwnSize] : s \in OwnStores},
                   {[s EXCEPT !.path = OwnPath] : s \in OwnStores}} :
           S \subseteq Store /\ \A s \in S : s.id = OwnId /\ s.name = Own
<1>1. OwnStores \subseteq Store /\ \A s \in OwnStores : s.id = OwnId /\ s.name = Own
  BY DEF OwnStores, Cfs
<1>2. {NewStore} \subseteq Store /\ NewStore.id = OwnId /\ NewStore.name = Own
  BY DEF NewStore, Store
<1>3. /\ {[s EXCEPT !.size = OwnSize] : s \in OwnStores} \subseteq Store
      /\ {[s EXCEPT !.path = OwnPath] : s \in OwnStores} \subseteq Store
  BY <1>1, OwnStoreTypes
<1>4. \A s \in OwnStores : [s EXCEPT !.size = OwnSize].id = OwnId
                           /\ [s EXCEPT !.size = OwnSize].name = Own
  BY <1>1 DEF Store
<1>5. \A s \in OwnStores : [s EXCEPT !.path = OwnPath].id = OwnId
                           /\ [s EXCEPT !.path = OwnPath].name = Own
  BY <1>1 DEF Store
<1> DEFINE A == {[s EXCEPT !.size = OwnSize] : s \in OwnStores}
           B == {[s EXCEPT !.path = OwnPath] : s \in OwnStores}
<1>6. (\A s \in A : s.id = OwnId /\ s.name = Own) /\ A \subseteq Store
  BY <1>3, <1>4
<1>7. (\A s \in B : s.id = OwnId /\ s.name = Own) /\ B \subseteq Store
  BY <1>3, <1>5
<1>8. \A s \in {NewStore} : s.id = OwnId /\ s.name = Own
  BY <1>2
<1> HIDE DEF A, B, NewStore
<1>9. \A S \in {{NewStore}, A, B} : S \subseteq Store /\ \A s \in S : s.id = OwnId /\ s.name = Own
  BY <1>2, <1>6, <1>7, <1>8
<1> QED BY <1>9 DEF A, B

LEMMA UpType ==
  ASSUME TypeOK, NEW x \in Procs, PlayUp(x)
  PROVE  TypeOK'
<1>1. cfs' \in Cfs
  <2>1. cfs \in Cfs
    BY TypeParts
  <2>2. CASE Falls(x)
    BY <2>1, <2>2, MadeIs DEF Falls
  <2>3. CASE Answers(x)
    <3>1. \/ cfs' = cfs
          \/ \E what \in {"target", "luns", "portals"} : cfs' = Made(what)
          \/ \E S \in {{NewStore}, {[s EXCEPT !.size = OwnSize] : s \in OwnStores},
                       {[s EXCEPT !.path = OwnPath] : s \in OwnStores}} : cfs' = With(S)
          \/ cfs' = [cfs EXCEPT !.links = @ \cup {<<OwnTarget, 0, OwnId, Own>>}]
      BY <2>3 DEF Answers
    <3> QED BY <2>1, <3>1, MadeIs, NewStores, MadeTypes
  <2> QED BY <2>2, <2>3, UpSteps
<1>2. hbas' \subseteq Ids
  BY UpSteps, TypeParts
<1> QED BY <1>1, <1>2, UpSteps DEF TypeOK, DiskOK, RunOK, CalmOK, CountsOK

\* PlayUp makes nothing outside the directories that are there.
LEMMA UpNested ==
  ASSUME TypeOK, Nested(cfs, hbas), NEW x \in Procs, PlayUp(x)
  PROVE  Nested(cfs', hbas')
<1>1. cfs \in Cfs /\ hbas \subseteq hbas'
  BY UpSteps, TypeParts
<1>2. ASSUME NEW d, Nested(d, hbas) PROVE Nested(d, hbas')
  BY <1>1, <1>2 DEF Nested
<1>3. CASE Falls(x)
  <2>1. Nested(cfs', hbas)
    BY <1>1, <1>3, MadeIs DEF Falls
  <2> QED BY <1>2, <2>1
<1>4. CASE Answers(x)
  <2>1. CASE cfs' = cfs
    BY <1>2, <2>1
  <2>2. CASE \E what \in {"target", "luns", "portals"} : cfs' = Made(what)
    <3>1. Nested(cfs', hbas)
      BY <1>1, <2>2, MadeIs
    <3> QED BY <1>2, <3>1
  <2>3. ASSUME NEW S \in SUBSET Store, \A s \in S : s.id = OwnId /\ s.name = Own,
               cfs' = With(S), OwnId \in hbas'
        PROVE  Nested(cfs', hbas')
    <3>1. /\ cfs'.tpgs = cfs.tpgs /\ cfs'.luns = cfs.luns /\ cfs'.links = cfs.links
          /\ cfs'.portals = cfs.portals /\ cfs'.iqns = cfs.iqns
          /\ cfs'.stores = (cfs.stores \ OwnStores) \cup S
      BY <1>1, <2>3, WithIs
    <3>2. \A s \in cfs'.stores : s.id \in hbas'
      BY <1>1, <2>3, <3>1 DEF Nested
    <3> QED BY <3>1, <3>2 DEF Nested
  <2>4. CASE cfs' = With({NewStore}) /\ OwnId \in hbas'
    BY <1>1, <2>3, <2>4, NewStores
  <2>5. ASSUME OwnStores # {}, NEW S, cfs' = With(S),
               S \in {{[s EXCEPT !.size = OwnSize] : s \in OwnStores},
                      {[s EXCEPT !.path = OwnPath] : s \in OwnStores}}
        PROVE  Nested(cfs', hbas')
    <3>1. OwnId \in hbas'
      BY <1>1, <2>5 DEF OwnStores, Nested
    <3>2. S \in SUBSET Store /\ \A s \in S : s.id = OwnId /\ s.name = Own
      BY <1>1, <2>5, NewStores
    <3> QED BY <2>3, <2>5, <3>1, <3>2
  <2>6. CASE /\ cfs' = [cfs EXCEPT !.links = @ \cup {<<OwnTarget, 0, OwnId, Own>>}]
             /\ <<OwnTarget, 0>> \in cfs.luns
    <3>1. /\ cfs'.tpgs = cfs.tpgs /\ cfs'.luns = cfs.luns /\ cfs'.stores = cfs.stores
          /\ cfs'.portals = cfs.portals /\ cfs'.iqns = cfs.iqns
          /\ cfs'.links = cfs.links \cup {<<OwnTarget, 0, OwnId, Own>>}
      BY <1>1, <2>6 DEF Cfs
    <3>2. Nested(cfs', hbas)
      BY <2>6, <3>1 DEF Nested
    <3> QED BY <1>2, <3>2
  <2>7. \/ cfs' = cfs
        \/ \E what \in {"target", "luns", "portals"} : cfs' = Made(what)
        \/ cfs' = With({NewStore}) /\ OwnId \in hbas'
        \/ /\ OwnStores # {}
           /\ \E S \in {{[s EXCEPT !.size = OwnSize] : s \in OwnStores},
                        {[s EXCEPT !.path = OwnPath] : s \in OwnStores}} : cfs' = With(S)
        \/ /\ cfs' = [cfs EXCEPT !.links = @ \cup {<<OwnTarget, 0, OwnId, Own>>}]
           /\ <<OwnTarget, 0>> \in cfs.luns
    BY <1>4 DEF Answers
  <2> QED BY <2>1, <2>2, <2>4, <2>5, <2>6, <2>7
<1> QED BY <1>3, <1>4, UpSteps

LEMMA OwnPathIs == OwnPath # NoPath
BY DEF NoPath

\* A step of PlayUp by a process that stays calm.
LEMMA UpKept ==
  ASSUME TypeOK, NEW x \in Procs, PlayUp(x), UpOK(x), x \in calm'
  PROVE  UpOK(x)'
<1>1. cfs \in Cfs /\ Answers(x)
  BY UpSteps, TypeParts DEF Falls
<1> DEFINE Own2(S) == {[s EXCEPT !.size = OwnSize] : s \in S}
           Own3(S) == {[s EXCEPT !.path = OwnPath] : s \in S}
<1>2. At(x, "create") \/ disk' = disk
  BY UpSteps
<1> USE DEF UpOK, At, Imaged, Stored, Sized, Opened, Targeted, HasLUN, Linked, Portaled
<1>3. CASE /\ At(x, "create") /\ run'[x].pc = "store" /\ disk'[OwnPath].size = OwnSize
           /\ cfs' = cfs
  BY <1>3
<1>4. CASE /\ At(x, "store") /\ run'[x].pc = "control"
           /\ \/ OwnStores = {} /\ cfs' = With({NewStore})
              \/ OwnStores # {} /\ cfs' = cfs
  <2>1. OwnStores' # {}
    <3>1. CASE OwnStores = {} /\ cfs' = With({NewStore})
      <4>1. OwnStores' = {NewStore}
        BY <1>1, <3>1, NewStores, WithIs DEF OwnStores
      <4> QED BY <4>1
    <3>2. CASE OwnStores # {} /\ cfs' = cfs
      BY <3>2 DEF OwnStores
    <3> QED BY <1>4, <3>1, <3>2
  <2> QED BY <1>2, <1>4, <2>1
<1>5. CASE /\ At(x, "control") /\ run'[x].pc = "enable" /\ OwnStores # {}
           /\ cfs' = With(Own2(OwnStores))
  <2>1. OwnStores' = Own2(OwnStores)
    BY <1>1, <1>5, NewStores, WithIs DEF OwnStores
  <2>2. \A s \in OwnStores : [s EXCEPT !.size = OwnSize].size = OwnSize
    <3>1. OwnStores \subseteq Store
      BY <1>1, MadeTypes
    <3> QED BY <3>1 DEF Store
  <2>3. OwnStores' # {} /\ \A s \in OwnStores' : s.size = OwnSize
    BY <1>5, <2>1, <2>2
  <2> QED BY <1>2, <1>5, <2>3
<1>6. CASE /\ At(x, "enable") /\ run'[x].pc = "target" /\ OwnStores # {}
           /\ cfs' = With(Own3(OwnStores))
  <2>1. OwnStores' = Own3(OwnStores)
    BY <1>1, <1>6, NewStores, WithIs DEF OwnStores
  <2>2. \A s \in OwnStores : s \in Store /\ s.size = OwnSize
    BY <1>1, <1>6, MadeTypes
  <2>3. \A s \in OwnStores : [s EXCEPT !.path = OwnPath].size = OwnSize
    BY <2>2 DEF Store
  <2>4. \A s \in OwnStores : [s EXCEPT !.path = OwnPath].path = OwnPath
    BY <2>2 DEF Store
  <2>5. OwnStores' # {} /\ \A s \in OwnStores' : s.path = OwnPath
    BY <1>6, <2>1, <2>4
  <2>6. \A s \in OwnStores' : s.size = OwnSize
    BY <2>1, <2>3
  <2> QED BY <1>2, <1>6, <2>5, <2>6
<1>7. CASE \/ At(x, "target") /\ run'[x].pc = "lun" /\ cfs' = Made("target")
           \/ At(x, "lun") /\ run'[x].pc = "link" /\ cfs' = Made("luns")
           \/ At(x, "portal") /\ run'[x].pc = "attributes" /\ cfs' = Made("portals")
  <2>1. /\ OwnTarget \in cfs'.tpgs /\ cfs'.stores = cfs.stores /\ cfs'.links = cfs.links
        /\ cfs.luns \subseteq cfs'.luns
    BY <1>1, <1>7, MadeIs
  <2>2. OwnStores' = OwnStores
    BY <2>1 DEF OwnStores
  <2>3. At(x, "lun") => <<OwnTarget, 0>> \in cfs'.luns
    BY <1>1, <1>7, MadeIs
  <2>4. At(x, "portal") => <<OwnTarget, OwnPortal>> \in cfs'.portals
    BY <1>1, <1>7, MadeIs
  <2>5. CASE At(x, "target") /\ run'[x].pc = "lun"
    BY <1>2, <2>1, <2>2, <2>5
  <2>6. CASE At(x, "lun") /\ run'[x].pc = "link"
    BY <1>2, <2>1, <2>2, <2>3, <2>6
  <2>7. CASE At(x, "portal") /\ run'[x].pc = "attributes"
    BY <1>2, <2>1, <2>2, <2>4, <2>7
  <2> QED BY <1>7, <2>5, <2>6, <2>7
<1>8. CASE /\ At(x, "link") /\ run'[x].pc = "enable tpg"
           /\ cfs' = [cfs EXCEPT !.links = @ \cup {<<OwnTarget, 0, OwnId, Own>>}]
  <2>1. /\ cfs'.tpgs = cfs.tpgs /\ cfs'.luns = cfs.luns /\ cfs'.stores = cfs.stores
        /\ cfs'.links = cfs.links \cup {<<OwnTarget, 0, OwnId, Own>>}
    BY <1>1, <1>8 DEF Cfs
  <2>2. OwnStores' = OwnStores
    BY <2>1 DEF OwnStores
  <2> QED BY <1>2, <1>8, <2>1, <2>2
<1>9. CASE /\ \/ At(x, "enable tpg") /\ run'[x].pc = "portal"
              \/ At(x, "attributes") /\ run'[x].pc = "up ok"
           /\ cfs' = cfs
  <2>1. OwnStores' = OwnStores
    BY <1>9 DEF OwnStores
  <2> QED BY <1>2, <1>9, <2>1
<1>10. CASE run'[x].pc = "up failed"
  BY <1>10
<1> HIDE DEF UpOK, At, Imaged, Stored, Sized, Opened, Targeted, HasLUN, Linked, Portaled
<1> QED BY <1>1, <1>3, <1>4, <1>5, <1>6, <1>7, <1>8, <1>9, <1>10 DEF Answers

\* The processes that began with nothing in PlayUp's way are the same after.
LEMMA UpClear ==
  ASSUME NEW x \in Procs, PlayUp(x)
  PROVE  clear' = clear
<1>1. Works \/ Fails(x) => clear' = clear
  BY DEF Works, Fails
<1>2. ASSUME NEW O, NEW pc, Do(x, O, pc) PROVE clear' = clear
  BY <1>1, <1>2 DEF Do
<1>3. ASSUME NEW e, NEW d, NEW pc, Write(x, e, d, pc) PROVE clear' = clear
  BY <1>2, <1>3 DEF Write
<1>4. CASE CreateImage(x)
  BY <1>1, <1>4 DEF CreateImage
<1>5. CASE MakeStore(x)
  BY <1>2, <1>5 DEF MakeStore
<1>6. CASE Configure(x) \/ EnableStore(x) \/ MakeLink(x) \/ EnableTarget(x) \/ SetAttributes(x)
  <2>1. \E e, d, pc : Write(x, e, d, pc)
    BY <1>6 DEF Configure, EnableStore, MakeLink, EnableTarget, SetAttributes
  <2> QED BY <1>3, <2>1
<1>7. CASE MakeTarget(x) \/ MakeLUN(x) \/ MakePortal(x)
  <2>1. \E O, pc : Do(x, O, pc)
    BY <1>7 DEF MakeTarget, MakeLUN, MakePortal
  <2> QED BY <1>2, <2>1
<1> QED BY <1>4, <1>5, <1>6, <1>7 DEF PlayUp

\* A step of PlayUp by a process that stays calm brings nothing into its way.
LEMMA ClearKept ==
  ASSUME TypeOK, NEW x \in Procs, PlayUp(x), UpOK(x), ClearOK(x), x \in calm'
  PROVE  ClearOK(x)'
<1>0. CASE x \notin clear
  BY <1>0, UpClear DEF ClearOK
<1> SUFFICES ASSUME x \in clear PROVE ClearOK(x)'
  BY <1>0
<1>1. cfs \in Cfs /\ Answers(x)
  BY UpSteps, TypeParts DEF Falls
<1> DEFINE Own2(S) == {[s EXCEPT !.size = OwnSize] : s \in S}
           Own3(S) == {[s EXCEPT !.path = OwnPath] : s \in S}
           pc  == run[x].pc
           pc2 == run'[x].pc
<1>2. /\ pc \in {"create", "store", "control", "enable"} =>
           ~Enabled(cfs, OwnId, Own) /\ LinkOf(cfs, OwnTarget, 0) = {}
      /\ pc \in {"target", "lun", "link"} => LinkOf(cfs, OwnTarget, 0) = {}
  BY DEF ClearOK, InTheWay
<1>3. /\ pc \in {"control", "enable", "link"} => OwnStores # {}
      /\ pc = "link" => /\ \A s \in OwnStores : s.path = OwnPath
                         /\ <<OwnTarget, 0>> \in cfs.luns
      /\ pc \in {"enable tpg", "attributes"} => OwnTarget \in cfs.tpgs
  BY DEF UpOK, Imaged, Stored, Sized, Opened, Targeted, HasLUN, Linked, Portaled
<1>4. ASSUME cfs'.links = cfs.links, LinkOf(cfs, OwnTarget, 0) = {}
      PROVE  LinkOf(cfs', OwnTarget, 0) = {}
  BY <1>4 DEF LinkOf
<1>5. ASSUME pc2 \in {"store", "control", "enable"}, cfs'.links = cfs.links,
             LinkOf(cfs, OwnTarget, 0) = {}, ~Enabled(cfs', OwnId, Own)
      PROVE  ClearOK(x)'
  BY <1>4, <1>5 DEF ClearOK, InTheWay
<1>6. ASSUME pc2 \in {"target", "lun", "link"}, cfs'.links = cfs.links,
             LinkOf(cfs, OwnTarget, 0) = {}
      PROVE  ClearOK(x)'
  BY <1>4, <1>6 DEF ClearOK
<1>7. ASSUME pc2 \in {"enable tpg", "portal", "attributes", "up ok"} PROVE ClearOK(x)'
  BY <1>7 DEF ClearOK
<1>8. ASSUME NEW S \in SUBSET Store, \A s \in S : s.id = OwnId /\ s.name = Own,
             cfs' = With(S)
      PROVE  /\ cfs'.links = cfs.links
             /\ (\A s \in S : s.path = NoPath) => ~Enabled(cfs', OwnId, Own)
  <2>1. cfs'.links = cfs.links /\ {s \in cfs'.stores : s.id = OwnId /\ s.name = Own} = S
    BY <1>1, <1>8, WithIs
  <2> QED BY <2>1 DEF Enabled
<1>9. CASE At(x, "create") /\ pc2 = "store" /\ cfs' = cfs
  BY <1>2, <1>5, <1>9 DEF At
<1>10. CASE /\ At(x, "store") /\ pc2 = "control"
            /\ \/ OwnStores = {} /\ cfs' = With({NewStore})
               \/ OwnStores # {} /\ cfs' = cfs
  <2>1. CASE cfs' = With({NewStore})
    <3>1. NewStore.path = NoPath
      BY DEF NewStore
    <3>2. {NewStore} \in SUBSET Store /\ \A s \in {NewStore} : s.id = OwnId /\ s.name = Own
      BY <1>1, NewStores
    <3> HIDE DEF NewStore
    <3> QED BY <1>2, <1>5, <1>8, <1>10, <2>1, <3>1, <3>2 DEF At
  <2>2. CASE cfs' = cfs
    BY <1>2, <1>5, <1>10, <2>2 DEF At
  <2> QED BY <1>10, <2>1, <2>2
<1>11. CASE At(x, "control") /\ pc2 = "enable" /\ cfs' = With(Own2(OwnStores))
  <2>1. \A s \in OwnStores : s \in Store /\ s.path = NoPath
    BY <1>1, <1>2, <1>11 DEF At, OwnStores, Cfs, Enabled
  <2>2. \A s \in Own2(OwnStores) : s.path = NoPath
    BY <2>1 DEF Store
  <2>3. Own2(OwnStores) \in SUBSET Store /\ \A s \in Own2(OwnStores) : s.id = OwnId /\ s.name = Own
    BY <1>1, NewStores
  <2> HIDE DEF Own2
  <2> QED BY <1>2, <1>5, <1>8, <1>11, <2>2, <2>3 DEF At
<1>12. CASE At(x, "enable") /\ pc2 = "target" /\ cfs' = With(Own3(OwnStores))
  <2>1. Own3(OwnStores) \in SUBSET Store /\ \A s \in Own3(OwnStores) : s.id = OwnId /\ s.name = Own
    BY <1>1, NewStores
  <2> HIDE DEF Own3
  <2> QED BY <1>2, <1>6, <1>8, <1>12, <2>1 DEF At
<1>13. CASE \/ At(x, "target") /\ pc2 = "lun" /\ cfs' = Made("target")
            \/ At(x, "lun") /\ pc2 = "link" /\ cfs' = Made("luns")
  <2>1. cfs'.links = cfs.links
    BY <1>1, <1>13, MadeIs
  <2> QED BY <1>2, <1>6, <1>13, <2>1 DEF At
<1>14. CASE /\ At(x, "link") /\ pc2 = "up failed"
            /\ \/ <<OwnTarget, 0>> \notin cfs.luns \/ ~Enabled(cfs, OwnId, Own)
               \/ LinkOf(cfs, OwnTarget, 0) # {}
  <2>1. PICK s \in OwnStores : s.path = OwnPath
    BY <1>3, <1>14 DEF At
  <2>2. Enabled(cfs, OwnId, Own)
    BY <2>1, OwnPathIs DEF Enabled, OwnStores
  <2> QED BY <1>2, <1>3, <1>14, <2>2 DEF At
<1>15. CASE /\ pc2 = "up failed"
            /\ \/ At(x, "control") /\ OwnStores = {}
               \/ At(x, "enable") /\ (OwnStores = {} \/ Enabled(cfs, OwnId, Own))
               \/ (At(x, "enable tpg") \/ At(x, "attributes")) /\ OwnTarget \notin cfs.tpgs
  BY <1>2, <1>3, <1>15 DEF At
<1> HIDE DEF ClearOK, UpOK
<1> QED BY <1>1, <1>7, <1>9, <1>10, <1>11, <1>12, <1>13, <1>14, <1>15 DEF Answers

-----------------------------------------------------------------------------
(* PlayDown                                                                 *)

\* What a process of PlayDown goes on as, with what it has still to visit.
LEMMA ToTpgs ==
  ASSUME NEW x, run[x] \in Run, NEW S \in SUBSET Target
  PROVE  LET r == [run[x] EXCEPT !.pc = "tpg", !.tpgs = S] IN
         /\ r \in Run /\ r.pc = "tpg" /\ r.iqns = run[x].iqns /\ r.tpgs = S
BY DEF Run

LEMMA ToPortals ==
  ASSUME NEW x, run[x] \in Run, NEW S \in SUBSET Portals
  PROVE  LET r == [run[x] EXCEPT !.pc = "np", !.portals = S] IN
         /\ r \in Run /\ r.pc = "np" /\ r.iqns = run[x].iqns /\ r.tpgs = run[x].tpgs
         /\ r.portals = S
BY DEF Run

LEMMA LessPortals ==
  ASSUME NEW x, run[x] \in Run, NEW p
  PROVE  LET r == [run[x] EXCEPT !.portals = @ \ {p}] IN
         /\ r \in Run /\ r.pc = run[x].pc /\ r.iqns = run[x].iqns
         /\ r.tpgs = run[x].tpgs /\ r.portals = run[x].portals \ {p}
BY DEF Run

LEMMA ToLuns ==
  ASSUME NEW x, run[x] \in Run, NEW S \in SUBSET Ids
  PROVE  LET r == [run[x] EXCEPT !.pc = "luns", !.luns = S] IN
         /\ r \in Run /\ r.pc = "luns" /\ r.iqns = run[x].iqns /\ r.tpgs = run[x].tpgs
         /\ r.luns = S
BY DEF Run

LEMMA ToSub ==
  ASSUME NEW x, run[x] \in Run
  PROVE  LET r == [run[x] EXCEPT !.pc = "sub"] IN
         /\ r \in Run /\ r.pc = "sub" /\ r.iqns = run[x].iqns /\ r.tpgs = run[x].tpgs
         /\ r.luns = run[x].luns
BY DEF Run

LEMMA ToNames ==
  ASSUME NEW x, run[x] \in Run, NEW S \in SUBSET Names
  PROVE  LET r == [run[x] EXCEPT !.pc = "data", !.names = S] IN
         /\ r \in Run /\ r.pc = "data" /\ r.hbas = run[x].hbas /\ r.names = S
BY DEF Run

LEMMA LessNames ==
  ASSUME NEW x, run[x] \in Run, NEW n
  PROVE  LET r == [run[x] EXCEPT !.names = @ \ {n}] IN
         /\ r \in Run /\ r.pc = run[x].pc /\ r.hbas = run[x].hbas
         /\ r.names = run[x].names \ {n}
BY DEF Run

LEMMA LessImages ==
  ASSUME NEW x, run[x] \in Run, NEW q
  PROVE  LET r == [run[x] EXCEPT !.imgs = @ \ {q}] IN
         /\ r \in Run /\ r.pc = run[x].pc /\ r.imgs = run[x].imgs \ {q}
BY DEF Run

LEMMA TopIs ==
  /\ \A S \in SUBSET Names : LET r == [RunAt("iqn") EXCEPT !["iqns"] = S] IN
       r \in Run /\ r.pc = "iqn" /\ r.iqns = S
  /\ \A S \in SUBSET Ids : LET r == [RunAt("hba") EXCEPT !["hbas"] = S] IN
       r \in Run /\ r.pc = "hba" /\ r.hbas = S
  /\ \A S \in SUBSET Paths : LET r == [RunAt("img") EXCEPT !["imgs"] = S] IN
       r \in Run /\ r.pc = "img" /\ r.imgs = S
<1>1. \A S \in SUBSET Names : LET r == [RunAt("iqn") EXCEPT !["iqns"] = S] IN
        r \in Run /\ r.pc = "iqn" /\ r.iqns = S
  BY DEF RunAt, Run
<1>2. \A S \in SUBSET Ids : LET r == [RunAt("hba") EXCEPT !["hbas"] = S] IN
        r \in Run /\ r.pc = "hba" /\ r.hbas = S
  BY DEF RunAt, Run
<1>3. \A S \in SUBSET Paths : LET r == [RunAt("img") EXCEPT !["imgs"] = S] IN
        r \in Run /\ r.pc = "img" /\ r.imgs = S
  BY DEF RunAt, Run
<1> QED BY <1>1, <1>2, <1>3

\* The other processes do not move.
Others(x) == \A y \in Procs \ {x} : run'[y] = run[y]

LEMMA GotoOthers ==
  ASSUME RunOK, NEW x \in Procs, NEW r, Goto(x, r)
  PROVE  Others(x)
BY DEF Goto, Others, RunOK

\* A listing; a process that stays calm did what the kernel answered.
LEMMA VisitIs ==
  ASSUME TypeOK, NEW x \in Procs, NEW exists, NEW r \in Run, NEW skip \in Run,
         Visit(x, exists, r, skip)
  PROVE  /\ TypeOK' /\ UNCHANGED <<cfs, hbas, disk>> /\ calm' \subseteq calm /\ Others(x)
         /\ run'[x] \in {r, skip}
         /\ x \in calm' => (exists /\ run'[x] = r) \/ (~exists /\ run'[x] = skip)
<1>0. /\ RunOK /\ CalmOK /\ CountsOK /\ DiskOK /\ cfs \in Cfs /\ hbas \subseteq Ids
  BY TypeParts
<1>1. /\ UNCHANGED <<cfs, hbas, disk>>
      /\ Works \/ Fails(x)
      /\ Goto(x, r) \/ Goto(x, skip)
      /\ Fails(x) \/ (exists /\ Goto(x, r)) \/ (~exists /\ Goto(x, skip))
  BY DEF Visit
<1>2. CountsOK' /\ CalmOK' /\ calm' \subseteq calm
  BY <1>0, <1>1, CountsStep
<1>3. RunOK' /\ Others(x) /\ run'[x] \in {r, skip}
  BY <1>0, <1>1, GotoIs, GotoOthers DEF RunOK
<1>4. TypeOK'
  BY <1>0, <1>1, <1>2, <1>3 DEF TypeOK, RunOK, CalmOK, CountsOK, DiskOK
<1>5. x \in calm' => ~Fails(x)
  BY DEF Fails
<1>6. (Goto(x, r) => run'[x] = r) /\ (Goto(x, skip) => run'[x] = skip)
  BY <1>0, GotoIs DEF RunOK
<1> QED BY <1>1, <1>2, <1>3, <1>4, <1>5, <1>6

\* A removal; a process that stays calm was let do it, or was refused.
LEMMA RemoveIs ==
  ASSUME TypeOK, NEW x \in Procs, NEW able, NEW d \in Cfs, NEW r \in Run,
         Remove(x, able, d, r), UNCHANGED <<hbas, disk>>
  PROVE  /\ TypeOK' /\ calm' \subseteq calm /\ Others(x) /\ run'[x] = r
         /\ cfs' = cfs \/ (able /\ cfs' = d)
         /\ x \in calm' => (able /\ cfs' = d) \/ (~able /\ cfs' = cfs)
<1>0. /\ RunOK /\ CalmOK /\ CountsOK /\ DiskOK /\ cfs \in Cfs /\ hbas \subseteq Ids
  BY TypeParts
<1>1. /\ Works \/ Fails(x)
      /\ Goto(x, r)
      /\ cfs' = cfs \/ (able /\ cfs' = d)
      /\ Fails(x) \/ (able /\ cfs' = d) \/ (~able /\ cfs' = cfs)
  BY DEF Remove
<1>2. CountsOK' /\ CalmOK' /\ calm' \subseteq calm
  BY <1>0, <1>1, CountsStep
<1>3. RunOK' /\ Others(x) /\ run'[x] = r
  BY <1>0, <1>1, GotoIs, GotoOthers DEF RunOK
<1>4. cfs' \in Cfs
  BY <1>0, <1>1
<1>5. TypeOK'
  BY <1>0, <1>2, <1>3, <1>4 DEF TypeOK, RunOK, CalmOK, CountsOK, DiskOK
<1>6. x \in calm' => ~Fails(x)
  BY DEF Fails
<1> QED BY <1>1, <1>2, <1>3, <1>5, <1>6

\* A listing at the top, of a set that to(S) makes a run from.
LEMMA ListTopIs ==
  ASSUME TypeOK, NEW x \in Procs, NEW S, NEW pc, NEW what, ListTop(x, S, pc, what),
         \A N \in SUBSET S : [RunAt(pc) EXCEPT ![what] = N] \in Run
  PROVE  /\ TypeOK' /\ UNCHANGED <<cfs, hbas, disk>> /\ calm' \subseteq calm /\ Others(x)
         /\ \E N \in SUBSET S : run'[x] = [RunAt(pc) EXCEPT ![what] = N]
         /\ x \in calm' => run'[x] = [RunAt(pc) EXCEPT ![what] = S]
<1> DEFINE to(N) == [RunAt(pc) EXCEPT ![what] = N]
<1>0. /\ RunOK /\ CalmOK /\ CountsOK /\ DiskOK /\ cfs \in Cfs /\ hbas \subseteq Ids
  BY TypeParts
<1>1. /\ UNCHANGED <<cfs, hbas, disk>>
      /\ Works \/ Fails(x)
      /\ \E N \in SUBSET S : Goto(x, to(N))
      /\ Fails(x) \/ Goto(x, to(S))
  BY DEF ListTop
<1>a. \A N \in SUBSET S : to(N) \in Run
  OBVIOUS
<1> HIDE DEF to
<1>2. CountsOK' /\ CalmOK' /\ calm' \subseteq calm
  BY <1>0, <1>1, CountsStep
<1>3. RunOK' /\ Others(x) /\ \E N \in SUBSET S : run'[x] = to(N)
  BY <1>0, <1>1, <1>a, GotoIs, GotoOthers DEF RunOK
<1>4. TypeOK'
  BY <1>0, <1>1, <1>2, <1>3 DEF TypeOK, RunOK, CalmOK, CountsOK, DiskOK
<1>5. x \in calm' => ~Fails(x)
  BY DEF Fails
<1>6. x \in calm' => run'[x] = to(S)
  BY <1>0, <1>1, <1>5, GotoIs DEF RunOK
<1> QED BY <1>1, <1>2, <1>3, <1>4, <1>6 DEF to

\* What each removal takes out of configfs, and what it leaves in place.
LEMMA LessPortalsIs ==
  ASSUME cfs \in Cfs, NEW t, NEW P
  PROVE  LET d == WithoutPortals(cfs, t, P) IN
         /\ d \in Cfs /\ d.iqns = cfs.iqns /\ d.tpgs = cfs.tpgs /\ d.luns = cfs.luns
         /\ d.portals = {k \in cfs.portals : k[1] # t \/ k[2] \notin P}
         /\ Nested(cfs, hbas) => Nested(d, hbas)
<1> DEFINE d == WithoutPortals(cfs, t, P)
<1>1. d \in Cfs
  BY WithoutTypes
<1>2. /\ d.iqns = cfs.iqns /\ d.tpgs = cfs.tpgs /\ d.luns = cfs.luns /\ d.links = cfs.links
      /\ d.stores = cfs.stores
      /\ d.portals = {k \in cfs.portals : k[1] # t \/ k[2] \notin P}
  BY DEF WithoutPortals, Cfs
<1> HIDE DEF d
<1>3. Nested(cfs, hbas) => Nested(d, hbas)
  BY <1>2 DEF Nested
<1> QED BY <1>1, <1>2, <1>3 DEF d

LEMMA LessLinksIs ==
  ASSUME cfs \in Cfs, NEW t, NEW L
  PROVE  LET d == WithoutLinks(cfs, t, L) IN
         /\ d \in Cfs /\ d.iqns = cfs.iqns /\ d.tpgs = cfs.tpgs /\ d.luns = cfs.luns
         /\ d.portals = cfs.portals /\ d.stores = cfs.stores
         /\ d.links = {k \in cfs.links : k[1] # t \/ k[2] \notin L}
         /\ Nested(cfs, hbas) => Nested(d, hbas)
<1> DEFINE d == WithoutLinks(cfs, t, L)
<1>1. d \in Cfs
  BY WithoutTypes
<1>2. /\ d.iqns = cfs.iqns /\ d.tpgs = cfs.tpgs /\ d.luns = cfs.luns
      /\ d.portals = cfs.portals /\ d.stores = cfs.stores
      /\ d.links = {k \in cfs.links : k[1] # t \/ k[2] \notin L}
  BY DEF WithoutLinks, Cfs
<1> HIDE DEF d
<1>3. Nested(cfs, hbas) => Nested(d, hbas)
  BY <1>2 DEF Nested
<1> QED BY <1>1, <1>2, <1>3 DEF d

LEMMA LessLunsIs ==
  ASSUME cfs \in Cfs, NEW t, NEW L
  PROVE  LET d == WithoutLuns(cfs, t, L) IN
         /\ d \in Cfs /\ d.iqns = cfs.iqns /\ d.tpgs = cfs.tpgs /\ d.portals = cfs.portals
         /\ d.luns = {k \in cfs.luns : k[1] # t \/ k[2] \notin L}
         /\ Nested(cfs, hbas) => Nested(d, hbas)
<1> DEFINE c == WithoutLinks(cfs, t, L)
           d == WithoutLuns(cfs, t, L)
<1>1. d \in Cfs
  BY WithoutTypes
<1>2. /\ c \in Cfs /\ c.iqns = cfs.iqns /\ c.tpgs = cfs.tpgs /\ c.luns = cfs.luns
      /\ c.portals = cfs.portals /\ c.stores = cfs.stores
      /\ c.links = {k \in cfs.links : k[1] # t \/ k[2] \notin L}
  BY LessLinksIs
<1>3. d = [c EXCEPT !.luns = {k \in @ : k[1] # t \/ k[2] \notin L}]
  BY DEF WithoutLuns
<1> HIDE DEF c, d
<1>4. /\ d.iqns = c.iqns /\ d.tpgs = c.tpgs /\ d.links = c.links /\ d.portals = c.portals
      /\ d.stores = c.stores /\ d.luns = {k \in c.luns : k[1] # t \/ k[2] \notin L}
  BY <1>2, <1>3 DEF Cfs
<1>5. ASSUME Nested(cfs, hbas) PROVE Nested(d, hbas)
  <2>1. \A k \in d.links : <<k[1], k[2]>> \in d.luns
    BY <1>2, <1>4, <1>5 DEF Nested
  <2>2. /\ \A s \in d.tpgs : s.name \in d.iqns
        /\ \A k \in d.portals : k[1] \in d.tpgs
        /\ \A k \in d.luns : k[1] \in d.tpgs
        /\ \A s \in d.stores : s.id \in hbas
    BY <1>2, <1>4, <1>5 DEF Nested
  <2> QED BY <2>1, <2>2 DEF Nested
<1> QED BY <1>1, <1>2, <1>4, <1>5 DEF d

LEMMA LessTpgIs ==
  ASSUME cfs \in Cfs, NEW t
  PROVE  LET d == [cfs EXCEPT !.tpgs = @ \ {t}] IN
         /\ d \in Cfs /\ d.iqns = cfs.iqns /\ d.tpgs = cfs.tpgs \ {t}
         /\ Nested(cfs, hbas) /\ ListLUNs(cfs, t) = {}
              /\ (\A p \in Portals : <<t, p>> \notin cfs.portals) => Nested(d, hbas)
<1> DEFINE d == [cfs EXCEPT !.tpgs = @ \ {t}]
<1>1. /\ d \in Cfs /\ d.iqns = cfs.iqns /\ d.tpgs = cfs.tpgs \ {t} /\ d.portals = cfs.portals
      /\ d.luns = cfs.luns /\ d.links = cfs.links /\ d.stores = cfs.stores
  BY DEF Cfs
<1> HIDE DEF d
<1>2. ASSUME Nested(cfs, hbas), ListLUNs(cfs, t) = {},
             \A p \in Portals : <<t, p>> \notin cfs.portals
      PROVE  Nested(d, hbas)
  <2>1. \A k \in cfs.luns : k[1] # t
    <3>1. \A k \in cfs.luns : k[2] \in Ids /\ k = <<k[1], k[2]>>
      BY DEF Cfs
    <3> QED BY <1>2, <3>1 DEF ListLUNs
  <2>2. \A k \in cfs.portals : k[1] # t
    <3>1. \A k \in cfs.portals : k[2] \in Portals /\ k = <<k[1], k[2]>>
      BY DEF Cfs
    <3> QED BY <1>2, <3>1
  <2> QED BY <1>1, <1>2, <2>1, <2>2 DEF Nested
<1> QED BY <1>1, <1>2 DEF d

LEMMA LessIQNIs ==
  ASSUME cfs \in Cfs, NEW n
  PROVE  LET d == [cfs EXCEPT !.iqns = @ \ {n}] IN
         /\ d \in Cfs /\ d.iqns = cfs.iqns \ {n}
         /\ Nested(cfs, hbas) /\ (\A t \in cfs.tpgs : t.name # n) => Nested(d, hbas)
<1> DEFINE d == [cfs EXCEPT !.iqns = @ \ {n}]
<1>1. /\ d \in Cfs /\ d.iqns = cfs.iqns \ {n} /\ d.tpgs = cfs.tpgs /\ d.portals = cfs.portals
      /\ d.luns = cfs.luns /\ d.links = cfs.links /\ d.stores = cfs.stores
  BY DEF Cfs
<1> HIDE DEF d
<1>2. Nested(cfs, hbas) /\ (\A t \in cfs.tpgs : t.name # n) => Nested(d, hbas)
  BY <1>1 DEF Nested
<1> QED BY <1>1, <1>2 DEF d

LEMMA LessStoresIs ==
  ASSUME cfs \in Cfs, NEW i, NEW N
  PROVE  LET d == WithoutStores(cfs, i, N) IN
         /\ d \in Cfs /\ d.iqns = cfs.iqns
         /\ d.stores = {s \in cfs.stores : s.id # i \/ s.name \notin N}
         /\ Nested(cfs, hbas) => Nested(d, hbas)
<1> DEFINE d == WithoutStores(cfs, i, N)
<1>1. d \in Cfs
  BY WithoutTypes
<1>2. /\ d.iqns = cfs.iqns /\ d.tpgs = cfs.tpgs /\ d.luns = cfs.luns /\ d.links = cfs.links
      /\ d.portals = cfs.portals
      /\ d.stores = {s \in cfs.stores : s.id # i \/ s.name \notin N}
  BY DEF WithoutStores, Cfs
<1> HIDE DEF d
<1>3. Nested(cfs, hbas) => Nested(d, hbas)
  BY <1>2 DEF Nested
<1> QED BY <1>1, <1>2, <1>3 DEF d

\* Without an IQN there is nothing in configfs but backstores.
LEMMA OnlyStoresLeft ==
  ASSUME cfs \in Cfs, Nested(cfs, hbas), cfs.iqns = {}
  PROVE  cfs.tpgs = {} /\ cfs.portals = {} /\ cfs.luns = {} /\ cfs.links = {}
<1>1. cfs.tpgs = {}
  BY DEF Nested
<1>2. cfs.portals = {} /\ cfs.luns = {}
  BY <1>1 DEF Nested
<1>3. cfs.links = {}
  BY <1>2 DEF Nested
<1> QED BY <1>1, <1>2, <1>3

\* A process visits the same directory while its list is the same.
LEMMA SamePlace ==
  ASSUME NEW x
  PROVE  /\ run'[x].iqns = run[x].iqns => Iqn(x)' = Iqn(x)
         /\ run'[x].tpgs = run[x].tpgs => Tpg(x)' = Tpg(x)
         /\ run'[x].luns = run[x].luns => Lun(x)' = Lun(x)
         /\ run'[x].hbas = run[x].hbas => Hba(x)' = Hba(x)
BY DEF Iqn, Tpg, Lun, Hba

DownPoints == {"iqn", "tpg", "np", "luns", "sub", "hba", "data", "img", "down ok"}
Fine(x) == /\ TypeOK' /\ Nested(cfs', hbas') /\ calm' \subseteq calm /\ Others(x)
           /\ run'[x].pc \in DownPoints
           /\ x \in calm' => DownOK(x)'
Ready(x) == TypeOK /\ Nested(cfs, hbas) /\ (x \in calm => DownOK(x))

LEMMA StartParts ==
  ASSUME NEW x \in Procs, Ready(x)
  PROVE  run[x] \in Run /\ cfs \in Cfs /\ hbas \subseteq Ids /\ DiskOK /\ RunOK
BY TypeParts DEF Ready, RunOK

LEMMA DownListIQNs ==
  ASSUME NEW x \in Procs, Ready(x), ListIQNs(x)
  PROVE  Fine(x)
<1> DEFINE to(N) == [RunAt("iqn") EXCEPT !["iqns"] = N]
<1>1. cfs.iqns \subseteq Names
  BY StartParts DEF Cfs
<1>2. \A N \in SUBSET cfs.iqns : to(N) \in Run /\ to(N).pc = "iqn" /\ to(N).iqns = N
  BY <1>1, TopIs
<1>3. ListTop(x, cfs.iqns, "iqn", "iqns")
  BY DEF ListIQNs
<1>4. /\ TypeOK' /\ UNCHANGED <<cfs, hbas, disk>> /\ calm' \subseteq calm /\ Others(x)
      /\ \E N \in SUBSET cfs.iqns : run'[x] = to(N)
      /\ x \in calm' => run'[x] = to(cfs.iqns)
  <2>1. \A N \in SUBSET cfs.iqns : [RunAt("iqn") EXCEPT !["iqns"] = N] \in Run
    BY <1>2
  <2>2. TypeOK
    BY DEF Ready
  <2> DEFINE S == cfs.iqns
  <2>3. ListTop(x, S, "iqn", "iqns") /\ \A N \in SUBSET S : [RunAt("iqn") EXCEPT !["iqns"] = N] \in Run
    BY <1>3, <2>1
  <2> HIDE DEF S
  <2>4. /\ TypeOK' /\ UNCHANGED <<cfs, hbas, disk>> /\ calm' \subseteq calm /\ Others(x)
        /\ \E N \in SUBSET S : run'[x] = [RunAt("iqn") EXCEPT !["iqns"] = N]
        /\ x \in calm' => run'[x] = [RunAt("iqn") EXCEPT !["iqns"] = S]
    BY <2>2, <2>3, ListTopIs
  <2> QED BY <2>4 DEF S
<1> HIDE DEF to
<1>5. run'[x].pc = "iqn" /\ (x \in calm' => run'[x].iqns = cfs.iqns)
  BY <1>2, <1>4
<1> QED BY <1>4, <1>5 DEF Fine, Ready, DownOK, InIQN, DownPoints

LEMMA DownListTpgs ==
  ASSUME NEW x \in Procs, Ready(x), ListTpgs(x)
  PROVE  Fine(x)
<1> DEFINE S == {t \in cfs.tpgs : t.name = Iqn(x)}
           r == [run[x] EXCEPT !.pc = "tpg", !.tpgs = S]
<1>1. S \in SUBSET Target
  BY StartParts DEF Cfs
<1>2. r \in Run /\ r.pc = "tpg" /\ r.iqns = run[x].iqns /\ r.tpgs = S
  BY <1>1, StartParts, ToTpgs
<1>3. NextIQN(x) \in Run /\ NextIQN(x).pc = "iqn" /\ NextIQN(x).iqns = run[x].iqns \ {Iqn(x)}
  BY StartParts, NextIs
<1> DEFINE exists == Iqn(x) \in cfs.iqns
<1>4. At(x, "iqn") /\ Visit(x, exists, r, NextIQN(x)) /\ TypeOK
  BY DEF ListTpgs, Ready
<1> HIDE DEF r, exists
<1>5. /\ TypeOK' /\ UNCHANGED <<cfs, hbas, disk>> /\ calm' \subseteq calm /\ Others(x)
      /\ run'[x] \in {r, NextIQN(x)}
      /\ x \in calm' => (exists /\ run'[x] = r) \/ (~exists /\ run'[x] = NextIQN(x))
  BY <1>2, <1>3, <1>4, VisitIs
<1>6. ASSUME x \in calm' PROVE DownOK(x)'
  <2>1. cfs.iqns \subseteq run[x].iqns
    BY <1>4, <1>5, <1>6 DEF Ready, DownOK, At
  <2>2. CASE run'[x] = r
    <3>1. Iqn(x)' = Iqn(x)
      BY <1>2, <2>2, SamePlace
    <3> QED BY <1>2, <1>5, <2>1, <2>2, <3>1 DEF DownOK, InIQN
  <2>3. CASE ~exists /\ run'[x] = NextIQN(x)
    BY <1>3, <1>5, <2>1, <2>3 DEF DownOK, InIQN, exists
  <2> QED BY <1>5, <1>6, <2>2, <2>3
<1>7. run'[x].pc \in DownPoints
  BY <1>2, <1>3, <1>5 DEF DownPoints
<1> QED BY <1>5, <1>6, <1>7 DEF Fine, Ready

LEMMA DownListPortals ==
  ASSUME NEW x \in Procs, Ready(x), ListPortals(x)
  PROVE  Fine(x)
<1> DEFINE S == {p \in Portals : <<Tpg(x), p>> \in cfs.portals}
           r == [run[x] EXCEPT !.pc = "np", !.portals = S]
<1>2. /\ r \in Run /\ r.pc = "np" /\ r.iqns = run[x].iqns /\ r.tpgs = run[x].tpgs
      /\ r.portals = S
  BY StartParts, ToPortals
<1>3. /\ NextTpg(x) \in Run /\ NextTpg(x).pc = "tpg" /\ NextTpg(x).iqns = run[x].iqns
      /\ NextTpg(x).tpgs = run[x].tpgs \ {Tpg(x)}
  BY StartParts, NextIs
<1> DEFINE exists == Tpg(x) \in cfs.tpgs
           skip == NextTpg(x)
<1>4. At(x, "tpg") /\ Visit(x, exists, r, skip) /\ TypeOK
  BY DEF ListPortals, Ready
<1>a. r \in Run /\ skip \in Run
  BY <1>2, <1>3
<1> HIDE DEF S, r, exists, skip
<1>5. /\ TypeOK' /\ UNCHANGED <<cfs, hbas, disk>> /\ calm' \subseteq calm /\ Others(x)
      /\ run'[x] \in {r, skip}
      /\ x \in calm' => (exists /\ run'[x] = r) \/ (~exists /\ run'[x] = skip)
  BY <1>a, <1>4, VisitIs
<1>6. ASSUME x \in calm' PROVE DownOK(x)'
  <2>1. /\ cfs.iqns \subseteq run[x].iqns
        /\ {t \in cfs.tpgs : t.name = Iqn(x)} \subseteq run[x].tpgs
    BY <1>4, <1>5, <1>6 DEF Ready, DownOK, At, InIQN
  <2>0. Iqn(x)' = Iqn(x)
    BY <1>2, <1>3, <1>5, SamePlace DEF skip
  <2>2. CASE run'[x] = r
    <3>1. Tpg(x)' = Tpg(x)
      BY <1>2, <2>2, SamePlace
    <3> QED BY <1>2, <1>5, <2>0, <2>1, <2>2, <3>1 DEF DownOK, InIQN, S
  <2>3. CASE ~exists /\ run'[x] = skip
    BY <1>3, <1>5, <2>0, <2>1, <2>3 DEF DownOK, InIQN, exists, skip
  <2> QED BY <1>5, <1>6, <2>2, <2>3
<1>7. run'[x].pc \in DownPoints
  BY <1>2, <1>3, <1>5 DEF DownPoints, skip
<1> QED BY <1>5, <1>6, <1>7 DEF Fine, Ready

LEMMA DownRemovePortal ==
  ASSUME NEW x \in Procs, Ready(x), RemovePortal(x)
  PROVE  Fine(x)
<1> DEFINE t == Tpg(x)
<1>1. PICK p \in run[x].portals :
        Remove(x, TRUE, WithoutPortals(cfs, t, {p}), [run[x] EXCEPT !.portals = @ \ {p}])
  BY DEF RemovePortal
<1> DEFINE d == WithoutPortals(cfs, t, {p})
           r == [run[x] EXCEPT !.portals = @ \ {p}]
<1>2. /\ d \in Cfs /\ d.iqns = cfs.iqns /\ d.tpgs = cfs.tpgs
      /\ d.portals = {k \in cfs.portals : k[1] # t \/ k[2] \notin {p}}
      /\ Nested(cfs, hbas) => Nested(d, hbas)
  BY StartParts, LessPortalsIs
<1>3. /\ r \in Run /\ r.pc = run[x].pc /\ r.iqns = run[x].iqns
      /\ r.tpgs = run[x].tpgs /\ r.portals = run[x].portals \ {p}
  BY StartParts, LessPortals
<1>4. /\ At(x, "np") /\ TypeOK /\ Nested(cfs, hbas) /\ Remove(x, TRUE, d, r)
      /\ UNCHANGED <<hbas, disk>>
  BY <1>1 DEF RemovePortal, Ready
<1> HIDE DEF d, r
<1>5. /\ TypeOK' /\ calm' \subseteq calm /\ Others(x) /\ run'[x] = r
      /\ cfs' = cfs \/ cfs' = d
      /\ x \in calm' => cfs' = d
  BY <1>2, <1>3, <1>4, RemoveIs
<1>6. ASSUME x \in calm' PROVE DownOK(x)'
  <2>1. /\ cfs.iqns \subseteq run[x].iqns
        /\ {u \in cfs.tpgs : u.name = Iqn(x)} \subseteq run[x].tpgs
        /\ \A q \in Portals : <<t, q>> \in cfs.portals => q \in run[x].portals
    BY <1>4, <1>5, <1>6 DEF Ready, DownOK, At, InIQN
  <2>2. Iqn(x)' = Iqn(x) /\ Tpg(x)' = t
    BY <1>3, <1>5, SamePlace
  <2> HIDE DEF t
  <2>3. \A q \in Portals : <<t, q>> \in cfs'.portals => q \in run'[x].portals
    BY <1>2, <1>3, <1>5, <1>6, <2>1
  <2> QED BY <1>2, <1>3, <1>4, <1>5, <1>6, <2>1, <2>2, <2>3 DEF DownOK, InIQN, At
<1>7. run'[x].pc \in DownPoints
  BY <1>3, <1>4, <1>5 DEF DownPoints, At
<1> QED BY <1>2, <1>4, <1>5, <1>6, <1>7 DEF Fine

LEMMA DownListLUNs ==
  ASSUME NEW x \in Procs, Ready(x), ListTpgLUNs(x)
  PROVE  Fine(x)
<1> DEFINE S == ListLUNs(cfs, Tpg(x))
           r == [run[x] EXCEPT !.pc = "luns", !.luns = S]
<1>1. S \in SUBSET Ids
  BY DEF ListLUNs
<1>2. /\ r \in Run /\ r.pc = "luns" /\ r.iqns = run[x].iqns /\ r.tpgs = run[x].tpgs
      /\ r.luns = S
  BY <1>1, StartParts, ToLuns
<1>3. /\ NextTpg(x) \in Run /\ NextTpg(x).pc = "tpg" /\ NextTpg(x).iqns = run[x].iqns
      /\ NextTpg(x).tpgs = run[x].tpgs \ {Tpg(x)}
  BY StartParts, NextIs
<1> DEFINE exists == Tpg(x) \in cfs.tpgs
           skip == NextTpg(x)
<1>4. At(x, "np") /\ run[x].portals = {} /\ Visit(x, exists, r, skip) /\ TypeOK
  BY DEF ListTpgLUNs, Ready
<1>a. r \in Run /\ skip \in Run
  BY <1>2, <1>3
<1> HIDE DEF S, r, exists, skip
<1>5. /\ TypeOK' /\ UNCHANGED <<cfs, hbas, disk>> /\ calm' \subseteq calm /\ Others(x)
      /\ run'[x] \in {r, skip}
      /\ x \in calm' => (exists /\ run'[x] = r) \/ (~exists /\ run'[x] = skip)
  BY <1>a, <1>4, VisitIs
<1>6. ASSUME x \in calm' PROVE DownOK(x)'
  <2>1. /\ cfs.iqns \subseteq run[x].iqns
        /\ {t \in cfs.tpgs : t.name = Iqn(x)} \subseteq run[x].tpgs
        /\ \A p \in Portals : <<Tpg(x), p>> \notin cfs.portals
    BY <1>4, <1>5, <1>6 DEF Ready, DownOK, At, InIQN
  <2>0. Iqn(x)' = Iqn(x)
    BY <1>2, <1>3, <1>5, SamePlace DEF skip
  <2>2. CASE run'[x] = r
    <3>1. Tpg(x)' = Tpg(x)
      BY <1>2, <2>2, SamePlace
    <3>2. ListLUNs(cfs, Tpg(x))' = S
      BY <1>5, <3>1 DEF S
    <3> QED BY <1>2, <1>5, <2>0, <2>1, <2>2, <3>1, <3>2 DEF DownOK, InIQN
  <2>3. CASE ~exists /\ run'[x] = skip
    BY <1>3, <1>5, <2>0, <2>1, <2>3 DEF DownOK, InIQN, exists, skip
  <2> QED BY <1>5, <1>6, <2>2, <2>3
<1>7. run'[x].pc \in DownPoints
  BY <1>2, <1>3, <1>5 DEF DownPoints, skip
<1> QED BY <1>5, <1>6, <1>7 DEF Fine, Ready

LEMMA DownRemoveLink ==
  ASSUME NEW x \in Procs, Ready(x), RemoveLink(x)
  PROVE  Fine(x)
<1> DEFINE t == Tpg(x)
           l == Lun(x)
           able == <<t, l>> \in cfs.luns
           d == WithoutLinks(cfs, t, {l})
           sub == [run[x] EXCEPT !.pc = "sub"]
           next == NextLUN(x)
           r == IF able THEN sub ELSE next
<1>1. /\ d \in Cfs /\ d.iqns = cfs.iqns /\ d.tpgs = cfs.tpgs /\ d.luns = cfs.luns
      /\ d.portals = cfs.portals
      /\ d.links = {k \in cfs.links : k[1] # t \/ k[2] \notin {l}}
      /\ Nested(cfs, hbas) => Nested(d, hbas)
  BY StartParts, LessLinksIs
<1>2. /\ sub \in Run /\ sub.pc = "sub" /\ sub.iqns = run[x].iqns /\ sub.tpgs = run[x].tpgs
      /\ sub.luns = run[x].luns
  BY StartParts, ToSub
<1>3. /\ next \in Run /\ next.pc = "luns" /\ next.iqns = run[x].iqns
      /\ next.tpgs = run[x].tpgs /\ next.luns = run[x].luns \ {l}
  BY StartParts, NextIs
<1>4. /\ At(x, "luns") /\ TypeOK /\ Nested(cfs, hbas) /\ UNCHANGED <<hbas, disk>>
      /\ \/ Remove(x, able, d, r)
         \/ Goto(x, next) /\ Fails(x) /\ cfs' = cfs
  BY DEF RemoveLink, Ready
<1>a. r \in Run
  BY <1>2, <1>3
<1> HIDE DEF d, sub, next, able
<1>5. CASE Remove(x, able, d, r)
  <2> HIDE DEF r
  <2>1. /\ TypeOK' /\ calm' \subseteq calm /\ Others(x) /\ run'[x] = r
        /\ cfs' = cfs \/ (able /\ cfs' = d)
        /\ x \in calm' => (able /\ cfs' = d) \/ (~able /\ cfs' = cfs)
    BY <1>1, <1>4, <1>5, <1>a, RemoveIs
  <2>2. ASSUME x \in calm' PROVE DownOK(x)'
    <3>1. /\ cfs.iqns \subseteq run[x].iqns
          /\ {u \in cfs.tpgs : u.name = Iqn(x)} \subseteq run[x].tpgs
          /\ \A p \in Portals : <<t, p>> \notin cfs.portals
          /\ ListLUNs(cfs, t) \subseteq run[x].luns
      BY <1>4, <2>1, <2>2 DEF Ready, DownOK, At, InIQN
    <3>2. Iqn(x)' = Iqn(x) /\ Tpg(x)' = t
      BY <1>2, <1>3, <2>1, SamePlace DEF r
    <3> HIDE DEF t
    <3>3. CASE able /\ cfs' = d
      <4>1. run'[x] = sub
        BY <2>1, <3>3 DEF r
      <4>2. Lun(x)' = l
        BY <1>2, <4>1, SamePlace
      <4> HIDE DEF l
      <4>3. LinkOf(cfs', t, l) = {} /\ ListLUNs(cfs', t) = ListLUNs(cfs, t)
        BY <1>1, <3>3 DEF LinkOf, ListLUNs
      <4> QED BY <1>1, <1>2, <3>1, <3>2, <3>3, <4>1, <4>2, <4>3 DEF DownOK, InIQN
    <3>4. CASE ~able /\ cfs' = cfs
      <4>1. run'[x] = next
        BY <2>1, <3>4 DEF r
      <4>2. ListLUNs(cfs', t) \subseteq run[x].luns \ {l}
        BY <3>1, <3>4 DEF ListLUNs, able
      <4> HIDE DEF l
      <4> QED BY <1>3, <3>1, <3>2, <3>4, <4>1, <4>2 DEF DownOK, InIQN
    <3> QED BY <2>1, <2>2, <3>3, <3>4
  <2>3. run'[x].pc \in DownPoints
    BY <1>2, <1>3, <2>1 DEF DownPoints, r
  <2> QED BY <1>1, <1>4, <2>1, <2>2, <2>3 DEF Fine
<1>6. CASE Goto(x, next) /\ Fails(x) /\ cfs' = cfs
  <2>1. RunOK /\ CalmOK /\ CountsOK /\ DiskOK /\ cfs \in Cfs /\ hbas \subseteq Ids
    BY <1>4, TypeParts
  <2>2. CountsOK' /\ CalmOK' /\ calm' \subseteq calm
    BY <1>6, <2>1, CountsStep
  <2>3. RunOK' /\ Others(x) /\ run'[x] = next
    BY <1>3, <1>6, <2>1, GotoIs, GotoOthers DEF RunOK
  <2>4. TypeOK'
    BY <1>4, <1>6, <2>1, <2>2, <2>3 DEF TypeOK, RunOK, CalmOK, CountsOK, DiskOK
  <2>5. x \notin calm' /\ run'[x].pc \in DownPoints
    BY <1>3, <1>6, <2>3 DEF Fails, DownPoints
  <2> QED BY <1>4, <1>6, <2>2, <2>3, <2>4, <2>5 DEF Fine
<1> QED BY <1>4, <1>5, <1>6

LEMMA DownRemoveLUN ==
  ASSUME NEW x \in Procs, Ready(x), RemoveLUN(x)
  PROVE  Fine(x)
<1> DEFINE t == Tpg(x)
           l == Lun(x)
           able == LinkOf(cfs, t, l) = {}
           d == WithoutLuns(cfs, t, {l})
           r == NextLUN(x)
<1>1. /\ d \in Cfs /\ d.iqns = cfs.iqns /\ d.tpgs = cfs.tpgs /\ d.portals = cfs.portals
      /\ d.luns = {k \in cfs.luns : k[1] # t \/ k[2] \notin {l}}
      /\ Nested(cfs, hbas) => Nested(d, hbas)
  BY StartParts, LessLunsIs
<1>3. /\ r \in Run /\ r.pc = "luns" /\ r.iqns = run[x].iqns
      /\ r.tpgs = run[x].tpgs /\ r.luns = run[x].luns \ {l}
  BY StartParts, NextIs
<1>4. /\ At(x, "sub") /\ TypeOK /\ Nested(cfs, hbas) /\ UNCHANGED <<hbas, disk>>
      /\ Remove(x, able, d, r)
  BY DEF RemoveLUN, Ready
<1> HIDE DEF d, r, able
<1>5. /\ TypeOK' /\ calm' \subseteq calm /\ Others(x) /\ run'[x] = r
      /\ cfs' = cfs \/ (able /\ cfs' = d)
      /\ x \in calm' => (able /\ cfs' = d) \/ (~able /\ cfs' = cfs)
  BY <1>1, <1>3, <1>4, RemoveIs
<1>6. ASSUME x \in calm' PROVE DownOK(x)'
  <2>1. /\ cfs.iqns \subseteq run[x].iqns
        /\ {u \in cfs.tpgs : u.name = Iqn(x)} \subseteq run[x].tpgs
        /\ \A p \in Portals : <<t, p>> \notin cfs.portals
        /\ ListLUNs(cfs, t) \subseteq run[x].luns
        /\ able
    BY <1>4, <1>5, <1>6 DEF Ready, DownOK, At, InIQN, able
  <2>2. Iqn(x)' = Iqn(x) /\ Tpg(x)' = t
    BY <1>3, <1>5, SamePlace
  <2> HIDE DEF t, l
  <2>3. ListLUNs(cfs', t) \subseteq run'[x].luns
    BY <1>1, <1>3, <1>5, <1>6, <2>1 DEF ListLUNs
  <2> QED BY <1>1, <1>3, <1>5, <1>6, <2>1, <2>2, <2>3 DEF DownOK, InIQN
<1>7. run'[x].pc \in DownPoints
  BY <1>3, <1>5 DEF DownPoints
<1> QED BY <1>1, <1>4, <1>5, <1>6, <1>7 DEF Fine

LEMMA DownRemoveTpg ==
  ASSUME NEW x \in Procs, Ready(x), RemoveTpg(x)
  PROVE  Fine(x)
<1> DEFINE t == Tpg(x)
           able == ListLUNs(cfs, t) = {} /\ \A p \in Portals : <<t, p>> \notin cfs.portals
           d == [cfs EXCEPT !.tpgs = @ \ {t}]
           r == NextTpg(x)
<1>1. /\ d \in Cfs /\ d.iqns = cfs.iqns /\ d.tpgs = cfs.tpgs \ {t}
      /\ Nested(cfs, hbas) /\ able => Nested(d, hbas)
  BY StartParts, LessTpgIs
<1>3. /\ r \in Run /\ r.pc = "tpg" /\ r.iqns = run[x].iqns
      /\ r.tpgs = run[x].tpgs \ {t}
  BY StartParts, NextIs
<1>4. /\ At(x, "luns") /\ TypeOK /\ Nested(cfs, hbas) /\ UNCHANGED <<hbas, disk>>
      /\ Remove(x, able, d, r) /\ run[x].luns = {}
  BY DEF RemoveTpg, Ready
<1> HIDE DEF d, r, able
<1>5. /\ TypeOK' /\ calm' \subseteq calm /\ Others(x) /\ run'[x] = r
      /\ cfs' = cfs \/ (able /\ cfs' = d)
      /\ x \in calm' => (able /\ cfs' = d) \/ (~able /\ cfs' = cfs)
  BY <1>1, <1>3, <1>4, RemoveIs
<1>6. ASSUME x \in calm' PROVE DownOK(x)'
  <2>1. /\ cfs.iqns \subseteq run[x].iqns
        /\ {u \in cfs.tpgs : u.name = Iqn(x)} \subseteq run[x].tpgs
        /\ able
    BY <1>4, <1>5, <1>6 DEF Ready, DownOK, At, InIQN, able
  <2>2. Iqn(x)' = Iqn(x)
    BY <1>3, <1>5, SamePlace
  <2> HIDE DEF t
  <2> QED BY <1>1, <1>3, <1>5, <1>6, <2>1, <2>2 DEF DownOK, InIQN
<1>7. run'[x].pc \in DownPoints
  BY <1>3, <1>5 DEF DownPoints
<1> QED BY <1>1, <1>4, <1>5, <1>6, <1>7 DEF Fine

LEMMA DownRemoveIQN ==
  ASSUME NEW x \in Procs, Ready(x), RemoveIQN(x)
  PROVE  Fine(x)
<1> DEFINE n == Iqn(x)
           able == \A t \in cfs.tpgs : t.name # n
           d == [cfs EXCEPT !.iqns = @ \ {n}]
           r == NextIQN(x)
<1>1. /\ d \in Cfs /\ d.iqns = cfs.iqns \ {n}
      /\ Nested(cfs, hbas) /\ able => Nested(d, hbas)
  BY StartParts, LessIQNIs
<1>3. r \in Run /\ r.pc = "iqn" /\ r.iqns = run[x].iqns \ {n}
  BY StartParts, NextIs
<1>4. /\ At(x, "tpg") /\ TypeOK /\ Nested(cfs, hbas) /\ UNCHANGED <<hbas, disk>>
      /\ Remove(x, able, d, r) /\ run[x].tpgs = {}
  BY DEF RemoveIQN, Ready
<1> HIDE DEF d, r, able
<1>5. /\ TypeOK' /\ calm' \subseteq calm /\ Others(x) /\ run'[x] = r
      /\ cfs' = cfs \/ (able /\ cfs' = d)
      /\ x \in calm' => (able /\ cfs' = d) \/ (~able /\ cfs' = cfs)
  BY <1>1, <1>3, <1>4, RemoveIs
<1>6. ASSUME x \in calm' PROVE DownOK(x)'
  <2>1. /\ cfs.iqns \subseteq run[x].iqns
        /\ able
    BY <1>4, <1>5, <1>6 DEF Ready, DownOK, At, InIQN, able
  <2> HIDE DEF n
  <2> QED BY <1>1, <1>3, <1>5, <1>6, <2>1 DEF DownOK, InIQN
<1>7. run'[x].pc \in DownPoints
  BY <1>3, <1>5 DEF DownPoints
<1> QED BY <1>1, <1>4, <1>5, <1>6, <1>7 DEF Fine

LEMMA DownListHBAs ==
  ASSUME NEW x \in Procs, Ready(x), ListHBAs(x)
  PROVE  Fine(x)
<1> DEFINE to(N) == [RunAt("hba") EXCEPT !["hbas"] = N]
<1>1. hbas \subseteq Ids
  BY StartParts
<1>2. \A N \in SUBSET hbas : to(N) \in Run /\ to(N).pc = "hba" /\ to(N).hbas = N
  BY <1>1, TopIs
<1>3. TypeOK /\ Nested(cfs, hbas) /\ At(x, "iqn") /\ run[x].iqns = {}
  BY DEF ListHBAs, Ready
<1>4. /\ TypeOK' /\ UNCHANGED <<cfs, hbas, disk>> /\ calm' \subseteq calm /\ Others(x)
      /\ \E N \in SUBSET hbas : run'[x] = to(N)
      /\ x \in calm' => run'[x] = to(hbas)
  <2> DEFINE S == hbas
  <2>1. ListTop(x, S, "hba", "hbas")
    BY DEF ListHBAs
  <2>2. \A N \in SUBSET S : [RunAt("hba") EXCEPT !["hbas"] = N] \in Run
    BY <1>2
  <2> HIDE DEF S
  <2>3. /\ TypeOK' /\ UNCHANGED <<cfs, hbas, disk>> /\ calm' \subseteq calm /\ Others(x)
        /\ \E N \in SUBSET S : run'[x] = [RunAt("hba") EXCEPT !["hbas"] = N]
        /\ x \in calm' => run'[x] = [RunAt("hba") EXCEPT !["hbas"] = S]
    BY <1>3, <2>1, <2>2, ListTopIs
  <2> QED BY <2>3 DEF S
<1> HIDE DEF to
<1>5. run'[x].pc = "hba" /\ (x \in calm' => run'[x].hbas = hbas)
  BY <1>2, <1>4
<1>6. ASSUME x \in calm' PROVE DownOK(x)'
  <2>1. cfs.iqns = {}
    BY <1>3, <1>4, <1>6 DEF Ready, DownOK, At
  <2> QED BY <1>4, <1>5, <1>6, <2>1 DEF DownOK, InIQN
<1> QED BY <1>3, <1>4, <1>5, <1>6 DEF Fine, DownPoints

LEMMA DownListStores ==
  ASSUME NEW x \in Procs, Ready(x), ListStores(x)
  PROVE  Fine(x)
<1> DEFINE i == Hba(x)
           S == NamesOf(cfs, i)
           r == [run[x] EXCEPT !.pc = "data", !.names = S]
           exists == i \in hbas
           skip == NextHBA(x)
<1>1. S \in SUBSET Names
  BY StartParts DEF NamesOf, Cfs, Store
<1>2. r \in Run /\ r.pc = "data" /\ r.hbas = run[x].hbas /\ r.names = S
  BY <1>1, StartParts, ToNames
<1>3. skip \in Run /\ skip.pc = "hba" /\ skip.hbas = run[x].hbas \ {i}
  BY StartParts, NextIs
<1>4. /\ At(x, "hba") /\ TypeOK /\ Nested(cfs, hbas) /\ Visit(x, exists, r, skip)
  BY DEF ListStores, Ready
<1> HIDE DEF S, r, exists, skip
<1>5. /\ TypeOK' /\ UNCHANGED <<cfs, hbas, disk>> /\ calm' \subseteq calm /\ Others(x)
      /\ run'[x] \in {r, skip}
      /\ x \in calm' => (exists /\ run'[x] = r) \/ (~exists /\ run'[x] = skip)
  BY <1>2, <1>3, <1>4, VisitIs
<1>6. ASSUME x \in calm' PROVE DownOK(x)'
  <2>1. cfs.iqns = {} /\ hbas \subseteq run[x].hbas
    BY <1>4, <1>5, <1>6 DEF Ready, DownOK, At
  <2>2. CASE run'[x] = r
    <3>1. Hba(x)' = i
      BY <1>2, <2>2, SamePlace
    <3> HIDE DEF i
    <3>2. NamesOf(cfs', i) = S
      BY <1>5 DEF S
    <3> QED BY <1>2, <1>5, <2>1, <2>2, <3>1, <3>2 DEF DownOK, InIQN
  <2>3. CASE ~exists /\ run'[x] = skip
    <3>1. i \notin hbas
      BY <2>3 DEF exists
    <3> HIDE DEF i
    <3> QED BY <1>3, <1>5, <2>1, <2>3, <3>1 DEF DownOK, InIQN
  <2> QED BY <1>5, <1>6, <2>2, <2>3
<1>7. run'[x].pc \in DownPoints
  BY <1>2, <1>3, <1>5 DEF DownPoints
<1> QED BY <1>4, <1>5, <1>6, <1>7 DEF Fine

LEMMA DownRemoveStore ==
  ASSUME NEW x \in Procs, Ready(x), RemoveStore(x)
  PROVE  Fine(x)
<1> DEFINE i == Hba(x)
<1>0. PICK n \in run[x].names :
        Remove(x, n \notin LinkedNames(cfs, i), WithoutStores(cfs, i, {n}),
               [run[x] EXCEPT !.names = @ \ {n}])
  BY DEF RemoveStore
<1> DEFINE able == n \notin LinkedNames(cfs, i)
           d == WithoutStores(cfs, i, {n})
           r == [run[x] EXCEPT !.names = @ \ {n}]
<1>1. /\ d \in Cfs /\ d.iqns = cfs.iqns
      /\ d.stores = {s \in cfs.stores : s.id # i \/ s.name \notin {n}}
      /\ Nested(cfs, hbas) => Nested(d, hbas)
  BY StartParts, LessStoresIs
<1>3. r \in Run /\ r.pc = run[x].pc /\ r.hbas = run[x].hbas /\ r.names = run[x].names \ {n}
  BY StartParts, LessNames
<1>4. /\ At(x, "data") /\ TypeOK /\ Nested(cfs, hbas) /\ UNCHANGED <<hbas, disk>>
      /\ Remove(x, able, d, r)
  BY <1>0 DEF RemoveStore, Ready
<1> HIDE DEF d, r, able
<1>5. /\ TypeOK' /\ calm' \subseteq calm /\ Others(x) /\ run'[x] = r
      /\ cfs' = cfs \/ (able /\ cfs' = d)
      /\ x \in calm' => (able /\ cfs' = d) \/ (~able /\ cfs' = cfs)
  BY <1>1, <1>3, <1>4, RemoveIs
<1>6. ASSUME x \in calm' PROVE DownOK(x)'
  <2>1. cfs.iqns = {} /\ hbas \subseteq run[x].hbas /\ NamesOf(cfs, i) \subseteq run[x].names
    BY <1>4, <1>5, <1>6 DEF Ready, DownOK, At
  <2>2. able
    BY <1>4, <2>1, OnlyStoresLeft, StartParts DEF able, LinkedNames
  <2>3. Hba(x)' = i
    BY <1>3, <1>5, SamePlace
  <2> HIDE DEF i
  <2>4. NamesOf(cfs', i) \subseteq run'[x].names
    BY <1>1, <1>3, <1>5, <1>6, <2>1, <2>2 DEF NamesOf
  <2> QED BY <1>1, <1>3, <1>4, <1>5, <1>6, <2>1, <2>2, <2>3, <2>4 DEF DownOK, InIQN, At
<1>7. run'[x].pc \in DownPoints
  BY <1>3, <1>4, <1>5 DEF DownPoints, At
<1> QED BY <1>1, <1>4, <1>5, <1>6, <1>7 DEF Fine

LEMMA DownRemoveHBA ==
  ASSUME NEW x \in Procs, Ready(x), RemoveHBA(x)
  PROVE  Fine(x)
<1> DEFINE i == Hba(x)
           r == NextHBA(x)
<1>0. /\ RunOK /\ CalmOK /\ CountsOK /\ DiskOK /\ cfs \in Cfs /\ hbas \subseteq Ids
  BY TypeParts DEF Ready
<1>1. r \in Run /\ r.pc = "hba" /\ r.hbas = run[x].hbas \ {i}
  BY StartParts, NextIs
<1>2. /\ At(x, "data") /\ TypeOK /\ Nested(cfs, hbas) /\ UNCHANGED <<cfs, disk>>
      /\ run[x].names = {} /\ Goto(x, r)
      /\ \/ hbas' = (IF NamesOf(cfs, i) = {} THEN hbas \ {i} ELSE hbas) /\ Works
         \/ hbas' = hbas /\ Fails(x)
  BY DEF RemoveHBA, Ready
<1> HIDE DEF i, r
<1>3. CountsOK' /\ CalmOK' /\ calm' \subseteq calm
  BY <1>0, <1>2, CountsStep
<1>4. RunOK' /\ Others(x) /\ run'[x] = r
  BY <1>0, <1>1, <1>2, GotoIs, GotoOthers DEF RunOK
<1>5. TypeOK'
  BY <1>0, <1>2, <1>3, <1>4 DEF TypeOK, RunOK, CalmOK, CountsOK, DiskOK
<1>6. Nested(cfs', hbas')
  <2>1. CASE hbas' = hbas
    BY <1>2, <2>1
  <2>2. CASE NamesOf(cfs, i) = {} /\ hbas' = hbas \ {i}
    <3>1. \A s \in cfs.stores : s.id # i
      BY <2>2 DEF NamesOf
    <3> QED BY <1>2, <2>2, <3>1 DEF Nested
  <2> QED BY <1>2, <2>1, <2>2
<1>7. ASSUME x \in calm' PROVE DownOK(x)'
  <2>1. cfs.iqns = {} /\ hbas \subseteq run[x].hbas /\ NamesOf(cfs, i) \subseteq run[x].names
    BY <1>2, <1>3, <1>7 DEF Ready, DownOK, At, i
  <2>2. ~Fails(x)
    BY <1>7 DEF Fails
  <2>3. hbas' = hbas \ {i}
    BY <1>2, <2>1, <2>2
  <2> QED BY <1>1, <1>2, <1>4, <2>1, <2>3 DEF DownOK, InIQN
<1> QED BY <1>1, <1>3, <1>4, <1>5, <1>6, <1>7 DEF Fine, DownPoints

LEMMA DownListImages ==
  ASSUME NEW x \in Procs, Ready(x), ListImages(x)
  PROVE  Fine(x)
<1> DEFINE S == {q \in Paths : disk[q] # NoFile}
           to(N) == [RunAt("img") EXCEPT !["imgs"] = N]
<1>2. \A N \in SUBSET S : to(N) \in Run /\ to(N).pc = "img" /\ to(N).imgs = N
  BY TopIs
<1>3. TypeOK /\ Nested(cfs, hbas) /\ At(x, "hba") /\ run[x].hbas = {}
  BY DEF ListImages, Ready
<1>4. /\ TypeOK' /\ UNCHANGED <<cfs, hbas, disk>> /\ calm' \subseteq calm /\ Others(x)
      /\ \E N \in SUBSET S : run'[x] = to(N)
      /\ x \in calm' => run'[x] = to(S)
  <2>1. ListTop(x, S, "img", "imgs")
    BY DEF ListImages
  <2>2. \A N \in SUBSET S : [RunAt("img") EXCEPT !["imgs"] = N] \in Run
    BY <1>2
  <2> HIDE DEF S
  <2>3. /\ TypeOK' /\ UNCHANGED <<cfs, hbas, disk>> /\ calm' \subseteq calm /\ Others(x)
        /\ \E N \in SUBSET S : run'[x] = [RunAt("img") EXCEPT !["imgs"] = N]
        /\ x \in calm' => run'[x] = [RunAt("img") EXCEPT !["imgs"] = S]
    BY <1>3, <2>1, <2>2, ListTopIs
  <2> QED BY <2>3
<1> HIDE DEF to
<1>5. run'[x].pc = "img" /\ (x \in calm' => run'[x].imgs = S)
  BY <1>2, <1>4
<1>6. ASSUME x \in calm' PROVE DownOK(x)'
  <2>1. cfs.iqns = {} /\ hbas = {}
    BY <1>3, <1>4, <1>6 DEF Ready, DownOK, At
  <2>2. \A q \in Paths : disk'[q] # NoFile => q \in run'[x].imgs
    BY <1>4, <1>5, <1>6
  <2> QED BY <1>4, <1>5, <1>6, <2>1, <2>2 DEF DownOK, InIQN
<1> QED BY <1>3, <1>4, <1>5, <1>6 DEF Fine, DownPoints

LEMMA DownRemoveImage ==
  ASSUME NEW x \in Procs, Ready(x), RemoveImage(x)
  PROVE  Fine(x)
<1>0. /\ RunOK /\ CalmOK /\ CountsOK /\ DiskOK /\ cfs \in Cfs /\ hbas \subseteq Ids
  BY TypeParts DEF Ready
<1>2. PICK q \in run[x].imgs :
        /\ \/ disk' = [disk EXCEPT ![q] = NoFile] /\ cfs' = Unlink(cfs, q) /\ Works
           \/ disk' = disk /\ cfs' = cfs /\ Fails(x)
        /\ Goto(x, [run[x] EXCEPT !.imgs = @ \ {q}])
  BY DEF RemoveImage
<1> DEFINE r == [run[x] EXCEPT !.imgs = @ \ {q}]
<1>1. r \in Run /\ r.pc = run[x].pc /\ r.imgs = run[x].imgs \ {q}
  BY StartParts, LessImages
<1>3. /\ At(x, "img") /\ TypeOK /\ Nested(cfs, hbas) /\ hbas' = hbas
      /\ Goto(x, r)
  BY <1>2 DEF RemoveImage, Ready
<1> HIDE DEF r
<1>4. CountsOK' /\ CalmOK' /\ calm' \subseteq calm
  BY <1>0, <1>2, CountsStep
<1>5. RunOK' /\ Others(x) /\ run'[x] = r
  BY <1>0, <1>1, <1>3, GotoIs, GotoOthers DEF RunOK
<1>a. q \in Paths
  BY <1>0 DEF RunOK, Run
<1>b. DiskOK' /\ \A p \in Paths : disk'[p] = disk[p] \/ (p = q /\ disk'[p] = NoFile)
  BY <1>0, <1>2, <1>a DEF DiskOK, DiskFile
<1>c. cfs' \in Cfs /\ cfs'.iqns = cfs.iqns /\ Nested(cfs', hbas)
  <2>1. CASE cfs' = cfs
    BY <1>0, <1>3, <2>1
  <2>2. CASE cfs' = Unlink(cfs, q)
    <3>1. /\ cfs' \in Cfs /\ cfs'.iqns = cfs.iqns /\ cfs'.tpgs = cfs.tpgs
          /\ cfs'.portals = cfs.portals /\ cfs'.luns = cfs.luns /\ cfs'.links = cfs.links
          /\ \A t \in cfs'.stores : \E u \in cfs.stores : t.id = u.id
      BY <1>0, <1>a, <2>2, UnlinkFacts
    <3> QED BY <1>3, <3>1 DEF Nested
  <2> QED BY <1>2, <2>1, <2>2
<1>6. TypeOK'
  BY <1>0, <1>3, <1>4, <1>5, <1>b, <1>c DEF TypeOK, RunOK, CalmOK, CountsOK, DiskOK
<1>7. ASSUME x \in calm' PROVE DownOK(x)'
  <2>1. cfs.iqns = {} /\ hbas = {} /\ \A p \in Paths : disk[p] # NoFile => p \in run[x].imgs
    BY <1>3, <1>4, <1>7 DEF Ready, DownOK, At
  <2>2. ~Fails(x)
    BY <1>7 DEF Fails
  <2>3. disk'[q] = NoFile
    BY <1>0, <1>2, <1>a, <2>2 DEF DiskOK
  <2>4. \A p \in Paths : disk'[p] # NoFile => p \in run'[x].imgs
    BY <1>1, <1>5, <1>b, <2>1, <2>3
  <2> QED BY <1>1, <1>3, <1>5, <1>c, <2>1, <2>4 DEF DownOK, InIQN, At
<1>8. run'[x].pc \in DownPoints
  BY <1>1, <1>3, <1>5 DEF DownPoints, At
<1> QED BY <1>3, <1>4, <1>5, <1>6, <1>7, <1>8, <1>c DEF Fine

LEMMA DownReturnsOK ==
  ASSUME NEW x \in Procs, Ready(x), DownReturns(x)
  PROVE  Fine(x)
<1>0. /\ RunOK /\ CalmOK /\ CountsOK /\ DiskOK /\ cfs \in Cfs /\ hbas \subseteq Ids
  BY TypeParts DEF Ready
<1>1. RunAt("down ok") \in Run /\ RunAt("down ok").pc = "down ok"
  BY RunAtType, RunAtIs DEF Ended
<1>2. /\ At(x, "img") /\ run[x].imgs = {} /\ Goto(x, RunAt("down ok")) /\ Works
      /\ UNCHANGED <<cfs, hbas, disk>> /\ Nested(cfs, hbas)
  BY DEF DownReturns, Ready
<1>3. RunOK' /\ Others(x) /\ run'[x] = RunAt("down ok")
  BY <1>0, <1>1, <1>2, GotoIs, GotoOthers DEF RunOK
<1>4. CountsOK' /\ CalmOK' /\ calm' = calm
  BY <1>0, <1>2 DEF Works, CountsOK, CalmOK
<1>5. TypeOK'
  BY <1>0, <1>2, <1>3, <1>4 DEF TypeOK, RunOK, CalmOK, CountsOK, DiskOK
<1>6. ASSUME x \in calm' PROVE DownOK(x)'
  <2>1. cfs.iqns = {} /\ hbas = {} /\ \A q \in Paths : disk[q] = NoFile
    BY <1>2, <1>4, <1>6 DEF Ready, DownOK, At
  <2> QED BY <1>1, <1>2, <1>3, <2>1 DEF DownOK, InIQN
<1> QED BY <1>1, <1>2, <1>3, <1>4, <1>5, <1>6 DEF Fine, DownPoints

\* Every step of PlayDown.
LEMMA DownStep ==
  ASSUME NEW x \in Procs, Ready(x), PlayDown(x)
  PROVE  Fine(x)
BY DownListIQNs, DownListTpgs, DownListPortals, DownRemovePortal, DownListLUNs,
   DownRemoveLink, DownRemoveLUN, DownRemoveTpg, DownRemoveIQN, DownListHBAs,
   DownListStores, DownRemoveStore, DownRemoveHBA, DownListImages, DownRemoveImage,
   DownReturnsOK DEF PlayDown

-----------------------------------------------------------------------------
(* The invariant                                                            *)

LEMMA DoOthers ==
  ASSUME TypeOK, NEW x \in Procs, NEW outcomes, NEW pc, Do(x, outcomes, pc)
  PROVE  Others(x)
<1>1. RunOK
  BY TypeParts
<1>2. \E p : Jump(x, p)
  BY DEF Do
<1> QED BY <1>1, <1>2 DEF Jump, Others, RunOK

LEMMA UpOthers ==
  ASSUME TypeOK, NEW x \in Procs, PlayUp(x)
  PROVE  Others(x)
<1>1. CASE CreateImage(x)
  <2>1. RunOK
    BY TypeParts
  <2>2. \E p : Jump(x, p)
    BY <1>1 DEF CreateImage
  <2> QED BY <2>1, <2>2 DEF Jump, Others, RunOK
<1>2. CASE MakeStore(x)
  BY <1>2, DoOthers DEF MakeStore
<1>3. CASE Configure(x) \/ EnableStore(x) \/ MakeLink(x) \/ EnableTarget(x) \/ SetAttributes(x)
  <2>1. \E exists, d, pc : Write(x, exists, d, pc)
    BY <1>3 DEF Configure, EnableStore, MakeLink, EnableTarget, SetAttributes
  <2> QED BY <2>1, DoOthers DEF Write
<1>4. CASE MakeTarget(x) \/ MakeLUN(x) \/ MakePortal(x)
  <2>1. \E O, pc : Do(x, O, pc)
    BY <1>4 DEF MakeTarget, MakeLUN, MakePortal
  <2> QED BY <2>1, DoOthers
<1> QED BY <1>1, <1>2, <1>3, <1>4 DEF PlayUp

\* What a step leaves true of the process that takes it.
Kept(x) == /\ TypeOK' /\ Nested(cfs', hbas') /\ calm' \subseteq calm /\ Others(x)
           /\ x \in calm' => UpOK(x)' /\ ClearOK(x)' /\ DownOK(x)'

LEMMA UpStep ==
  ASSUME PlayInv, NEW x \in Procs, PlayUp(x)
  PROVE  Kept(x)
<1>1. TypeOK /\ Nested(cfs, hbas) /\ (x \in calm => UpOK(x) /\ ClearOK(x))
  BY DEF PlayInv, CommandsOK
<1>2. /\ TypeOK' /\ Nested(cfs', hbas') /\ calm' \subseteq calm /\ Others(x)
      /\ Falls(x) \/ Answers(x)
  BY <1>1, UpType, UpNested, UpSteps, UpOthers
<1>3. ASSUME x \in calm' PROVE UpOK(x)' /\ ClearOK(x)'
  BY <1>1, <1>2, <1>3, UpKept, ClearKept
<1>4. ASSUME x \in calm' PROVE DownOK(x)'
  <2>1. run'[x].pc \in UpPoints
    BY <1>2, <1>4 DEF Falls, Answers, UpPoints
  <2> QED BY <2>1 DEF DownOK, InIQN, UpPoints
<1> QED BY <1>2, <1>3, <1>4 DEF Kept

LEMMA DownKeeps ==
  ASSUME PlayInv, NEW x \in Procs, PlayDown(x)
  PROVE  Kept(x)
<1>1. Ready(x)
  BY DEF PlayInv, CommandsOK, Ready
<1>2. Fine(x)
  BY <1>1, DownStep
<1>3. UpOK(x)' /\ ClearOK(x)'
  <2>1. run'[x].pc \in DownPoints
    BY <1>2 DEF Fine
  <2> QED BY <2>1 DEF UpOK, ClearOK, DownPoints, Imaged, Stored, Sized, Opened, Targeted, HasLUN,
                      Linked, Portaled
<1> QED BY <1>2, <1>3 DEF Fine, Kept

\* A process that takes a step was running.
LEMMA StepsRun ==
  ASSUME NEW x \in Procs, PlayUp(x) \/ PlayDown(x)
  PROVE  x \in Running
<1>1. CASE PlayUp(x)
  BY <1>1 DEF PlayUp, CreateImage, MakeStore, Configure, EnableStore, MakeTarget, MakeLUN,
     MakeLink, EnableTarget, MakePortal, SetAttributes, At, Running, Ended
<1>2. CASE PlayDown(x)
  BY <1>2 DEF PlayDown, ListIQNs, ListTpgs, ListPortals, RemovePortal, ListTpgLUNs, RemoveLink,
     RemoveLUN, RemoveTpg, RemoveIQN, ListHBAs, ListStores, RemoveStore, RemoveHBA, ListImages,
     RemoveImage, DownReturns, At, Running, Ended
<1> QED BY <1>1, <1>2

LEMMA InitInv == Init => PlayInv
<1> SUFFICES ASSUME Init PROVE PlayInv
  OBVIOUS
<1>1. PICK b \in Before : cfs = b.cfs /\ hbas = b.hbas /\ disk = b.disk
  BY DEF Init
<1>2. cfs \in Cfs /\ hbas \subseteq Ids /\ Nested(cfs, hbas) /\ DiskOK
  BY <1>1 DEF DiskOK
<1>3. RunOK
  <2>1. RunAt("new") \in Run
    BY RunAtType DEF Ended
  <2> QED BY <2>1 DEF Init, RunOK
<1>4. CalmOK /\ CountsOK /\ Alone /\ CommandsOK
  BY DEF Init, CalmOK, CountsOK, Alone, CommandsOK
<1> QED BY <1>2, <1>3, <1>4, TypeParts DEF PlayInv

LEMMA StartStep ==
  ASSUME PlayInv, NEW x \in Procs, NEW pc \in {"create", "list"}, Start(x, pc)
  PROVE  PlayInv'
<1>0. /\ RunOK /\ CalmOK /\ CountsOK /\ DiskOK /\ cfs \in Cfs /\ hbas \subseteq Ids
      /\ Nested(cfs, hbas)
  BY TypeParts DEF PlayInv
<1>1. RunAt(pc) \in Run /\ RunAt(pc).pc = pc
  BY RunAtType, RunAtIs
<1>2. RunOK' /\ Others(x) /\ run'[x].pc = pc
  BY <1>0, <1>1, GotoIs, GotoOthers DEF Start, RunOK
<1>3. /\ calm' \subseteq {x} /\ (calm' # {} => Running = {}) /\ CountsOK'
      /\ UNCHANGED <<cfs, hbas, disk>>
  BY <1>0 DEF Start, CountsOK
<1>a. clear' \subseteq Procs
  BY <1>0 DEF Start, CalmOK
<1>4. TypeOK'
  BY <1>0, <1>2, <1>3, <1>a DEF TypeOK, RunOK, CalmOK, CountsOK, DiskOK
<1>5. Alone'
  BY <1>2, <1>3 DEF Alone, Running, Others
<1>6. UpOK(x)'
  BY <1>2 DEF UpOK, Imaged, Stored, Sized, Opened, Targeted, HasLUN, Linked, Portaled
<1>9. ClearOK(x)'
  <2>1. x \in clear' => ~InTheWay
    BY DEF Start
  <2>2. InTheWay' = InTheWay
    BY <1>3 DEF InTheWay
  <2> QED BY <1>2, <2>1, <2>2 DEF ClearOK
<1>7. DownOK(x)'
  BY <1>2 DEF DownOK, InIQN
<1>8. CommandsOK'
  BY <1>3, <1>6, <1>7, <1>9 DEF CommandsOK
<1> QED BY <1>0, <1>3, <1>4, <1>5, <1>8 DEF PlayInv

LEMMA KillStep ==
  ASSUME PlayInv, NEW x \in Procs, Kill(x)
  PROVE  PlayInv'
<1>0. /\ RunOK /\ CalmOK /\ CountsOK /\ DiskOK /\ cfs \in Cfs /\ hbas \subseteq Ids
      /\ Nested(cfs, hbas)
  BY TypeParts DEF PlayInv
<1>1. RunAt("killed") \in Run
  BY RunAtType DEF Ended
<1>2. RunOK'
  BY <1>0, <1>1, GotoIs DEF Kill, RunOK
<1>3. CountsOK' /\ CalmOK' /\ UNCHANGED <<cfs, hbas, disk>>
  BY <1>0, CountsStep DEF Kill
<1>4. calm' = {}
  BY <1>0 DEF Kill, Fails, PlayInv, Alone, CalmOK
<1>5. TypeOK'
  BY <1>0, <1>2, <1>3 DEF TypeOK, RunOK, CalmOK, CountsOK, DiskOK
<1>6. Alone' /\ CommandsOK'
  BY <1>4 DEF Alone, CommandsOK
<1> QED BY <1>0, <1>3, <1>5, <1>6 DEF PlayInv

LEMMA CommandStep ==
  ASSUME PlayInv, NEW x \in Procs, PlayUp(x) \/ PlayDown(x)
  PROVE  PlayInv'
<1>1. Kept(x) /\ x \in Running /\ Alone /\ CommandsOK /\ CalmOK
  BY UpStep, DownKeeps, StepsRun, TypeParts DEF PlayInv
<1>2. calm' \subseteq {x}
  BY <1>1 DEF Kept, Alone
<1>3. Alone'
  BY <1>1, <1>2 DEF Kept, Alone, Running, Others
<1>4. CommandsOK'
  BY <1>1, <1>2 DEF Kept, CommandsOK
<1> QED BY <1>1, <1>3, <1>4 DEF Kept, PlayInv

LEMMA NextInv == PlayInv /\ [Next]_vars => PlayInv'
<1> SUFFICES ASSUME PlayInv, [Next]_vars PROVE PlayInv'
  OBVIOUS
<1>1. CASE UNCHANGED vars
  <2>1. TypeOK' /\ Nested(cfs', hbas')
    BY <1>1 DEF vars, PlayInv, TypeOK
  <2>2. Alone' /\ CommandsOK'
    <3>1. \A x \in calm : UpOK(x)' /\ ClearOK(x)' /\ DownOK(x)'
      <4> SUFFICES ASSUME NEW x \in calm PROVE UpOK(x)' /\ ClearOK(x)' /\ DownOK(x)'
        OBVIOUS
      <4>1. UpOK(x) /\ ClearOK(x) /\ DownOK(x)
        BY DEF PlayInv, CommandsOK
      <4>2. Iqn(x)' = Iqn(x) /\ Tpg(x)' = Tpg(x) /\ Lun(x)' = Lun(x) /\ Hba(x)' = Hba(x)
        BY <1>1, SamePlace DEF vars
      <4>3. OwnStores' = OwnStores
        BY <1>1 DEF vars, OwnStores
      <4>4. UpOK(x)'
        BY <1>1, <4>1, <4>3 DEF vars, UpOK
      <4>5. DownOK(x)'
        BY <1>1, <4>1, <4>2 DEF vars, DownOK
      <4>6. ClearOK(x)'
        BY <1>1, <4>1 DEF vars, ClearOK, InTheWay
      <4> QED BY <4>4, <4>5, <4>6
    <3>2. Alone'
      BY <1>1 DEF vars, PlayInv, Alone, Running
    <3> QED BY <1>1, <3>1, <3>2 DEF CommandsOK, vars
  <2> QED BY <2>1, <2>2 DEF PlayInv
<1>2. CASE Next
  BY <1>2, StartStep, KillStep, CommandStep DEF Next
<1> QED BY <1>1, <1>2

THEOREM InvHolds == Spec => []PlayInv
<1> QED BY InitInv, NextInv, PTL DEF Spec

\* What the commands work on has its type: no call of PlayUp or PlayDown leaves
\* configfs, an image file or a list of what is to visit outside it (play.go).
THEOREM TypeCorrect == Spec => []TypeOK
<1>1. PlayInv => TypeOK
  BY DEF PlayInv
<1> QED BY <1>1, InvHolds, PTL

\* A play-down that runs alone and meets no failure leaves nothing (PlayDown,
\* play.go), whatever failed, killed and colliding commands had left.
THEOREM AllIsRemoved == Spec => []DownLeavesNothing
<1>1. ASSUME PlayInv PROVE DownLeavesNothing
  <2> SUFFICES ASSUME NEW x \in calm, At(x, "down ok")
               PROVE  cfs = EmptyCfs /\ hbas = {} /\ \A q \in Paths : disk[q] = NoFile
    BY DEF DownLeavesNothing
  <2>1. cfs.iqns = {} /\ hbas = {} /\ \A q \in Paths : disk[q] = NoFile
    BY <1>1 DEF PlayInv, CommandsOK, DownOK, At
  <2>2. cfs \in Cfs /\ Nested(cfs, hbas)
    BY <1>1, TypeParts DEF PlayInv
  <2>3. cfs.tpgs = {} /\ cfs.portals = {} /\ cfs.luns = {} /\ cfs.links = {}
    BY <2>1, <2>2, OnlyStoresLeft
  <2>4. cfs.stores = {}
    BY <2>1, <2>2 DEF Nested
  <2>5. cfs = EmptyCfs
    BY <2>1, <2>2, <2>3, <2>4 DEF Cfs, EmptyCfs
  <2> QED BY <2>1, <2>5
<1> QED BY <1>1, InvHolds, PTL

\* A play-up that runs alone and ends without an error exports its image
\* (PlayUp, play.go), over whatever was there before.
THEOREM ImageIsExported == Spec => []UpExports
<1>1. ASSUME PlayInv PROVE UpExports
  <2> SUFFICES ASSUME NEW x \in calm, At(x, "up ok")
               PROVE  /\ <<OwnTarget, 0, OwnId, Own>> \in cfs.links
                      /\ <<OwnTarget, OwnPortal>> \in cfs.portals
                      /\ \E s \in OwnStores : s.path = OwnPath /\ s.size = disk[OwnPath].size
    BY DEF UpExports
  <2>1. UpOK(x)
    BY <1>1 DEF PlayInv, CommandsOK
  <2>2. /\ disk[OwnPath].size = OwnSize /\ OwnStores # {}
        /\ \A s \in OwnStores : s.size = OwnSize
        /\ \A s \in OwnStores : s.path = OwnPath
        /\ <<OwnTarget, 0, OwnId, Own>> \in cfs.links
        /\ <<OwnTarget, OwnPortal>> \in cfs.portals
    BY <2>1 DEF UpOK, At, Imaged, Stored, Sized, Opened, Targeted, HasLUN, Linked, Portaled
  <2> QED BY <2>2
<1> QED BY <1>1, InvHolds, PTL

\* A play-up that runs alone, meets no broken call and began with neither its
\* backstore enabled nor its LUN linked does not fail (PlayUp, play.go), whatever
\* commands that failed or were killed before it had left.
THEOREM LeftoversDoNotStop == Spec => []UpFailsOnlyIfUp
<1>1. PlayInv => UpFailsOnlyIfUp
  BY DEF PlayInv, CommandsOK, ClearOK, UpFailsOnlyIfUp, At
<1> QED BY <1>1, InvHolds, PTL
=============================================================================
