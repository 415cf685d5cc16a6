------------------------------- MODULE PacTable -------------------------------
(***************************************************************************)
(* The file table of a .pac package and the choices the flash flow makes   *)
(* from it: which entry is the first stage, which are partitions, which    *)
(* markers are erased and which are written.                               *)
(*                                                                         *)
(* An entry keeps the fields those choices read: its file id, the size the *)
(* table declares, the bytes the file really holds at its offset ("avail") *)
(* and its address.  File ids are compared for equality and for the two    *)
(* FDL prefixes only, so they are model values and the prefix tests are    *)
(* sets of ids.  Addresses keep the order around LogicalBase.              *)
(***************************************************************************)
EXTENDS Integers, Sequences

CONSTANTS
  FileIds,      \* the file ids a table may hold, in one case: no two differ in case only
  Fdl1Ids,      \* the ids FDL1_IDS accepts: HOST_FDL*, FDL*
  Fdl2Ids,      \* the ids FDL2_IDS accepts: FDL2*
  EraseIds,     \* the keys of _ERASE_PARAM: FMT_FSSYS, FLASH
  NvId,         \* "NV"
  Addrs,        \* the addresses a table may hold
  LogicalBase   \* LOGICAL_ADDRESS_BASE (0xFE000000)

Entry == [id : FileIds, size : Nat, avail : Nat, addr : Addrs]

\* Every FDL2 id also starts with "FDL", which is why classify() tests it first.
ASSUME TableAssumption ==
  /\ Addrs \subseteq Nat
  /\ LogicalBase \in Nat \ {0}
  /\ Fdl2Ids \subseteq Fdl1Ids
  /\ Fdl1Ids \cup EraseIds \cup {NvId} \subseteq FileIds
  /\ Fdl1Ids \cap (EraseIds \cup {NvId}) = {}
  /\ NvId \notin EraseIds

-----------------------------------------------------------------------------
IsLogical(e) == e.addr >= LogicalBase

\* Mutant of Classify: the marker test is left to the size alone.
ClassifyByName(e) ==
  IF e.size = 0 THEN "marker"
  ELSE IF e.id \in Fdl2Ids THEN "fdl2"
  ELSE IF e.id \in Fdl1Ids THEN "fdl1"
  ELSE "flash"

Classify(e) ==
  IF e.size = 0 \/ e.addr = 0 \/ IsLogical(e) THEN "marker"
  ELSE IF e.id \in Fdl2Ids THEN "fdl2"
  ELSE IF e.id \in Fdl1Ids THEN "fdl1"
  ELSE "flash"

\* The slots of a table in a given role.
Slots(tab, role) == {i \in DOMAIN tab : Classify(tab[i]) = role}

\* The next((e for e in entries if classify(e) == role), None) scans.
IsStage(tab, role, i) ==
  i \in Slots(tab, role) /\ \A j \in Slots(tab, role) : i <= j

HasStage(tab, role) == Slots(tab, role) # {}

Partitions(tab) == Slots(tab, "flash")

DataMarkers(tab) ==
  {i \in Slots(tab, "marker") : tab[i].size # 0 /\ IsLogical(tab[i])}

\* The zero-size markers _ERASE_PARAM knows, and of those at one address the first.
EraseMarkers(tab) ==
  {i \in Slots(tab, "marker") :
     tab[i].size = 0 /\ IsLogical(tab[i]) /\ tab[i].id \in EraseIds}

EraseOps(tab) ==
  {i \in EraseMarkers(tab) :
     \A j \in EraseMarkers(tab) : j < i => tab[j].addr # tab[i].addr}

-----------------------------------------------------------------------------
\* native._read_entry: what f.read(entry.size) returns, short at the file's end.
DataLen(e) == IF e.avail < e.size THEN e.avail ELSE e.size

\* part_data and marker_data are dicts keyed by file id, so slot i of the group
\* S is sent the bytes read for the last slot of S that has its id.
PayloadOf(tab, S, i) ==
  CHOOSE k \in S : /\ tab[k].id = tab[i].id
                   /\ \A m \in S : tab[m].id = tab[i].id => m <= k

\* The slots whose address a flash run may write or erase.
Targets(tab) ==
  Slots(tab, "fdl1") \cup Slots(tab, "fdl2") \cup Partitions(tab)
    \cup DataMarkers(tab) \cup EraseOps(tab)

\* A table with every payload present, distinct ids within each group and
\* no two targets at one address.
WellFormed(tab) ==
  /\ \A i \in DOMAIN tab : tab[i].avail >= tab[i].size
  /\ \A S \in {Partitions(tab), DataMarkers(tab)} :
       \A i, j \in S : tab[i].id = tab[j].id => i = j
  /\ \A i, j \in Targets(tab) : tab[i].addr = tab[j].addr => i = j
=============================================================================
