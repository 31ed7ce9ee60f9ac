-------------------------------- MODULE FAT12 ------------------------------
(***************************************************************************)
(* The file system of fs/fat/fat12.c: a table of clusters and a root       *)
(* directory, both kept in memory and written to the disk through          *)
(* disk/streamer.c, one sector after the other, while files are saved and  *)
(* deleted.  The power may fail between two sectors, and a save may be     *)
(* dropped there together with the process whose stack it runs on.  No key *)
(* is handled during a save here; see Console for those that are.          *)
(*                                                                         *)
(* A size is a number of whole sectors and a sector of the data area has   *)
(* the number of its cluster.  What is written into the k-th sector of the *)
(* file that is saved as number n is <<n, k>>.  A sector of the directory  *)
(* may end inside an entry, in front of one of its fields.                 *)
(***************************************************************************)
EXTENDS Integers, Sequences, FiniteSets, SequencesExt

CONSTANTS TOTAL_FAT12_ENTREIS,
          EntriesPerSector,     \* table entries in a sector of the disk
          RootEntries,          \* 224
          SectorBytes,          \* bytes of the directory in a sector of the disk
          Names,                \* file names: sequences of 1 to 8 characters
          Sizes,                \* sizes of the files saved, in sectors
          MaxSaves,             \* bound: calls of create_file
          MaxReboots            \* bound: power failures and resets

ASSUME FAT12Assumption ==
    /\ TOTAL_FAT12_ENTREIS \in 1 .. 4094 /\ EntriesPerSector \in Nat \ {0}
    /\ RootEntries \in Nat \ {0} /\ SectorBytes \in Nat \ {0} /\ Sizes \subseteq Nat
    /\ \A n \in Names : n \in Seq(STRING) /\ Len(n) \in 1 .. 8
    /\ MaxSaves \in Nat /\ MaxReboots \in Nat

Clusters    == 0 .. TOTAL_FAT12_ENTREIS - 1
Slots       == 0 .. RootEntries - 1
FREE_ENTRY  == 0
END_OF_FILE == 4095
NONE        == -1
\* The first cluster of a file that got none: -NO_MEMORY, stored in 16 bits.
NOWHERE     == -3
\* The first cluster of an entry that is all zeros: sector 0 of the disk, whose
\* word would lie in front of the table.
UNSET       == -2

NoFile == [name |-> <<>>, first |-> UNSET, size |-> 0]

\* Where the fields of a file_dir lie, and the sector that holds a field.
EntryBytes == 28
NameAt     == 0
FirstAt    == 12
SizeAt     == 24

DirSector(i, field) == (EntryBytes * i + field) \div SectorBytes

VARIABLES fat12_table, root_dir,      \* in memory
          diskFat, diskDir, data,     \* on the disk
          todo,                       \* sector writes still to be made
          saving,                     \* the save under way, or NONE
          hung,                       \* the disk driver polls for ever
          shown,                      \* what read_file showed last
          saves, reboots
\* Auxiliary: the files whose save has ended and whose deletion has not begun;
\* whether root_dir has been read since the boot; whether a file was saved before
\* it was; whether a save was abandoned and no write completed since; whether
\* a boot has read less of the table than the disk held, or has followed a write
\* that was cut short after an abandoned save, or an entry without a cluster was
\* deleted; the entries of which the disk holds one part old and one part new.
VARIABLES saved, mounted, blind, behind, stale, torn

memVars   == <<fat12_table, root_dir>>
diskVars  == <<diskFat, diskDir, data>>
auxVars   == <<saved, mounted, stale, blind, behind, torn>>
vars      == <<memVars, diskVars, todo, saving, hung, shown, saves, reboots,
               auxVars>>

Init ==
    /\ fat12_table = [c \in Clusters |-> FREE_ENTRY]
    /\ root_dir = [i \in Slots |-> NoFile]
    /\ diskFat = fat12_table /\ diskDir = root_dir
    /\ data = [c \in Clusters |-> <<>>]
    /\ todo = <<>> /\ saving = NONE /\ hung = FALSE
    /\ shown = [slot |-> NONE, content |-> <<>>]
    /\ saves = 0 /\ reboots = 0
    /\ saved = {} /\ mounted = TRUE /\ stale = FALSE /\ blind = FALSE
    /\ behind = FALSE /\ torn = {}

Idle == todo = <<>> /\ ~hung

-----------------------------------------------------------------------------
(* The table.                                                               *)

\* The cluster reached from c after i links, END_OF_FILE behind the last one.
Link(table, c, i) ==
    LET link[j \in 0 .. i] ==
          IF j = 0 THEN c
          ELSE IF link[j - 1] = END_OF_FILE THEN END_OF_FILE
          ELSE table[link[j - 1]]
    IN  link[i]

Lengths(table, c) ==
    {n \in 1 .. TOTAL_FAT12_ENTREIS : Link(table, c, n) = END_OF_FILE}

\* Whether the loops that follow the links from c come to an end.
Ends(table, c) == c \in Clusters /\ Lengths(table, c) # {}

\* The clusters they visit.
Chain(table, c) ==
    LET n == CHOOSE m \in Lengths(table, c) :
                 \A k \in Lengths(table, c) : m <= k
    IN  [k \in 1 .. n |-> Link(table, c, k - 1)]

FirstOf(S) == CHOOSE i \in S : \A j \in S : i <= j

\* Mutation: the last cluster of a file counts as free.
FindFreeOrLast(from) ==
    LET free == {c \in Clusters : /\ c >= from
                                  /\ fat12_table[c] \in {FREE_ENTRY, END_OF_FILE}}
    IN  IF free = {} THEN NONE ELSE FirstOf(free)

find_next_free(from) ==
    LET free == {c \in Clusters : c >= from /\ fat12_table[c] = FREE_ENTRY}
    IN  IF free = {} THEN NONE ELSE FirstOf(free)

\* An empty file gets a cluster too.
Needed(size) == IF size = 0 THEN 1 ELSE size

\* The clusters that fat12_allocate takes, one behind the other; NONE from where
\* no free one is left.
Taken(size) ==
    LET taken[i \in 1 .. Needed(size)] ==
          IF i = 1 THEN find_next_free(0)
          ELSE IF taken[i - 1] = NONE THEN NONE
          ELSE find_next_free(taken[i - 1] + 1)
    IN  taken

Enough(size) == Taken(size)[Needed(size)] # NONE

\* The table after fat12_allocate: each cluster is linked to the next when that
\* is found, and the last one is marked if there are enough.
fat12_allocate(size) ==
    LET taken == Taken(size)
    IN  [c \in Clusters |->
           IF \A i \in 1 .. Needed(size) : taken[i] # c THEN fat12_table[c]
           ELSE IF c = taken[Needed(size)] THEN END_OF_FILE
           ELSE IF find_next_free(c + 1) # NONE THEN find_next_free(c + 1)
           ELSE FREE_ENTRY]

-----------------------------------------------------------------------------
(* Writes.                                                                  *)

LastFatSector == (TOTAL_FAT12_ENTREIS - 1) \div EntriesPerSector
LastDirSector == (EntryBytes * RootEntries - 1) \div SectorBytes

Write(area, at, what) == [area |-> area, at |-> at, what |-> what]

\* The whole table and the whole directory, sector by sector.
WriteFat == [k \in 1 .. LastFatSector + 1 |-> Write("fat", k - 1, <<>>)]
WriteDir == [k \in 1 .. LastDirSector + 1 |-> Write("dir", k - 1, <<>>)]

\* Mutation: the write behind the loop is missing.
WriteFileNoTail(chain, n, size) ==
    [k \in 1 .. size - 1 |-> Write("data", chain[k], <<n, k>>)]
      \o WriteFat \o WriteDir

\* write_into_memory: the data, the table, the directory.
WriteFile(chain, n, size) ==
    [k \in 1 .. size |-> Write("data", chain[k], <<n, k>>)]
      \o WriteFat \o WriteDir

\* Mutation: the table is written before the directory.
WipeFatFirst(chain) ==
    [k \in 1 .. Len(chain) |-> Write("data", chain[k], <<>>)]
      \o WriteFat \o WriteDir

\* delete_file: zeros over the data, the directory, the table.
WipeFile(chain) ==
    [k \in 1 .. Len(chain) |-> Write("data", chain[k], <<>>)]
      \o WriteDir \o WriteFat

\* What delete_file wipes when the links do not come to an end.
WipeForEver(c) ==
    [k \in 1 .. TOTAL_FAT12_ENTREIS + 1 |->
       Write("data", Link(fat12_table, c, k - 1), <<>>)]

\* Entry i on the disk once directory sector `at' is stored: the fields that lie
\* in the sector come from memory.
Stored(i, at) ==
    [name  |-> IF DirSector(i, NameAt) = at THEN root_dir[i].name ELSE diskDir[i].name,
     first |-> IF DirSector(i, FirstAt) = at THEN root_dir[i].first ELSE diskDir[i].first,
     size  |-> IF DirSector(i, SizeAt) = at THEN root_dir[i].size ELSE diskDir[i].size]

\* A round of disk_streamer_write stores one sector.  After the last one of a
\* save the file counts as saved.
WriteSector ==
    /\ todo # <<>>
    /\ LET w == Head(todo)
       IN  /\ data' = IF w.area = "data" THEN [data EXCEPT ![w.at] = w.what]
                                         ELSE data
           /\ diskFat' = IF w.area # "fat" THEN diskFat
                         ELSE [c \in Clusters |->
                                 IF c \div EntriesPerSector = w.at
                                 THEN fat12_table[c] ELSE diskFat[c]]
           /\ diskDir' = IF w.area # "dir" THEN diskDir
                         ELSE [i \in Slots |-> Stored(i, w.at)]
    /\ torn' = {i \in Slots : IF diskDir'[i] = diskDir[i] THEN i \in torn
                              ELSE diskDir'[i] # root_dir[i]}
    /\ todo' = Tail(todo)
    /\ IF Len(todo) = 1 /\ saving # NONE
       THEN /\ saved' = saved \cup {[slot |-> saving, number |-> saves]}
            /\ saving' = NONE
       ELSE UNCHANGED <<saved, saving>>
    /\ behind' = (behind /\ todo' # <<>>)
    /\ UNCHANGED <<memVars, hung, shown, saves, reboots, mounted, stale, blind>>

-----------------------------------------------------------------------------
(* create_file.                                                             *)

\* Mutation: the search stops one entry late.
EmptySlotsBeyond == {i \in Slots : root_dir[i].name = <<>>} \cup {RootEntries}

EmptySlots == {i \in Slots : root_dir[i].name = <<>>}

create_file(name, size) ==
    /\ Idle /\ saves < MaxSaves
    /\ Enough(size) /\ EmptySlots # {}
    /\ saves' = saves + 1
    /\ fat12_table' = fat12_allocate(size)
    /\ saving' = FirstOf(EmptySlots)
    /\ root_dir' = [root_dir EXCEPT ![saving'] =
                      [name |-> name, first |-> Taken(size)[1], size |-> size]]
    /\ todo' = WriteFile(Chain(fat12_table', Taken(size)[1]), saves', size)
    /\ blind' = (blind \/ ~mounted)
    /\ UNCHANGED <<diskVars, hung, shown, reboots, saved, mounted, stale, behind, torn>>

\* The directory is full: the clusters stay allocated.
CreateNoSlot(size) ==
    /\ Idle /\ saves < MaxSaves
    /\ EmptySlots = {}
    /\ saves' = saves + 1
    /\ fat12_table' = fat12_allocate(size)
    /\ UNCHANGED <<root_dir, diskVars, todo, saving, hung, shown, reboots, auxVars>>

\* The disk is full and first_cluster is NOWHERE.  The driver waits for a sector
\* far behind the end of the disk, or, for an empty file, the loop may never
\* meet END_OF_FILE in the memory behind the table.
CreateHangs(name, size) ==
    /\ Idle /\ saves < MaxSaves
    /\ ~Enough(size) /\ EmptySlots # {}
    /\ saves' = saves + 1
    /\ fat12_table' = fat12_allocate(size)
    /\ saving' = FirstOf(EmptySlots)
    /\ root_dir' = [root_dir EXCEPT ![saving'] =
                      [name |-> name, first |-> NOWHERE, size |-> size]]
    /\ hung' = TRUE
    /\ blind' = (blind \/ ~mounted)
    /\ UNCHANGED <<diskVars, todo, shown, reboots, saved, mounted, stale, behind, torn>>

\* An empty file on a full disk writes no data: if the loop does meet
\* END_OF_FILE, the entry is stored all the same.
CreateNowhere(name) ==
    /\ Idle /\ saves < MaxSaves /\ 0 \in Sizes
    /\ ~Enough(0) /\ EmptySlots # {}
    /\ saves' = saves + 1
    /\ saving' = FirstOf(EmptySlots)
    /\ root_dir' = [root_dir EXCEPT ![saving'] =
                      [name |-> name, first |-> NOWHERE, size |-> 0]]
    /\ todo' = WriteFat \o WriteDir
    /\ blind' = (blind \/ ~mounted)
    /\ UNCHANGED <<fat12_table, diskVars, hung, shown, reboots, saved, mounted,
                   stale, behind, torn>>

\* create_file runs with interrupts enabled, on the stack of the process that was
\* interrupted by ESC.  When that process has used up its time, a tick drops it,
\* and the rest of the save with it, also when the driver or the loop of the
\* save would not have come to an end.
Abandon ==
    /\ saving # NONE
    /\ todo' = <<>> /\ saving' = NONE /\ hung' = FALSE
    /\ behind' = TRUE
    /\ UNCHANGED <<memVars, diskVars, shown, saves, reboots, saved, mounted, stale,
                   blind, torn>>

-----------------------------------------------------------------------------
(* read_file and delete_file.  A name finds the first file it is a prefix   *)
(* of.                                                                      *)

comp_file_name(dir, name) == {i \in Slots : IsPrefix(name, dir[i].name)}

\* The sector that holds the k-th part of a file: behind the end of the chain
\* the streamer reads on.
Sector(chain, k) ==
    IF k <= Len(chain) THEN chain[k] ELSE chain[Len(chain)] + k - Len(chain)

\* How much of the buffer is printed: data_size has been reduced by a sector for
\* every link when it is used as the end of the text.
TextEnd(chain, size) ==
    IF size >= Len(chain) THEN size - (Len(chain) - 1) ELSE 0

\* What a file shows.
Content(dir, i) ==
    LET chain == Chain(fat12_table, dir[i].first)
    IN  [k \in 1 .. TextEnd(chain, dir[i].size) |->
           IF Sector(chain, k) \in Clusters THEN data[Sector(chain, k)] ELSE <<>>]

\* The loop starts in memory that is not the table when there is no first
\* cluster.  It may not come to an end; if it does, an empty file shows nothing,
\* and the driver waits for the sector of any other.
read_file(name) ==
    /\ Idle
    /\ root_dir' = diskDir /\ mounted' = TRUE
    /\ LET found == comp_file_name(diskDir, name)
           i     == FirstOf(found)
       IN  \/ /\ found = {}
              /\ UNCHANGED <<shown, hung>>
           \/ /\ found # {} /\ Ends(fat12_table, diskDir[i].first)
              /\ shown' = [slot |-> i, content |-> Content(diskDir, i)]
              /\ UNCHANGED hung
           \/ /\ found # {} /\ diskDir[i].first \notin Clusters /\ diskDir[i].size = 0
              /\ shown' = [slot |-> i, content |-> <<>>]
              /\ UNCHANGED hung
           \/ /\ found # {} /\ ~Ends(fat12_table, diskDir[i].first)
              /\ hung' = TRUE /\ UNCHANGED shown
    /\ UNCHANGED <<fat12_table, diskVars, todo, saving, saves, reboots, saved,
                   stale, blind, behind, torn>>

\* The clusters of the chain are freed and wiped, and entry i is cleared.
Erase(i, chain) ==
    /\ fat12_table' = [c \in Clusters |->
                         IF \E k \in 1 .. Len(chain) : chain[k] = c
                         THEN FREE_ENTRY ELSE fat12_table[c]]
    /\ root_dir' = [root_dir EXCEPT ![i] = NoFile]
    /\ todo' = WipeFile(chain)
    /\ saved' = {s \in saved : s.slot # i}
    /\ UNCHANGED hung

\* The directory in memory is searched; it is empty until a file is read.  The
\* links of an entry without a cluster start with the word in front of the
\* table, which may hold anything.
delete_file(name) ==
    /\ Idle
    /\ comp_file_name(root_dir, name) # {}
    /\ LET i     == FirstOf(comp_file_name(root_dir, name))
           first == root_dir[i].first
       IN  \/ /\ Ends(fat12_table, first)
              /\ Erase(i, Chain(fat12_table, first))
           \/ /\ first = UNSET
              /\ \/ Erase(i, <<>>)
                 \/ \E c \in Clusters : /\ Ends(fat12_table, c)
                                       /\ Erase(i, Chain(fat12_table, c))
           \/ /\ ~Ends(fat12_table, first)
              /\ hung' = TRUE
              /\ todo' = IF first \in Clusters THEN WipeForEver(first) ELSE <<>>
              /\ UNCHANGED <<memVars, saved>>
    /\ stale' = (stale \/ root_dir[FirstOf(comp_file_name(root_dir, name))].first = UNSET)
    /\ UNCHANGED <<diskVars, saving, shown, saves, reboots, mounted, blind, behind,
                   torn>>

-----------------------------------------------------------------------------

\* read_FAT12_table asks for TOTAL_FAT12_ENTREIS bytes, half of the entries.
Loaded ==
    [c \in Clusters |->
       IF 2 * c < TOTAL_FAT12_ENTREIS THEN diskFat[c] ELSE FREE_ENTRY]

\* A power failure or a reset, and the next boot.
Reboot ==
    /\ reboots < MaxReboots
    /\ reboots' = reboots + 1
    /\ fat12_table' = Loaded
    /\ root_dir' = [i \in Slots |-> NoFile]
    /\ todo' = <<>> /\ saving' = NONE /\ hung' = FALSE
    /\ shown' = [slot |-> NONE, content |-> <<>>]
    /\ mounted' = FALSE
    /\ stale' = (stale \/ Loaded # diskFat \/ (behind /\ todo # <<>>))
    /\ behind' = FALSE
    /\ UNCHANGED <<diskVars, saves, saved, blind, torn>>

Next ==
    \/ WriteSector
    \/ \E name \in Names, size \in Sizes :
         create_file(name, size) \/ CreateHangs(name, size)
    \/ \E size \in Sizes : CreateNoSlot(size)
    \/ \E name \in Names : CreateNowhere(name) \/ read_file(name)
                             \/ delete_file(name)
    \/ Abandon \/ Reboot

Spec == Init /\ [][Next]_vars

-----------------------------------------------------------------------------

Files == [name : Names \cup {<<>>}, first : Clusters \cup {NOWHERE, UNSET},
          size : Sizes \cup {0}]

Tables == [Clusters -> Clusters \cup {END_OF_FILE}]

TypeOK ==
    /\ fat12_table \in Tables /\ diskFat \in Tables
    /\ root_dir \in [Slots -> Files] /\ diskDir \in [Slots -> Files]
    /\ DOMAIN data = Clusters
    /\ \A k \in 1 .. Len(todo) : todo[k].area \in {"data", "fat", "dir"}
    /\ saving \in Slots \cup {NONE} /\ hung \in BOOLEAN
    /\ shown.slot \in Slots \cup {NONE}
    /\ saves \in 0 .. MaxSaves /\ reboots \in 0 .. MaxReboots
    /\ saved \subseteq [slot : Slots, number : 1 .. MaxSaves]
    /\ mounted \in BOOLEAN /\ stale \in BOOLEAN /\ blind \in BOOLEAN
    /\ behind \in BOOLEAN /\ torn \subseteq Slots

\* The entries with clusters: all but the empty ones, those saved on a full disk
\* and those cut in front of first_cluster.
HasClusters(i) == diskDir[i].first \in Clusters

ClustersOf(i) ==
    LET chain == Chain(diskFat, diskDir[i].first)
    IN  {chain[k] : k \in 1 .. Len(chain)}

\* The disk is consistent after every single sector, so at every power failure,
\* although a sector may end inside a directory entry: each entry with a first
\* cluster, its name written or not, has a chain in the table that ends and is
\* shared with no other entry, and the size of an entry that is not torn is the
\* length of its chain.  A boot that loses half of the table ends this, and so
\* does deleting an entry that was cut in front of its first cluster.  An
\* abandoned save suspends it until a write is completed: delete_file writes the
\* directory, with the abandoned entry, first.
DiskConsistent ==
    ~stale /\ ~behind =>
      /\ \A i \in Slots : HasClusters(i) =>
           /\ diskFat[diskDir[i].first] # FREE_ENTRY
           /\ Ends(diskFat, diskDir[i].first)
           /\ i \notin torn => Cardinality(ClustersOf(i)) = Needed(diskDir[i].size)
      /\ \A i, j \in Slots : HasClusters(i) /\ HasClusters(j) /\ i # j =>
           ClustersOf(i) \cap ClustersOf(j) = {}

\* A file once saved keeps its directory entry, whole, and its content on the
\* disk until it is deleted, whatever else is saved or deleted and wherever the
\* power fails, provided that after each boot the directory is read before a file
\* is saved, that no boot has lost a part of the table and that no entry without
\* a cluster was deleted.
Durable ==
    ~stale /\ ~blind => \A s \in saved :
        /\ diskDir[s.slot].name # <<>> /\ s.slot \notin torn
        /\ \A k \in 1 .. diskDir[s.slot].size :
             data[Chain(diskFat, diskDir[s.slot].first)[k]] = <<s.number, k>>

\* read_file shows the beginning of what was saved, before and after reboots:
\* the chain in memory leads to the sectors that the save has written.  A file
\* of at most one sector is shown whole, of a longer one the first sector.
ReadsBack ==
    [][~stale /\ ~blind /\ shown' # shown =>
         \A s \in saved : s.slot = shown'.slot =>
             shown'.content = [k \in 1 .. IF diskDir[s.slot].size = 0 THEN 0 ELSE 1 |->
                                 <<s.number, k>>]]_vars
=============================================================================
