------------------------------- MODULE Fat32 -------------------------------
(***************************************************************************)
(* The FAT32 driver, fs/fat32.c, on a small disk.  The unit of data is the *)
(* 32-byte cell of a directory entry: a cluster is EPC cells, a file is    *)
(* read and written by cells, and a cell of a file that is looked at as a  *)
(* directory entry is one nobody asks for.  FAT entries are the numbers on *)
(* the disk.  A behaviour ends (undefined) where the driver would follow a *)
(* cluster number off the disk or round a cycle, or write past a buffer.   *)
(***************************************************************************)
EXTENDS Integers, Sequences, FiniteSets, FiniteSetsExt, SequencesExt

CONSTANTS
  Clusters,   \* the clusters modelled; all others belong to one large file
  EPC,        \* cells per cluster
  Root,       \* boot.root_cluster
  Names,      \* names in paths, none with a dot
  Long,       \* those of 12 characters, stored with a long entry
  Short,      \* Short[n]: the 8.3 form of n (of its alias, if long)
  Paths,
  Handles,    \* numbers for open files; a file that is opened gets the first one free
  MaxRemoves, \* bound: removals
  MaxEntries, \* bound: files and directories on the disk
  Writes,     \* <<from, n, v>>: n cells of value v are written at from
  Images      \* the disks a machine may be started with

VARIABLES
  disk,       \* the FAT and the clusters
  files,      \* fs_file_t and fat_file_private_info_t of each open file
  undefined,
  removed,    \* removals so far
  contents,   \* history: what was written to the file at a place of a directory
  spoiled     \* history: clusters whose link was overwritten while in use

vars == <<disk, files, undefined, removed, contents, spoiled>>

NONE == 268435455       \* 0xfffffff
END  == 268435448       \* 0xffffff8
BAD  == 268435447       \* 0xffffff7

NoFile == [index |-> -1]
FirstFree(h) == files[h] = NoFile /\ \A k \in Handles : files[k] = NoFile => h <= k
Zero == [kind |-> "zero"]
Deleted == [kind |-> "deleted"]
LongCell(n) == [kind |-> "long", name |-> n]
Entry(k, n, c, s) == [kind |-> k, name |-> n, cluster |-> c, size |-> s]
Data(v) == [kind |-> "data", value |-> v]

Init ==
  /\ disk \in Images
  /\ files = [h \in Handles |-> NoFile]
  /\ undefined = FALSE
  /\ removed = 0 /\ spoiled = {}
  /\ contents = [p \in {q \in Clusters \X (0 .. EPC - 1) :
                          disk.data[q[1]][q[2]].kind = "file"} |->
       LET e == disk.data[p[1]][p[2]]
           at(i) == IF i < EPC THEN disk.data[e.cluster][i]
                    ELSE disk.data[disk.fat[e.cluster]][i - EPC]
       IN  [i \in 1 .. e.size |-> at(i - 1)]]

---------------------------------------------------------------------------
(* The FAT.                                                                *)

fat_get_next_cluster(d, c) == d.fat[c]

InChain(c) == c >= 2 /\ c < BAD

(* The clusters fat_read_cluster_chain and fat_write_cluster_chain visit.  *)
Chain(d, c) ==
  LET walk[k \in Clusters, left \in 0 .. Cardinality(Clusters)] ==
        LET n == fat_get_next_cluster(d, k)
        IN  IF left > 0 /\ InChain(n) /\ n \in Clusters
            THEN <<k>> \o walk[n, left - 1] ELSE <<k>>
  IN  IF c \in Clusters /\ InChain(c) THEN walk[c, Cardinality(Clusters)] ELSE <<>>

Sound(d, c) ==
  /\ c \in Clusters
  /\ Len(Chain(d, c)) \in 1 .. Cardinality(Clusters)
  /\ ~InChain(fat_get_next_cluster(d, Last(Chain(d, c))))

CellCount(d, c) == Len(Chain(d, c)) * EPC
Cell(d, c, i) == d.data[Chain(d, c)[i \div EPC + 1]][i % EPC]

(* One byte of the four is written.                                        *)
fat_change_fat_value(d, c, v) == [d EXCEPT !.fat[c] = (@ - (@ % 256)) + (v % 256)]

fat_find_free_cluster(d) ==
  LET free == {c \in Clusters : d.fat[c] = 0} IN IF free = {} THEN NONE ELSE Min(free)

(* Mutant: the cluster is not marked as used.                              *)
UnmarkedChain(d) == [start |-> fat_find_free_cluster(d), disk |-> d]

(* fat_find_free_cluster_chain for the one size it is called with, 1.      *)
NewChain(d) ==
  LET c == fat_find_free_cluster(d)
  IN  [start |-> c, disk |-> IF c = NONE THEN d ELSE fat_change_fat_value(d, c, END)]

(* fat_free_chain: every cluster but the last, which ends it only with 0   *)
(* or exactly END.                                                         *)
FreeWalk(d, c) ==
  LET walk[k \in Clusters, left \in 0 .. Cardinality(Clusters)] ==
        LET n == fat_get_next_cluster(d, k)
        IN  IF left > 0 /\ n \notin {0, END} /\ n \in Clusters
            THEN <<k>> \o walk[n, left - 1] ELSE <<k>>
  IN  walk[c, Cardinality(Clusters)]

FreeEnds(d, c) == c \in Clusters /\ fat_get_next_cluster(d, Last(FreeWalk(d, c))) \in {0, END}

fat_free_chain(d, c) ==
  [d EXCEPT !.fat = [k \in Clusters |->
     IF k \in ToSet(Front(FreeWalk(d, c))) THEN d.fat[k] - (d.fat[k] % 256) ELSE d.fat[k]]]

---------------------------------------------------------------------------
(* Directories.                                                            *)

(* The directory at dir, as its clusters are read.                         *)
Listing(d, dir) ==
  LET chain == Chain(d, dir)
  IN  [i \in 0 .. Len(chain) * EPC - 1 |-> d.data[chain[i \div EPC + 1]][i % EPC]]

fat_get_free_dir_entry(d, dir) ==
  LET cells == Listing(d, dir)
      free == {i \in DOMAIN cells : cells[i].kind \in {"zero", "deleted"}}
  IN  IF free = {} THEN NONE ELSE Min(free)

(* The number of the entry found is then taken for one of a cluster.       *)
fat_get_free_dir_entry_chain(d, dir) ==
  LET i == fat_get_free_dir_entry(d, dir)
  IN  [start |-> i, disk |-> IF i \in Clusters THEN fat_change_fat_value(d, i, END) ELSE d]

(* Directory 0 is the root.                                                *)
Dir(dir) == IF dir = 0 THEN Root ELSE dir

fat_set_dir_entry(d, dir, i, e) ==
  IF i >= CellCount(d, Dir(dir)) THEN d
  ELSE [d EXCEPT !.data[Chain(d, Dir(dir))[i \div EPC + 1]][i % EPC] = e]

(* An index past the directory is refused, but not the first: its entry is *)
(* written behind the buffer.                                              *)
WithinBuffer(d, dir, i) == i # CellCount(d, Dir(dir))

LongHit(cells, i, n) == i > 0 /\ cells[i - 1].kind = "long" /\ cells[i - 1].name = n

ShortHit(cells, i, n) ==
  cells[i].kind \in {"file", "dir"} /\ n \notin Long /\ cells[i].name = Short[n]

(* The entries one level of fat_find may stop at, or NONE.  short_name is  *)
(* freed at the first long name that differs and compared afterwards: from *)
(* there on a match of short names is seen or missed.  It is freed again   *)
(* at every further one and at the end, which the heap finds out and       *)
(* ignores; that another thread has the memory by then is left out.        *)
Scan(d, dir, n) ==
  LET cells == Listing(d, dir)
      hits == {i \in DOMAIN cells : LongHit(cells, i, n) \/ ShortHit(cells, i, n)}
      sure == {i \in hits : LongHit(cells, i, n) \/ \A j \in 0 .. i : cells[j].kind # "long"}
  IN  {i \in hits : \A j \in sure : j >= i} \cup IF sure = {} THEN {NONE} ELSE {}

(* fat_find from the root: where it may end.  A name that is not a         *)
(* directory ends it, whatever follows.                                    *)
fat_find(d, path) ==
  LET find[dir \in Clusters, k \in 1 .. Len(path)] ==
        UNION {
          IF i = NONE THEN {[is |-> "missing", parent |-> dir]}
          ELSE LET e == Cell(d, dir, i)
               IN  IF k < Len(path) /\ e.kind = "dir" THEN find[e.cluster, k + 1]
                   ELSE {[is |-> "found", entry |-> e, index |-> i,
                          cluster |-> e.cluster, parent |-> dir]}
          : i \in Scan(d, dir, path[k])}
  IN  find[Root, 1]

Is(r, what) == r.is = what

---------------------------------------------------------------------------
(* The operations of the VFS.                                              *)

Undefined == undefined' = TRUE /\ UNCHANGED <<disk, files, contents, spoiled>>

OpenFile(r) == [entry |-> r.entry, index |-> r.index, cluster |-> r.cluster, parent |-> r.parent]

(* What a handle is after fat_open ended with r.                           *)
Opened(h, r) == files' = IF Is(r, "found") THEN [files EXCEPT ![h] = OpenFile(r)] ELSE files

fat_open(h, path) ==
  /\ FirstFree(h)
  /\ \E r \in fat_find(disk, path) : Opened(h, r)
  /\ UNCHANGED <<disk, undefined, contents, spoiled>>

(* The entries of a new file: a long one if needed, and the short one.     *)
PutEntries(d, dir, i, n, e) ==
  IF n \in Long THEN fat_set_dir_entry(fat_set_dir_entry(d, dir, i, LongCell(n)), dir, i + 1, e)
  ELSE fat_set_dir_entry(d, dir, i, e)

(* "." and "..", which both name the new directory; with a short name the  *)
(* two slots are searched for.                                             *)
PutDots(d, n, e) ==
  LET dot(s) == [e EXCEPT !.name = s]
      first == IF n \in Long THEN [start |-> 0, disk |-> d]
               ELSE fat_get_free_dir_entry_chain(d, e.cluster)
      d1 == fat_set_dir_entry(first.disk, e.cluster, first.start, dot("."))
      second == IF n \in Long THEN [start |-> 1, disk |-> d1]
                ELSE fat_get_free_dir_entry_chain(d1, e.cluster)
  IN  fat_set_dir_entry(second.disk, e.cluster, second.start, dot(".."))

(* fat_create and fat_mkdir once the name was not found: the slot in the   *)
(* directory, the cluster, the entries.                                    *)
Slot(dir) == fat_get_free_dir_entry_chain(disk, dir)
Room(dir) == NewChain(Slot(dir).disk)
NewEntry(dir, n, kind) == Entry(kind, Short[n], Room(dir).start, 0)

Place(dir, n) == Slot(dir).start + IF n \in Long THEN 1 ELSE 0

AddDefined(dir, n) ==
  /\ Slot(dir).start \in Clusters /\ Room(dir).start # NONE
  /\ Place(dir, n) < CellCount(disk, dir)
  /\ Sound(Slot(dir).disk, dir) /\ Sound(Room(dir).disk, dir)
  /\ Sound(Room(dir).disk, Room(dir).start)

Added(dir, n, kind) ==
  LET d == PutEntries(Room(dir).disk, dir, Slot(dir).start, n, NewEntry(dir, n, kind))
  IN  IF kind = "dir" THEN PutDots(d, n, NewEntry(dir, n, kind)) ELSE d

(* Where entry i of a directory is on the disk.                            *)
PlaceOf(dir, i) == <<Chain(disk, dir)[i \div EPC + 1], i % EPC>>

Add(h, dir, path, kind) ==
  LET n == Last(path)
      place == PlaceOf(dir, Place(dir, n))
  IN  \/ ~AddDefined(dir, n) /\ Undefined
      \/ /\ AddDefined(dir, n)
         /\ disk' = Added(dir, n, kind)
         /\ contents' = [p \in DOMAIN contents \cup IF kind = "file" THEN {place} ELSE {} |->
                           IF p \in DOMAIN contents THEN contents[p] ELSE <<>>]
         /\ spoiled' = spoiled \cup {c \in {Slot(dir).start} : InChain(disk.fat[c])}
         /\ \E r \in fat_find(disk', path) : Opened(h, r)
         /\ UNCHANGED undefined

Places == {p \in Clusters \X (0 .. EPC - 1) :
             LET e == disk.data[p[1]][p[2]]
             IN  e.kind \in {"file", "dir"} /\ e.name \notin {".", ".."}}

(* open with O_CREAT, and mkdir: the name must be missing and its          *)
(* directory there (sys/syscall.c looks for both), and is looked for again.*)
Make(h, path, kind) ==
  /\ FirstFree(h) /\ Cardinality(Places) < MaxEntries
  /\ \E r \in fat_find(disk, path) : Is(r, "missing")
  /\ Len(path) > 1 => \E r \in fat_find(disk, Front(path)) : Is(r, "found")
  /\ \E r \in fat_find(disk, path) :
       \/ Is(r, "missing") /\ Add(h, r.parent, path, kind)
       \/ Is(r, "found") /\ Opened(h, r) /\ UNCHANGED <<disk, undefined, contents, spoiled>>

fat_create(h, path) == Make(h, path, "file")
fat_mkdir(h, path) == Make(h, path, "dir")

(* Every read writes back the directory entry as it was when the file was  *)
(* opened, with the date of the access.                                    *)
fat_read(h) ==
  /\ files[h] # NoFile
  /\ LET f == files[h]
     IN  \/ ~WithinBuffer(disk, f.parent, f.index) /\ Undefined
         \/ /\ WithinBuffer(disk, f.parent, f.index)
            /\ disk' = fat_set_dir_entry(disk, f.parent, f.index, f.entry)
            /\ UNCHANGED <<files, undefined, contents, spoiled>>

(* What it returns for the cells from..from + n - 1.                       *)
ReadResult(d, e, from, n) ==
  LET count == IF e.size < from + n THEN e.size - from ELSE n
  IN  [i \in 1 .. count |-> Cell(d, e.cluster, from + i - 1)]

(* The chain is read, changed and written back.                            *)
Written(d, e, from, n, v) ==
  [d EXCEPT !.data = [c \in Clusters |-> [i \in 0 .. EPC - 1 |->
     IF \E k \in from .. from + n - 1 : Chain(d, e.cluster)[k \div EPC + 1] = c /\ k % EPC = i
     THEN Data(v) ELSE d.data[c][i]]]]

(* Mutant: the size in the entry is that of the last write.                *)
SizeOfWrite(h, from, n, v) ==
  /\ files[h] # NoFile
  /\ LET f == files[h]
     IN  /\ f.entry.kind = "file" /\ n > 0 /\ from + n <= f.entry.size
         /\ disk' = fat_set_dir_entry(Written(disk, f.entry, from, n, v), f.parent, f.index,
                                      [f.entry EXCEPT !.size = from + n])
         /\ UNCHANGED <<files, undefined, contents, spoiled>>

(* A write through sys/syscall.c never goes past the length of the file.   *)
fat_write(h, from, n, v) ==
  /\ files[h] # NoFile
  /\ LET f == files[h]
     IN  /\ f.entry.kind = "file" /\ n > 0 /\ from + n <= f.entry.size
         /\ \/ ~WithinBuffer(disk, f.parent, f.index) /\ Undefined
            \/ /\ WithinBuffer(disk, f.parent, f.index)
               /\ disk' = fat_set_dir_entry(Written(disk, f.entry, from, n, v),
                                            f.parent, f.index, f.entry)
               /\ contents' = [p \in DOMAIN contents |->
                    IF f.index < CellCount(disk, f.parent) /\ p = PlaceOf(f.parent, f.index)
                    THEN [i \in DOMAIN contents[p] |->
                            IF i - 1 \in from .. from + n - 1 THEN Data(v) ELSE contents[p][i]]
                    ELSE contents[p]]
               /\ UNCHANGED <<files, undefined, spoiled>>

RemoveDefined(r) ==
  FreeEnds(disk, r.parent) /\ WithinBuffer(fat_free_chain(disk, r.parent), r.cluster, r.index)

(* remove(): fat_delete and fat_rmdir, which take the directory for the    *)
(* file and the file for the directory.                                    *)
fat_delete(path) ==
  /\ removed < MaxRemoves /\ removed' = removed + 1
  /\ \E r \in fat_find(disk, path) :
       /\ Is(r, "found")
       /\ \/ ~RemoveDefined(r) /\ Undefined
          \/ /\ RemoveDefined(r)
             /\ disk' = fat_set_dir_entry(fat_free_chain(disk, r.parent), r.cluster, r.index, Deleted)
             /\ contents' = [p \in (DOMAIN contents) \ {PlaceOf(r.parent, r.index)} |-> contents[p]]
             /\ spoiled' = spoiled \cup ToSet(Front(FreeWalk(disk, r.parent)))
                                   \cup IF r.entry.kind = "dir" THEN {r.cluster} ELSE {}
             /\ UNCHANGED <<files, undefined>>

fat_close(h) ==
  /\ files[h] # NoFile
  /\ files' = [files EXCEPT ![h] = NoFile]
  /\ UNCHANGED <<disk, undefined, contents, spoiled>>

Next ==
  /\ ~undefined
  /\ \/ UNCHANGED removed /\ \E h \in Handles, p \in Paths : fat_open(h, p) \/ fat_create(h, p) \/ fat_mkdir(h, p)
     \/ UNCHANGED removed /\ \E h \in Handles : fat_read(h) \/ fat_close(h)
     \/ UNCHANGED removed /\ \E h \in Handles, w \in Writes : fat_write(h, w[1], w[2], w[3])
     \/ \E p \in Paths : fat_delete(p)

Spec == Init /\ [][Next]_vars

---------------------------------------------------------------------------
TypeOK ==
  /\ disk.fat \in [Clusters -> 0 .. NONE]
  /\ \A c \in Clusters : DOMAIN disk.data[c] = 0 .. EPC - 1
  /\ \A h \in Handles : files[h] # NoFile => files[h].parent \in Clusters
  /\ undefined \in BOOLEAN
  /\ spoiled \subseteq Clusters

Clean(c) == c \in Clusters => ToSet(Chain(disk, c)) \cap spoiled = {}

Directories == {Root} \cup {disk.data[p[1]][p[2]].cluster :
                              p \in {q \in Places : disk.data[q[1]][q[2]].kind = "dir"}}

(* The place is in a directory that lost no link.                          *)
Kept(p) == \E dir \in Directories : Clean(dir) /\ p[1] \in ToSet(Chain(disk, dir))

(* Where neither the clusters of a file nor those of its directory lost a  *)
(* link, what the file was last told to hold is what reading it returns,   *)
(* whatever was opened, read and written, created and removed besides.     *)
FilesIntact ==
  \A p \in DOMAIN contents :
    LET e == disk.data[p[1]][p[2]]
    IN  Kept(p) => /\ e.kind = "file"
                   /\ Clean(e.cluster) => ReadResult(disk, e, 0, Len(contents[p])) = contents[p]

(* An entry written back by a read is the one on the disk.                 *)
CachedCurrent ==
  \A h \in Handles :
    LET f == files[h]
    IN  f # NoFile => (Clean(f.parent) =>
          Cell(disk, f.parent, f.index) = f.entry)

(* Two files or directories have no cluster in common, as far as none of   *)
(* theirs lost a link, but for 248, where the low byte of the end mark     *)
(* sends every new chain.                                                  *)
ChainsDisjoint ==
  LET own == {<<p, ToSet(Chain(disk, disk.data[p[1]][p[2]].cluster))>> :
                p \in {q \in Places : Kept(q)}}
  IN  \A x, y \in {z \in own : z[2] \cap spoiled = {}} :
        x[1] # y[1] => x[2] \cap y[2] \subseteq {248}

(* Every chain an entry starts, in whatever state, ends on the disk: no    *)
(* walk of the driver leaves it or goes round, and it holds what the entry *)
(* says.                                                                   *)
ChainsEnd ==
  \A p \in Places :
    LET e == disk.data[p[1]][p[2]]
    IN  Sound(disk, e.cluster) /\ e.size <= CellCount(disk, e.cluster)

(* A directory that lost no link has a name twice, other than "." and      *)
(* "..", only behind a long name, where fat_find compares with a name it   *)
(* has freed.                                                              *)
NamesUnique ==
  \A dir \in Directories :
    LET cells == Listing(disk, dir)
        named == {i \in DOMAIN cells : cells[i].kind \in {"file", "dir"}
                                       /\ cells[i].name \notin {".", ".."}}
    IN  Clean(dir) => \A i, j \in named :
          i < j /\ cells[i].name = cells[j].name => \E k \in 0 .. j : cells[k].kind = "long"
=============================================================================
