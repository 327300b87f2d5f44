-------------------------------- MODULE Vfs --------------------------------
(***************************************************************************)
(* From a path to a file: mounting (fs/vfs.c), the file system a path      *)
(* belongs to and what it is asked for, and names in the DEVFS             *)
(* (fs/devfs.c, which is fs/tmpfs.c), from the boot of main.c on.  A path  *)
(* is a sequence of characters.  What the FAT file system makes of its     *)
(* part is in module Fat32.  Following a null pointer ends a behaviour     *)
(* (fault).                                                                *)
(***************************************************************************)
EXTENDS Integers, Sequences, SequencesExt, FiniteSets

CONSTANTS
  Devices,      \* paths of the nodes made at boot, in order
  Slash,
  DevPath,      \* "/dev/"
  Paths,        \* absolute paths
  Opened        \* of these, the ones opened with O_CREAT or without

VARIABLES
  step,         \* where k_thread is
  mounts,       \* vfs_mounts: paths; the first is root_mount
  children,     \* of the DEVFS root: [path, mode]
  fault

Root == <<Slash>>
NoMount == <<>>
Booted == 2 + Len(Devices)

Init == step = 1 /\ mounts = <<>> /\ children = <<>> /\ fault = FALSE

---------------------------------------------------------------------------
(* The last character is dropped until what is left is a mount's path; of  *)
(* one character, root_mount is left.                                      *)
vfs_find_mount(path) ==
  LET hits == {n \in 2 .. Len(path) : SubSeq(path, 1, n) \in Range(mounts)}
  IN  IF path # Root /\ hits # {}
      THEN SubSeq(path, 1, CHOOSE n \in hits : \A k \in hits : k <= n)
      ELSE IF mounts = <<>> THEN NoMount ELSE mounts[1]

(* Mutant: the slash between mount and rest is lost.                       *)
BareRest(path, mount) ==
  IF Len(path) = Len(mount) THEN Root ELSE SubSeq(path, Len(mount) + 1, Len(path))

(* What a file system is asked for: from the last slash of its mount on.   *)
Rest(path, mount) ==
  IF Len(path) = Len(mount) THEN Root ELSE SubSeq(path, Len(mount), Len(path))

vfs_is_mounted(path) == path \in Range(mounts)

(* vfs_mount_fs finds the file system by its name, or its mount refuses.   *)
vfs_mount(path, works) ==
  mounts' = IF (mounts = <<>> /\ path # Root) \/ vfs_is_mounted(path) \/ ~works
            THEN mounts ELSE Append(mounts, path)

---------------------------------------------------------------------------
(* Names up to the next slash.                                             *)
Token(path) ==
  LET ends == {n \in DOMAIN path : path[n] = Slash}
  IN  IF ends = {} THEN path ELSE SubSeq(path, 1, (CHOOSE n \in ends : \A k \in ends : n <= k) - 1)

Named(name) == {i \in DOMAIN children : children[i].path = name}
Earliest(is) == CHOOSE i \in is : \A j \in is : i <= j

Missing == -1
Fault == -2

(* The root for "/"; else the first child of that name.  Behind a child's  *)
(* name the slash is not skipped, and no child is a directory.             *)
tmpfs_find(path) ==
  LET p == IF path[1] = Slash THEN Tail(path) ELSE path
      tok == Token(p)
  IN  IF p = <<>> THEN 0
      ELSE IF Named(tok) = {} THEN Missing
      ELSE IF Len(tok) < Len(p) THEN Fault
      ELSE Earliest(Named(tok))

(* tmpfs_create, tmpfs_mknod: what exists is opened, else a child of the   *)
(* root is made of the first name of the path.                             *)
Make(path, mode) ==
  LET found == tmpfs_find(path)
  IN  /\ children' = IF found # Missing THEN children
                     ELSE Append(children, [path |-> Token(Tail(path)), mode |-> mode])
      /\ fault' = (found = Fault)

(* vfs_mknod, from init_tty, init_fbdev and init_mousedev                  *)
vfs_mknod(path, mode) ==
  LET mount == vfs_find_mount(path)
  IN  IF mount = DevPath THEN Make(Rest(path, mount), mode)
      ELSE fault' = (mount = NoMount) /\ UNCHANGED children

(* k_thread: the two file systems are mounted, then each node is made.     *)
Boot ==
  /\ step <= Booted /\ step' = step + 1
  /\ \/ step = 1 /\ (\E works \in BOOLEAN : vfs_mount(Root, works)) /\ UNCHANGED <<children, fault>>
     \/ step = 2 /\ vfs_mount(DevPath, TRUE) /\ UNCHANGED <<children, fault>>
     \/ step > 2 /\ vfs_mknod(Devices[step - 2], "chr") /\ UNCHANGED mounts

(* vfs_open, for what is below DevPath; disk: what the FAT file system     *)
(* answers where it is asked.                                              *)
vfs_open(path, disk) ==
  LET mount == vfs_find_mount(path)
  IN  IF mount = DevPath THEN tmpfs_find(Rest(path, mount))
      ELSE IF disk THEN 0 ELSE Missing

Parent(path) ==
  LET slashes == {n \in DOMAIN path : path[n] = Slash}
  IN  SubSeq(path, 1, (CHOOSE n \in slashes : \A k \in slashes : k <= n) - 1)

(* syscall_open: a path that is missing is created, with O_CREAT, where    *)
(* the path up to its last slash can be opened.                            *)
Open(path, creat, disk) ==
  /\ step > Booted
  /\ vfs_find_mount(path) = DevPath
  /\ LET found == vfs_open(path, disk)
         parent == vfs_open(Parent(path), disk)
     IN  \/ found = Fault /\ fault' = TRUE /\ UNCHANGED children
         \/ found = Missing /\ creat /\ parent >= 0 /\ Make(Rest(path, DevPath), "reg")
  /\ UNCHANGED <<step, mounts>>

Next ==
  /\ ~fault
  /\ Boot \/ \E path \in Opened, creat, disk \in BOOLEAN : Open(path, creat, disk)

vars == <<step, mounts, children, fault>>
Spec == Init /\ [][Next]_vars

---------------------------------------------------------------------------
(* At every stage of the boot and after, a path goes to the mount whose    *)
(* path is its longest prefix, and mount and rest make up the path again.  *)
PathSplit ==
  mounts # <<>> => \A path \in Paths :
    LET mount == vfs_find_mount(path)
        rest == Rest(path, mount)
    IN  /\ IsPrefix(mount, path)
        /\ \A i \in DOMAIN mounts : IsPrefix(mounts[i], path) => Len(mounts[i]) <= Len(mount)
        /\ rest[1] = Slash /\ path = mount \o Tail(rest)

(* Whatever nodes and files were made, a name in /dev stands for one file, *)
(* and its path leads to it: a device once made is not hidden.             *)
NodesReached ==
  ~fault => \A i \in DOMAIN children :
    /\ Named(children[i].path) = {i}
    /\ children[i].path # <<>> => vfs_open(DevPath \o children[i].path, FALSE) = i
=============================================================================
