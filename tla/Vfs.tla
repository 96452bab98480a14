--------------------------------- MODULE Vfs ---------------------------------
(***************************************************************************)
(* The mount table and the descriptor table of kernel/fs/vfs.c.  Paths are *)
(* sequences of characters.  No file system of the repository registers    *)
(* with it, so the file systems are parameters: which callbacks they have  *)
(* and which paths they know.                                              *)
(***************************************************************************)
EXTENDS Integers, Sequences, SequencesExt, FiniteSets

CONSTANTS MAX_MOUNTS, MAX_FDS,
          Targets, Paths,     \* what callers mount on, and open
          FileSystems,
          HasMount, HasGetInode,  \* file systems whose callbacks are not null
          HasOpen, HasRead,   \* file systems whose inodes have these operations
          Known               \* the paths, below the mount point, each one knows

ASSUME VfsConstants ==
  /\ MAX_MOUNTS \in Nat /\ MAX_FDS \in Nat
  /\ HasMount \cup HasGetInode \cup HasOpen \cup HasRead \subseteq FileSystems
  /\ Known \in [FileSystems -> SUBSET Seq({"/", "a", "b"})]

NULL == <<>>                  \* no inode
FAIL == <<-1>>                \* results are tuples: a number, or an inode

VARIABLES mounts, fds,        \* the used entries of both tables
          mountCalls, openCalls,  \* ghosts: the callbacks made, in order
          fd                  \* what the last call returned

vfs_vars == <<mounts, fds, mountCalls, openCalls, fd>>

VfsInit == /\ mounts = <<>> /\ fds = <<>>
        /\ mountCalls = <<>> /\ openCalls = <<>> /\ fd = <<>>

Asked(fs, target) == IF fs \in HasMount THEN <<[path |-> target, fs |-> fs]>> ELSE <<>>

vfs_mount(target, fs) ==
  /\ IF Len(mounts) >= MAX_MOUNTS
       THEN fd' = FAIL /\ UNCHANGED <<mounts, mountCalls>>
       ELSE /\ mounts' = Append(mounts, [path |-> target, fs |-> fs])
            /\ mountCalls' = mountCalls \o Asked(fs, target)
            /\ fd' = <<0>>
  /\ UNCHANGED <<fds, openCalls>>

\* What a file system's own get_inode answers.
get_inode(fs, path) == IF path \in Known[fs] THEN <<fs, path>> ELSE NULL

MutResolve(path) ==
  LET scan[i \in 0 .. Len(mounts)] ==
        IF i = 0 THEN NULL
        ELSE LET m == mounts[Len(mounts) + 1 - i]
             IN  IF IsPrefix(m.path, path) /\ m.fs \in HasGetInode
                   THEN get_inode(m.fs, SubSeq(path, Len(m.path) + 1, Len(path)))
                   ELSE scan[i - 1]
  IN  scan[Len(mounts)]

vfs_resolve(path) ==
  LET scan[i \in 0 .. Len(mounts)] ==
        IF i = 0 THEN NULL
        ELSE LET m == mounts[i]
             IN  IF IsPrefix(m.path, path) /\ m.fs \in HasGetInode
                   THEN get_inode(m.fs, SubSeq(path, Len(m.path) + 1, Len(path)))
                   ELSE scan[i - 1]
  IN  scan[Len(mounts)]

Called(inode) == IF inode[1] \in HasOpen THEN <<inode>> ELSE <<>>

MutOpen(path) ==
  LET inode == vfs_resolve(path)
  IN  /\ IF inode = NULL
           THEN fd' = FAIL /\ UNCHANGED <<fds, openCalls>>
           ELSE /\ fds' = IF Len(fds) >= MAX_FDS THEN fds ELSE Append(fds, inode)
                /\ openCalls' = openCalls \o Called(inode)
                /\ fd' = IF Len(fds) >= MAX_FDS THEN FAIL ELSE <<Len(fds)>>
      /\ UNCHANGED <<mounts, mountCalls>>

vfs_open(path) ==
  LET inode == vfs_resolve(path)
  IN  /\ IF inode = NULL \/ Len(fds) >= MAX_FDS
           THEN fd' = FAIL /\ UNCHANGED <<fds, openCalls>>
           ELSE /\ fds' = Append(fds, inode)
                /\ openCalls' = openCalls \o Called(inode)
                /\ fd' = <<Len(fds)>>
      /\ UNCHANGED <<mounts, mountCalls>>

\* Returns the inode whose read is called, always at offset 0, or fails.
vfs_read(n) ==
  /\ fd' = IF n \in 0 .. Len(fds) - 1 /\ fds[n + 1][1] \in HasRead THEN fds[n + 1] ELSE FAIL
  /\ UNCHANGED <<mounts, fds, mountCalls, openCalls>>

VfsNext ==
  \/ \E t \in Targets, f \in FileSystems : vfs_mount(t, f)
  \/ \E p \in Paths : vfs_open(p)
  \/ \E d \in -1 .. MAX_FDS : vfs_read(d)
-----------------------------------------------------------------------------
(* The backward scan of vfs_resolve finds the newest mount whose target is a *)
(* prefix of the path, passing over file systems without get_inode, and that *)
(* mount's answer is final: an older mount is not asked again.               *)
ResolveIsNewest ==
  \A p \in Paths :
    LET able == {k \in DOMAIN mounts : /\ IsPrefix(mounts[k].path, p)
                                       /\ mounts[k].fs \in HasGetInode}
        m == mounts[Max(able)]
    IN  vfs_resolve(p) =
          IF able # {} /\ \E r \in Known[m.fs] : m.path \o r = p
            THEN <<m.fs, CHOOSE r \in Known[m.fs] : m.path \o r = p>> ELSE NULL

(* A file system's mount and open callbacks run exactly once for each table  *)
(* entry: a call refused because its table is full reaches no file system.   *)
CallbacksMatchTables ==
  /\ mountCalls = SelectSeq(mounts, LAMBDA m : m.fs \in HasMount)
  /\ openCalls = SelectSeq(fds, LAMBDA i : i[1] \in HasOpen)
=============================================================================
