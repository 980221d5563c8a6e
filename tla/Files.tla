------------------------------- MODULE Files -------------------------------
(***************************************************************************)
(* Open-file tables: kern/fs/file.c, kern/fs/fs.c, the parts of            *)
(* kern/process/proc.c that share, copy and give back a files_struct, and  *)
(* the system calls of kern/fs/sysfile.c, over the inodes of Sfs.tla.      *)
(* A system call is one step, but for a read of stdin, which sleeps in the *)
(* device (Stdin.tla) with its descriptor acquired.                        *)
(***************************************************************************)
EXTENDS Sfs, Functions

CONSTANTS
    Proc, NoTable,
    Table,                  \* the files_structs that fit in memory
    FILES_STRUCT_NENTRY,
    Path, Flags, Position,  \* the arguments that the other calls are made with
    Directory, Program,     \* the paths that sys_chdir and sys_exec are called with
    CLONE_FS,               \* the values of that flag that do_fork is called with
    MaxLeaks                \* bound: opens refused with E_EXISTS, and processes that die without an mm

VARIABLES
    fs,        \* the inodes and the volume (Sfs.tla)
    tab,       \* the files_structs
    filesp,    \* proc->filesp
    mm,        \* whether proc->mm is not NULL: a kernel thread has none
    reading,   \* the descriptor a process sleeps on in dev_stdin_read
    lost,      \* auxiliary: opens of each inode refused with E_EXISTS
    orphaned   \* auxiliary: processes that died without giving back a files_struct

vars == <<fs, tab, filesp, mm, reading, lost, orphaned>>

(* A machine has finitely many processes and files_structs, and a          *)
(* files_struct has an array of fixed size.                                *)
ASSUME FilesAssumption ==
    /\ IsFiniteSet(Proc) /\ IsFiniteSet(Table) /\ NoTable \notin Table
    /\ FILES_STRUCT_NENTRY \in Nat

NO_FD == -1
Fd == 0 .. FILES_STRUCT_NENTRY - 1
Unused == [status |-> "FD_NONE", node |-> NoNode, open_count |-> 0, pos |-> 0,
           readable |-> FALSE, writable |-> FALSE]
Slot == [status : {"FD_NONE", "FD_OPENED", "FD_CLOSED"}, node : Node \cup {NoNode},
         open_count : Nat, pos : 0 .. SFS_MAX_FILE_SIZE - 1,
         readable : BOOLEAN, writable : BOOLEAN]
NoFiles == [files_count |-> 0, pwd |-> NoNode, fd_array |-> [d \in Fd |-> Unused]]

(* Types of the file system and of every table: of sfs_fs, inode, files_struct and file. *)
TypeOK ==
    /\ fs \in FsState
    /\ tab \in [Table -> [files_count : Nat, pwd : Dir \cup {NoNode}, fd_array : [Fd -> Slot]]]
    /\ filesp \in [Proc -> Table \cup {NoTable}]
    /\ mm \in [Proc -> BOOLEAN]
    /\ reading \in [Proc -> Fd \cup {NO_FD}]

-----------------------------------------------------------------------------
(* One descriptor.  The operators work on k = [s, f]: the state of the     *)
(* file system and one fd_array.                                           *)
fd_array_free(k, d) ==
    LET file == k.f[d]
        s == Checked(k.s, file.status \in {"FD_INIT", "FD_CLOSED"} /\ file.open_count = 0, "file")
    IN  [s |-> IF file.status = "FD_CLOSED" THEN vfs_close(s, file.node) ELSE s,
         f |-> [k.f EXCEPT ![d] = Unused]]

fd_array_acquire_no(k, d) == k
fd_array_acquire(k, d) ==
    [s |-> Checked(k.s, k.f[d].status = "FD_OPENED", "file"),
     f |-> [k.f EXCEPT ![d].open_count = @ + 1]]

(* fopen_count_dec, and fd_array_free when it was the last. *)
Dropped(k, d) ==
    LET t == [s |-> Checked(k.s, k.f[d].open_count > 0, "file"),
              f |-> [k.f EXCEPT ![d].open_count = @ - 1]]
    IN  IF t.f[d].open_count = 0 THEN fd_array_free(t, d) ELSE t

fd_array_release(k, d) ==
    Dropped([k EXCEPT !.s = Checked(@, k.f[d].status \in {"FD_OPENED", "FD_CLOSED"}, "file")], d)

fd_array_close_open(k, d) == Dropped(k, d)
fd_array_close(k, d) ==
    Dropped([s |-> Checked(k.s, k.f[d].status = "FD_OPENED", "file"),
             f |-> [k.f EXCEPT ![d].status = "FD_CLOSED"]], d)

(* fd_array_dup of the slot `from' into a slot of another table or of this one. *)
fd_array_dup(k, d, from) ==
    [s |-> vop_open_inc(vop_ref_inc(Checked(k.s, from.status = "FD_OPENED", "file"), from.node),
                        from.node),
     f |-> [k.f EXCEPT ![d] = [from EXCEPT !.open_count = 1]]]

(* fd_array_close of the descriptors from `first' on that are open. *)
ClosedFrom(k, first) ==
    LET close[d \in first .. FILES_STRUCT_NENTRY] ==
            IF d = first THEN k
            ELSE IF close[d - 1].f[d - 1].status = "FD_OPENED"
                 THEN fd_array_close(close[d - 1], d - 1) ELSE close[d - 1]
    IN  IF first > FILES_STRUCT_NENTRY THEN k ELSE close[FILES_STRUCT_NENTRY]

files_closeall(k) == ClosedFrom(k, 2)   \* stdin and stdout stay

files_destroy(s, t) ==
    LET k == ClosedFrom([s |-> IF t.pwd = NoNode THEN s ELSE vop_ref_dec(s, t.pwd),
                         f |-> t.fd_array], 0)
    IN  Checked(k.s, \A d \in Fd : k.f[d].status = "FD_NONE", "file")

(* dup_files: the references of the copy; the array is copied entry by entry. *)
dup_files(s, from) ==
    LET k0 == [s |-> IF from.pwd = NoNode THEN s ELSE vop_ref_inc(s, from.pwd),
               f |-> NoFiles.fd_array]
        dup[d \in 0 .. FILES_STRUCT_NENTRY] ==
            IF d = 0 THEN k0
            ELSE IF from.fd_array[d - 1].status = "FD_OPENED"
                 THEN fd_array_dup(dup[d - 1], d - 1, from.fd_array[d - 1]) ELSE dup[d - 1]
    IN  dup[FILES_STRUCT_NENTRY]

-----------------------------------------------------------------------------
(* The system calls: made by a user program that is not asleep in a read. *)
Running(p) == fs.panic = "none" /\ filesp[p] # NoTable /\ reading[p] = NO_FD
Calls(p) == Running(p) /\ mm[p]

Files(p) == tab[filesp[p]]
IsOpen(p, d) == Files(p).fd_array[d].status = "FD_OPENED"   \* fd2file
Both(p) == [s |-> fs, f |-> Files(p).fd_array]

Becomes(p, k) ==
    /\ fs' = k.s
    /\ tab' = [tab EXCEPT ![filesp[p]].fd_array = k.f]

fd_array_alloc(p) == {d \in Fd : Files(p).fd_array[d].status = "FD_NONE"}

(* file_open; the descriptor is FD_INIT during vfs_open and free again when *)
(* that fails.                                                              *)
Installed(r, f, d, flags) ==
    IF r.ret # "ok"
    THEN LET freed == fd_array_free([s |-> r.s, f |-> [f EXCEPT ![d] = [Unused EXCEPT !.status = "FD_INIT"]]], d)
         IN  [s |-> freed.s, f |-> freed.f, ret |-> r.ret]
    ELSE [s |-> r.s, ret |-> "ok",
          f |-> [f EXCEPT ![d] = [status |-> "FD_OPENED", node |-> r.node, open_count |-> 1,
                                  pos |-> IF flags.append THEN r.s.din[r.node].size ELSE 0,
                                  readable |-> flags.acc # "w", writable |-> flags.acc # "r"]]]

OpenedFile(p, k, path, flags) ==
    Installed(vfs_open(k.s, Files(p).pwd, path, flags), k.f,
              Min({c \in Fd : k.f[c].status = "FD_NONE"}), flags)

file_open(p, path, flags) ==
    /\ Calls(p)
    /\ fd_array_alloc(p) # {}
    /\ \E r \in {OpenedFile(p, Both(p), path, flags)} :
        /\ Becomes(p, r)
        /\ IF r.ret = "E_EXISTS"
           THEN /\ FoldFunction(+, 0, lost) < MaxLeaks
                /\ lost' = [lost EXCEPT ![vfs_lookup(fs, Files(p).pwd, path).node] = @ + 1]
           ELSE UNCHANGED lost
    /\ UNCHANGED <<filesp, mm, reading, orphaned>>

file_close(p, d) ==
    /\ Calls(p) /\ IsOpen(p, d)
    /\ Becomes(p, fd_array_close(Both(p), d))
    /\ UNCHANGED <<filesp, mm, reading, lost, orphaned>>

(* file_read: it sleeps on stdin; a file hands back no byte and a directory *)
(* has no vop_read.                                                         *)
file_read(p, d) ==
    /\ Calls(p) /\ IsOpen(p, d) /\ Files(p).fd_array[d].readable
    /\ LET n == Files(p).fd_array[d].node
           k == fd_array_acquire(Both(p), d)
       IN  IF n \in Dev
           THEN Becomes(p, k) /\ reading' = [reading EXCEPT ![p] = d]
           ELSE /\ Becomes(p, fd_array_release([k EXCEPT !.s = Checked(@, n \in File, "vop")], d))
                /\ UNCHANGED reading
    /\ UNCHANGED <<filesp, mm, lost, orphaned>>

(* The read of stdin comes back, with input or because of a kill. *)
file_read_returns(p) ==
    /\ fs.panic = "none" /\ reading[p] # NO_FD
    /\ Becomes(p, fd_array_release(Both(p), reading[p]))
    /\ reading' = [reading EXCEPT ![p] = NO_FD]
    /\ UNCHANGED <<filesp, mm, lost, orphaned>>

file_write(p, d) ==
    /\ Calls(p) /\ IsOpen(p, d) /\ Files(p).fd_array[d].writable
    /\ LET file == Files(p).fd_array[d]
       IN  fs' = IF file.node \in File THEN sfs_io_nolock(fs, file.node, file.pos, TRUE) ELSE fs
    /\ UNCHANGED <<tab, filesp, mm, reading, lost, orphaned>>

(* file_seek: tryseek refuses on a device and a directory has none. *)
file_seek(p, d, pos) ==
    /\ Calls(p) /\ IsOpen(p, d)
    /\ LET n == Files(p).fd_array[d].node
       IN  \E r \in {IF n \in File THEN sfs_tryseek(fs, n, pos)
                     ELSE Fail(Checked(fs, n \in Dev, "vop"), "E_INVAL")} :
            Becomes(p, [s |-> r.s, f |-> IF r.ret # "ok" THEN Files(p).fd_array
                                         ELSE [Files(p).fd_array EXCEPT ![d].pos = pos]])
    /\ UNCHANGED <<filesp, mm, reading, lost, orphaned>>

(* file_fsync; a device has no vop_fsync. *)
file_fsync(p, d) ==
    /\ Calls(p) /\ IsOpen(p, d)
    /\ LET n == Files(p).fd_array[d].node
       IN  fs' = IF n \in Ino THEN sfs_fsync(fs, n) ELSE Checked(fs, FALSE, "vop")
    /\ UNCHANGED <<tab, filesp, mm, reading, lost, orphaned>>

(* file_getdirentry; only a directory has vop_getdirentry. *)
file_getdirentry(p, d) ==
    /\ Calls(p) /\ IsOpen(p, d)
    /\ fs' = Checked(fs, Files(p).fd_array[d].node \in Dir, "vop")
    /\ UNCHANGED <<tab, filesp, mm, reading, lost, orphaned>>

(* file_dup, to a given descriptor (fd2) or to the lowest free one (NO_FD). *)
file_dup(p, fd1, fd2) ==
    /\ Calls(p) /\ IsOpen(p, fd1)
    /\ IF fd2 = NO_FD THEN fd_array_alloc(p) # {} ELSE fd2 \in fd_array_alloc(p)
    /\ Becomes(p, fd_array_dup(Both(p), IF fd2 = NO_FD THEN Min(fd_array_alloc(p)) ELSE fd2,
                               Files(p).fd_array[fd1]))
    /\ UNCHANGED <<filesp, mm, reading, lost, orphaned>>

(* sysfile_chdir: vfs_lookup, vfs_set_curdir, and the lookup's reference back. *)
vfs_set_curdir_keeps(s, old, dir) == IF dir = old THEN s ELSE vop_ref_inc(s, dir)
vfs_set_curdir(s, old, dir) ==
    IF dir = old THEN s
    ELSE IF old = NoNode THEN vop_ref_inc(s, dir)
    ELSE vop_ref_dec(vop_ref_inc(s, dir), old)

sysfile_chdir(p, path) ==
    /\ Calls(p)
    /\ \E found \in {vfs_lookup(fs, Files(p).pwd, path)} :
        IF found.ret # "ok" THEN fs' = found.s /\ UNCHANGED tab
        ELSE IF found.node \notin Dir
             THEN fs' = vop_ref_dec(found.s, found.node) /\ UNCHANGED tab
        ELSE /\ fs' = vop_ref_dec(vfs_set_curdir(found.s, Files(p).pwd, found.node), found.node)
             /\ tab' = [tab EXCEPT ![filesp[p]].pwd = found.node]
    /\ UNCHANGED <<filesp, mm, reading, lost, orphaned>>

-----------------------------------------------------------------------------
(* Processes. *)

(* files_count_inc. *)
Shared_uncounted(t) == t
Shared(t) == [t EXCEPT !.files_count = @ + 1]

(* copy_files: the table is shared under CLONE_FS and copied otherwise. *)
copy_files(p, q, clone_fs) ==
    /\ Calls(p)
    /\ filesp[q] = NoTable
    /\ IF clone_fs
       THEN /\ tab' = [tab EXCEPT ![filesp[p]] = Shared(@)]
            /\ filesp' = [filesp EXCEPT ![q] = filesp[p]]
            /\ UNCHANGED fs
       ELSE \E t \in Table :
            LET k == dup_files(fs, Files(p))
            IN  /\ tab[t].files_count = 0
                /\ fs' = k.s
                /\ tab' = [tab EXCEPT ![t] = [files_count |-> 1, pwd |-> Files(p).pwd,
                                              fd_array |-> k.f]]
                /\ filesp' = [filesp EXCEPT ![q] = t]
    /\ mm' = [mm EXCEPT ![q] = TRUE]
    /\ UNCHANGED <<reading, lost, orphaned>>

(* do_exit, from the state k of this process's files.  put_files is called  *)
(* only when current->mm is not NULL (has_mm).                              *)
Exit(p, k, has_mm) ==
    LET t == [Files(p) EXCEPT !.fd_array = k.f]
        last == t.files_count = 1
    IN  /\ fs' = IF has_mm /\ last THEN files_destroy(k.s, t) ELSE k.s
        /\ tab' = [tab EXCEPT ![filesp[p]] =
                      IF ~has_mm THEN t
                      ELSE IF last THEN NoFiles ELSE [t EXCEPT !.files_count = @ - 1]]
        /\ filesp' = [filesp EXCEPT ![p] = NoTable]
        /\ mm' = [mm EXCEPT ![p] = FALSE]
        /\ has_mm \/ FoldFunction(+, 0, orphaned) < MaxLeaks
        /\ orphaned' = IF has_mm THEN orphaned ELSE [orphaned EXCEPT ![filesp[p]] = @ + 1]

do_exit(p) ==
    /\ Calls(p)
    /\ Exit(p, Both(p), TRUE)
    /\ UNCHANGED <<reading, lost>>

(* do_execve, also of the kernel thread user_main, which has no mm: the    *)
(* descriptors above stdout are closed and the program is opened; if it    *)
(* cannot be loaded the old memory is gone and the process exits without   *)
(* an mm.                                                                  *)
ReadOnly == [acc |-> "r", creat |-> FALSE, excl |-> FALSE, trunc |-> FALSE, append |-> FALSE]

do_execve(p, path, loads) ==
    /\ Running(p)
    /\ \E k \in {files_closeall(Both(p))} :
        \E r \in {IF \A d \in Fd : k.f[d].status # "FD_NONE"
                  THEN [s |-> k.s, f |-> k.f, ret |-> "E_MAX_OPEN"]
                  ELSE OpenedFile(p, k, path, ReadOnly)} :
            IF r.ret = "ok" /\ loads
            THEN Becomes(p, r) /\ mm' = [mm EXCEPT ![p] = TRUE] /\ UNCHANGED <<filesp, orphaned>>
            ELSE Exit(p, r, mm[p] /\ r.ret # "ok")
    /\ UNCHANGED <<reading, lost>>

(* fs_cleanup, which init_main calls when every other process is gone. *)
fs_cleanup ==
    /\ fs.panic = "none"
    /\ \A p \in Proc : filesp[p] = NoTable
    /\ fs' = sfs_sync(fs)
    /\ UNCHANGED <<tab, filesp, mm, reading, lost, orphaned>>

-----------------------------------------------------------------------------
(* vfs_set_bootfs("disk0:") has been called by init_main: the root is the  *)
(* boot file system and initproc's directory, which no step here changes;  *)
(* a device's inode is held by the device table.                           *)
Pinned == [n \in Node |-> IF n \in Dev THEN 1 ELSE IF n = Root THEN 2 ELSE 0]

(* The first process has no file open and the root as its directory: it is *)
(* user_main, or the program it has loaded.                                *)
Init ==
    \E p \in Proc, t \in Table, loaded \in BOOLEAN :
        /\ filesp = [q \in Proc |-> IF q = p THEN t ELSE NoTable]
        /\ mm = [q \in Proc |-> q = p /\ loaded]
        /\ tab = [u \in Table |-> IF u = t THEN [NoFiles EXCEPT !.files_count = 1, !.pwd = Root]
                                  ELSE NoFiles]
        /\ fs = [ref |-> [Pinned EXCEPT ![Root] = @ + 1], open |-> [n \in Node |-> 0],
                 in_core |-> {Root}, reclaim |-> [i \in Ino |-> IF i = Root THEN 1 ELSE 0],
                 dirty |-> {}, din |-> [i \in File |-> EmptyDin],
                 disk |-> [i \in File |-> EmptyDin], ents |-> [b \in Block |-> EmptySlots],
                 free |-> Block, unused |-> Cardinality(Block), super_dirty |-> FALSE,
                 disk_free |-> Block, disk_unused |-> Cardinality(Block), panic |-> "none"]
        /\ reading = [q \in Proc |-> NO_FD]
        /\ lost = [n \in Node |-> 0]
        /\ orphaned = [u \in Table |-> 0]

Next ==
    \/ \E p \in Proc :
        \/ \E path \in Path, flags \in Flags : file_open(p, path, flags)
        \/ \E path \in Directory : sysfile_chdir(p, path)
        \/ \E path \in Program, loads \in BOOLEAN : do_execve(p, path, loads)
        \/ \E d \in Fd :
            \/ file_close(p, d)
            \/ file_read(p, d)
            \/ file_write(p, d)
            \/ file_fsync(p, d)
            \/ file_getdirentry(p, d)
            \/ \E pos \in Position : file_seek(p, d, pos)
            \/ \E d2 \in Fd \cup {NO_FD} : file_dup(p, d, d2)
        \/ file_read_returns(p)
        \/ \E q \in Proc, clone_fs \in CLONE_FS : copy_files(p, q, clone_fs)
        \/ do_exit(p)
    \/ fs_cleanup

Spec == Init /\ [][Next]_vars

-----------------------------------------------------------------------------
(* Properties. *)

Descriptors(tables, n) ==
    {h \in Table \X Fd : LET file == tables[h[1]].fd_array[h[2]]
                        IN  file.status # "FD_NONE" /\ file.node = n}
CurDirs(tables, n) == {t \in Table : tables[t].pwd = n}

(* The two counts of an inode are its holders: every descriptor on it,     *)
(* closed or not while somebody still reads through it, every table whose  *)
(* directory it is, and what the kernel holds for good; only an open that  *)
(* is refused with E_EXISTS leaves a reference behind (vop_ref_inc,        *)
(* vop_ref_dec, vop_open_inc and vop_open_dec on the paths, failing ones   *)
(* included, of open, close, read, seek, dup, chdir, fork, exec and exit;  *)
(* getcwd is not modelled).                                                *)
CountsAreHolders ==
    fs.panic = "none" =>
        \A n \in Node :
            /\ fs.open[n] = Cardinality(Descriptors(tab, n))
            /\ fs.ref[n] = Cardinality(Descriptors(tab, n)) + Cardinality(CurDirs(tab, n))
                           + Pinned[n] + lost[n]

(* An SFS inode is on the hash list exactly while somebody has a reference *)
(* to it, and one reclaim is due for it: nobody is left with an inode that *)
(* sfs_reclaim has freed, and none stays in memory for nobody.             *)
CachedIffReferenced ==
    fs.panic = "none" =>
        \A i \in Ino : /\ (i \in fs.in_core) <=> (fs.ref[i] > 0)
                       /\ fs.reclaim[i] = IF i \in fs.in_core THEN 1 ELSE 0

(* A descriptor's open_count is the descriptor itself and the reads that   *)
(* sleep on it, so that the last of them frees it, once: a slot under a    *)
(* read keeps the device it reads and is not given to another open.        *)
ReadersHoldSlot ==
    fs.panic = "none" =>
        /\ \A t \in Table, d \in Fd :
            LET readers == {p \in Proc : filesp[p] = t /\ reading[p] = d}
                file == tab[t].fd_array[d]
            IN  file.open_count = Cardinality(readers) + IF file.status = "FD_OPENED" THEN 1 ELSE 0
        /\ \A p \in Proc : reading[p] # NO_FD => Files(p).fd_array[reading[p]].node = "stdin"

(* files_count is the number of processes that share the table: it goes    *)
(* with the last of them and not before (copy_files, put_files); only a    *)
(* process that dies in exec without an mm, because its program could not  *)
(* be loaded or because it is user_main, never gives it back.              *)
TablesAreShared ==
    \A t \in Table :
        tab[t].files_count = Cardinality({p \in Proc : filesp[p] = t}) + orphaned[t]

(* The assertions of file.c, fs.c, inode.c, bitmap.c and of the block map  *)
(* hold.  Two that can fail are left out: the one of __vop_op, that an     *)
(* inode has the operation, and tblks == din->blocks in sfs_truncfile, for *)
(* a file that already has the size asked for: a growth that found the     *)
(* disk full leaves blocks the size does not cover.                        *)
AssertionsHold == fs.panic \in {"none", "vop", "truncfile"}

(* The disk inode of a file as the kernel goes by it: in core, or on disk.  *)
Current(i) == IF i \in fs.in_core THEN fs.din[i] ELSE fs.disk[i]

(* The block map: what each pointer of an inode, and of its indirect block, *)
(* names.                                                                   *)
BlockAt(din, index) ==
    IF index \in Direct THEN din.direct[index]
    ELSE IF din.indirect = NoBlock THEN NoBlock ELSE fs.ents[din.indirect][index - SFS_NDIRECT]
Pointers(i, din) ==
    {pt \in {<<i, -1, din.indirect>>}
            \cup {<<i, k, BlockAt(din, k)>> : k \in 0 .. SFS_NDIRECT + SFS_BLK_NENTRY - 1} :
        pt[3] # NoBlock}
AllPointers(din) == UNION {Pointers(i, din[i]) : i \in File}
Named(pointers) == {pt[3] : pt \in pointers}

(* The blocks that an inode counts are there: sfs_bmap_load_nolock never   *)
(* comes upon a missing one.                                               *)
NoHoles ==
    \A i \in File : \A index \in 0 .. Current(i).blocks - 1 : BlockAt(Current(i), index) # NoBlock

(* Every disk block is free or named by one pointer of one file, and       *)
(* unused_blocks counts the free ones: no path of sfs_truncfile, the one   *)
(* that finds the disk full halfway included, loses a block or lets two    *)
(* files have it; and the blocks an inode counts are there.                *)
BlocksConserved ==
    LET pointers == AllPointers([i \in File |-> Current(i)])
    IN  /\ Named(pointers) = Block \ fs.free
        /\ Cardinality(pointers) = Cardinality(Named(pointers))
        /\ fs.unused = Cardinality(fs.free)
        /\ NoHoles

(* A file nobody has open is on the disk as it was last in memory, size and *)
(* pointers: the inode is written at the last close (sfs_close, sfs_reclaim)*)
(* whatever closes it, close, exec or the exit of the process.              *)
ClosedIsOnDisk ==
    fs.panic = "none" =>
        \A i \in File : fs.open[i] = 0 =>
            /\ fs.disk[i].size = fs.din[i].size
            /\ fs.disk[i].direct = fs.din[i].direct
            /\ fs.disk[i].indirect = fs.din[i].indirect

(* The image that fs_cleanup leaves is consistent by itself: the free map  *)
(* on the disk is what the pointers on the disk leave over.                *)
ImageConsistent ==
    (fs.panic = "none" /\ ~fs.super_dirty /\ \A i \in File : fs.open[i] = 0) =>
        /\ fs.disk_free = Block \ Named(AllPointers(fs.disk))
        /\ fs.disk_unused = Cardinality(fs.disk_free)
=============================================================================
