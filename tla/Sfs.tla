-------------------------------- MODULE Sfs --------------------------------
(***************************************************************************)
(* The inodes of kern/fs/vfs/inode.c, the simple file system that keeps    *)
(* them (kern/fs/sfs) and the path lookup above it (kern/fs/vfs).          *)
(*                                                                         *)
(* Every system call runs with interrupts disabled, the kernel is not      *)
(* preemptive and the disk is a RAM disk that answers at once, so the      *)
(* operations of this module run one after the other and none of their     *)
(* semaphores is ever waited for.  A call composes many of them in one     *)
(* step, and each of them is therefore an operator from a state record of  *)
(* the file system to the next; Files.tla holds the record in a variable.  *)
(* Operations that can fail return [ret, s, ...] with ret = "ok" or the    *)
(* name of the error.                                                      *)
(***************************************************************************)
EXTENDS Integers, FiniteSets, FiniteSetsExt

CONSTANTS
    Dev,             \* the inodes of the character devices (stdin, stdout)
    Dir, File,       \* the inodes of the SFS volume, the directories and the others
    Root,            \* the inode at SFS_BLKN_ROOT
    DirEntry,        \* DirEntry[d][name]: what a directory holds; directories never change
    Block,           \* the disk blocks that mksfs left free
    SFS_NDIRECT, SFS_BLK_NENTRY, SFS_BLKSIZE, SFS_MAX_FILE_SIZE,
    NoNode           \* a null inode pointer

Ino == Dir \cup File
Node == Dev \cup Ino
NoBlock == 0
Pointer == Block \cup {NoBlock}
Direct == 0 .. SFS_NDIRECT - 1
Slots == 0 .. SFS_BLK_NENTRY - 1

(* The image of the Makefile has 117 blocks, fewer than an inode can map:  *)
(* the disk is full before an index is out of the range of the map.        *)
ASSUME SfsAssumption ==
    /\ Cardinality(Block) <= SFS_NDIRECT + SFS_BLK_NENTRY
    /\ Block \subseteq Nat \ {NoBlock} /\ IsFiniteSet(Block)
    /\ Root \in Dir /\ Dev \cap Ino = {} /\ Dir \cap File = {} /\ NoNode \notin Node
    /\ {SFS_NDIRECT, SFS_BLK_NENTRY, SFS_BLKSIZE, SFS_MAX_FILE_SIZE} \subseteq Nat \ {0}
    /\ \A d \in Dir : \A name \in DOMAIN DirEntry[d] : DirEntry[d][name] \in Ino

Din == [size : 0 .. SFS_MAX_FILE_SIZE, blocks : Nat,
        direct : [Direct -> Pointer], indirect : Pointer]
EmptyDin == [size |-> 0, blocks |-> 0,
             direct |-> [k \in Direct |-> NoBlock], indirect |-> NoBlock]
EmptySlots == [k \in Slots |-> NoBlock]

(* ref and open are the two counts of every inode; in_core holds the       *)
(* inodes on the volume's hash list, and reclaim, dirty and din are the    *)
(* struct sfs_inode of those.  din keeps its last value when the inode is  *)
(* killed, as freed memory does.  disk and ents are on the disk: the disk  *)
(* inodes, and the entries of the blocks that serve as indirect blocks.    *)
FsState ==
    [ref : [Node -> Nat], open : [Node -> Nat],
     in_core : SUBSET Ino, reclaim : [Ino -> Nat], dirty : SUBSET File,
     din : [File -> Din], disk : [File -> Din], ents : [Block -> [Slots -> Pointer]],
     free : SUBSET Block, unused : Nat, super_dirty : BOOLEAN,
     disk_free : SUBSET Block, disk_unused : Nat,
     panic : {"none", "inode", "file", "vop", "bmap", "truncfile", "bitmap"}]

(* assert: the first one that fails stops the kernel. *)
Checked(s, cond, site) ==
    IF cond \/ s.panic # "none" THEN s ELSE [s EXCEPT !.panic = site]

Fail(s, err) == [ret |-> err, s |-> s]

(* "if ((ret = ...) != 0) { return ret; }": what comes after a call that   *)
(* may have failed.                                                        *)
Then(r, next(_)) == IF r.ret = "ok" THEN next(r) ELSE r

-----------------------------------------------------------------------------
(* Disk blocks. *)
sfs_block_alloc(s) ==
    IF s.free = {} THEN [ret |-> "E_NO_MEM", s |-> s, ino |-> NoBlock]
    ELSE LET b == Min(s.free)   \* bitmap_alloc takes the lowest free bit
         IN [ret |-> "ok", ino |-> b,
             s |-> [Checked(s, s.unused > 0, "bitmap") EXCEPT
                       !.free = @ \ {b}, !.unused = @ - 1, !.super_dirty = TRUE,
                       !.ents[b] = EmptySlots]]

sfs_block_free(s, b) ==
    [Checked(s, b \in Block \ s.free, "bitmap") EXCEPT
        !.free = @ \cup {b}, !.unused = @ + 1, !.super_dirty = TRUE]

-----------------------------------------------------------------------------
(* The block map of an inode: direct blocks, then one indirect block. *)

(* A data block b for entry k of the indirect block e, which is new if the *)
(* inode had none and is then given back when the disk is full for b.      *)
Entered_keeps(s, e, b, i, k) ==
    IF b.ret # "ok" THEN b
    ELSE [b EXCEPT !.s.ents[e.ino][k] = b.ino,
                   !.s.din[i].indirect = e.ino,
                   !.s.dirty = IF s.din[i].indirect = NoBlock THEN @ \cup {i} ELSE @]
Entered(s, e, b, i, k) ==
    LET new == s.din[i].indirect = NoBlock
    IN  IF b.ret # "ok" THEN [b EXCEPT !.s = IF new THEN sfs_block_free(@, e.ino) ELSE @]
        ELSE [b EXCEPT !.s.ents[e.ino][k] = b.ino,
                       !.s.din[i].indirect = e.ino,
                       !.s.dirty = IF new THEN @ \cup {i} ELSE @]

NewEntry(s, i, k) ==
    LET old == s.din[i].indirect
    IN  Then(IF old # NoBlock THEN [ret |-> "ok", s |-> s, ino |-> old] ELSE sfs_block_alloc(s),
             LAMBDA e : Entered(s, e, sfs_block_alloc(e.s), i, k))

sfs_bmap_get_sub_nolock(s, i, k, create) ==
    LET ent == s.din[i].indirect
        ino == IF ent = NoBlock THEN NoBlock ELSE s.ents[ent][k]
    IN  IF ino # NoBlock \/ ~create THEN [ret |-> "ok", s |-> s, ino |-> ino]
        ELSE NewEntry(s, i, k)

sfs_bmap_get_nolock(s, i, index, create) ==
    LET ino == s.din[i].direct[index]
    IN  CASE index \in Direct /\ (ino # NoBlock \/ ~create) -> [ret |-> "ok", s |-> s, ino |-> ino]
          [] index \in Direct /\ ino = NoBlock /\ create ->
                Then(sfs_block_alloc(s), LAMBDA b :
                    [b EXCEPT !.s.din[i].direct[index] = b.ino, !.s.dirty = @ \cup {i}])
          [] index - SFS_NDIRECT \in Slots ->
                sfs_bmap_get_sub_nolock(s, i, index - SFS_NDIRECT, create)
          [] OTHER -> [ret |-> "ok", s |-> Checked(s, FALSE, "bmap"), ino |-> NoBlock]

sfs_bmap_load_nolock(s, i, index) ==
    LET create == index = s.din[i].blocks
        t == Checked(s, index <= s.din[i].blocks, "bmap")
    IN  Then(sfs_bmap_get_nolock(t, i, index, create), LAMBDA b :
            [b EXCEPT !.s = [Checked(b.s, b.ino \in Block \ b.s.free, "bmap") EXCEPT
                                !.din[i].blocks = IF create THEN @ + 1 ELSE @]])

sfs_bmap_free_nolock(s, i, index) ==
    LET ent == s.din[i].indirect
        ino == IF index \in Direct THEN s.din[i].direct[index]
               ELSE IF ent = NoBlock THEN NoBlock ELSE s.ents[ent][index - SFS_NDIRECT]
    IN  IF ino = NoBlock THEN s
        ELSE IF index \in Direct
             THEN [sfs_block_free(s, ino) EXCEPT !.din[i].direct[index] = NoBlock,
                                                 !.dirty = @ \cup {i}]
             ELSE [sfs_block_free(s, ino) EXCEPT !.ents[ent][index - SFS_NDIRECT] = NoBlock]

sfs_bmap_truncate_nolock(s, i) ==
    LET t == sfs_bmap_free_nolock(s, i, s.din[i].blocks - 1)
    IN  [t EXCEPT !.din[i].blocks = @ - 1, !.dirty = @ \cup {i}]

(* The two loops of sfs_truncfile: block after block until n of them are   *)
(* there, stopping at the first failure, and the reverse, which cannot fail.*)
Grown(s, i, n) ==
    LET nblks == s.din[i].blocks
        grow[m \in nblks .. n] ==
            IF m = nblks THEN [ret |-> "ok", s |-> s, ino |-> NoBlock]
            ELSE Then(grow[m - 1], LAMBDA g : sfs_bmap_load_nolock(g.s, i, m - 1))
    IN  grow[n]

Shrunk(s, i, n) ==
    LET nblks == s.din[i].blocks
        shrink[m \in n .. nblks] ==
            IF m = nblks THEN s ELSE sfs_bmap_truncate_nolock(shrink[m + 1], i)
    IN  shrink[n]

ROUNDUP_DIV(len) == (len + SFS_BLKSIZE - 1) \div SFS_BLKSIZE

(* The new size of the file, once its blocks are there. *)
Resized_clean(s, i, len) == [s EXCEPT !.din[i].size = len]
Resized(s, i, len) == [s EXCEPT !.din[i].size = len, !.dirty = @ \cup {i}]

sfs_truncfile(s, i, len) ==
    LET tblks == ROUNDUP_DIV(len)
        nblks == s.din[i].blocks
    IN  IF len \notin 0 .. SFS_MAX_FILE_SIZE THEN Fail(s, "E_INVAL")
        ELSE IF s.din[i].size = len
             THEN [ret |-> "ok", s |-> Checked(s, tblks = nblks, "truncfile")]
        ELSE Then(IF nblks < tblks THEN Grown(s, i, tblks)
                  ELSE [ret |-> "ok", s |-> Shrunk(s, i, tblks)],
                  LAMBDA r : [ret |-> "ok", s |-> Resized(r.s, i, len)])

(* A position past the end of the file extends the file. *)
sfs_tryseek(s, i, pos) ==
    IF pos \notin 0 .. SFS_MAX_FILE_SIZE - 1 THEN Fail(s, "E_INVAL")
    ELSE IF pos > s.din[i].size THEN sfs_truncfile(s, i, pos)
    ELSE [ret |-> "ok", s |-> s]

(* sfs_io_nolock: the transfer of the blocks is an exercise that this      *)
(* repository leaves blank (alen stays 0), the rest of a write is there.   *)
sfs_io_nolock(s, i, offset, write) ==
    IF write /\ offset > s.din[i].size
    THEN Resized(s, i, offset) ELSE s

sfs_fsync(s, i) ==
    IF i \in s.dirty THEN [s EXCEPT !.dirty = @ \ {i}, !.disk[i] = s.din[i]] ELSE s

-----------------------------------------------------------------------------
(* Inodes: the in-core cache and the two counts. *)
lookup_sfs_nolock_counts(s, i) == [s EXCEPT !.ref[i] = @ + 1, !.reclaim[i] = @ + 1]
lookup_sfs_nolock(s, i) ==
    [s EXCEPT !.ref[i] = @ + 1,
              !.reclaim[i] = IF s.ref[i] = 0 THEN @ + 1 ELSE @]

sfs_create_inode(s, i) ==
    [s EXCEPT !.in_core = @ \cup {i}, !.ref[i] = 1, !.open[i] = 0, !.reclaim[i] = 1,
              !.dirty = @ \ {i},
              !.din = IF i \in File THEN [@ EXCEPT ![i] = s.disk[i]] ELSE @]

sfs_load_inode(s, i) ==
    IF i \in s.in_core THEN lookup_sfs_nolock(s, i) ELSE sfs_create_inode(s, i)

(* sfs_reclaim.  nlinks is never zero: nothing unlinks a file. *)
sfs_reclaim(s, i) ==
    LET t == [Checked(s, s.reclaim[i] > 0, "inode") EXCEPT !.reclaim[i] = @ - 1]
    IN  IF t.reclaim[i] # 0 \/ t.ref[i] # 0 THEN t
        ELSE [Checked(sfs_fsync(t, i), t.open[i] = 0, "inode") EXCEPT !.in_core = @ \ {i}]

vop_ref_inc(s, n) == [s EXCEPT !.ref[n] = @ + 1]
vop_open_inc(s, n) == [s EXCEPT !.open[n] = @ + 1]

vop_ref_dec(s, n) ==
    LET t == [Checked(s, s.ref[n] > 0, "inode") EXCEPT !.ref[n] = @ - 1]
    IN  IF t.ref[n] # 0 THEN t
        ELSE IF n \in Ino THEN sfs_reclaim(t, n)
        ELSE Checked(t, FALSE, "vop")   \* a device inode has no vop_reclaim

(* The last close of an SFS inode writes it back (sfs_close); a device's   *)
(* does nothing.                                                           *)
vop_open_dec(s, n) ==
    LET t == [Checked(s, s.open[n] > 0, "inode") EXCEPT !.open[n] = @ - 1]
    IN  IF t.open[n] = 0 /\ n \in Ino
        THEN sfs_fsync(Checked(t, t.ref[n] >= t.open[n], "inode"), n) ELSE t

vfs_close(s, n) == vop_ref_dec(vop_open_dec(s, n), n)

-----------------------------------------------------------------------------
(* Path lookup.  A path is [start, name]: start is a device, "disk0" for   *)
(* the volume, "/" for the boot file system, ":" for the root of the       *)
(* current one, "cwd" for a relative path, or a name no device has; name   *)
(* is what is left of the path, "" for nothing.                            *)

(* get_device: the inode the lookup starts from, with a reference. *)
get_device(s, pwd, start) ==
    CASE start = "cwd" /\ pwd # NoNode -> [ret |-> "ok", s |-> vop_ref_inc(s, pwd), node |-> pwd]
      [] start = ":" /\ pwd # NoNode ->
            [ret |-> "ok", node |-> Root,
             s |-> vop_ref_dec(sfs_load_inode(vop_ref_inc(s, pwd), Root), pwd)]
      [] start \in {"cwd", ":"} /\ pwd = NoNode -> Fail(s, "E_NOENT")
      [] start \in Dev -> [ret |-> "ok", s |-> vop_ref_inc(s, start), node |-> start]
      [] start = "/" -> [ret |-> "ok", s |-> vop_ref_inc(s, Root), node |-> Root]
      [] start = "disk0" -> [ret |-> "ok", s |-> sfs_load_inode(s, Root), node |-> Root]
      [] OTHER -> Fail(s, "E_NO_DEV")

(* vop_lookup: dev_lookup knows no name, sfs_lookup searches one directory, *)
(* and a file has no such operation.                                        *)
vop_lookup(s, n, name) ==
    IF n \in Dir /\ name \in DOMAIN DirEntry[n]
    THEN [ret |-> "ok", s |-> sfs_load_inode(s, DirEntry[n][name]), node |-> DirEntry[n][name]]
    ELSE Fail(Checked(s, n \notin File, "vop"), "E_NOENT")

vfs_lookup(s, pwd, path) ==
    Then(get_device(s, pwd, path.start), LAMBDA start :
        IF path.name = "" THEN start
        ELSE [vop_lookup(start.s, start.node, path.name) EXCEPT !.s = vop_ref_dec(@, start.node)])

(* vop_open: which flags an inode takes.  stdin is read, stdout is written. *)
Accepts(n, flags) ==
    CASE n \in File -> TRUE
      [] n \in Dir -> flags.acc = "r" /\ ~flags.append
      [] n \in Dev -> /\ ~(flags.creat \/ flags.trunc \/ flags.excl \/ flags.append)
                      /\ flags.acc = IF n = "stdin" THEN "r" ELSE "w"

(* The truncation of the file just opened; if it fails, it is closed again. *)
Truncated(r, n) ==
    IF r.ret = "ok" THEN [ret |-> "ok", s |-> r.s, node |-> n]
    ELSE Fail(vfs_close(r.s, n), r.ret)

Opened(s, n, flags) ==
    LET t == vop_open_inc(s, n)
    IN  IF ~Accepts(n, flags) THEN Fail(vop_ref_dec(s, n), "E_INVAL")
        ELSE IF ~(flags.trunc \/ flags.creat) THEN [ret |-> "ok", s |-> t, node |-> n]
        ELSE IF n \notin File THEN Fail(Checked(t, FALSE, "vop"), "E_INVAL")
        ELSE Truncated(sfs_truncfile(t, n, 0), n)

(* vfs_open, with what the lookup found.  No SFS directory has a           *)
(* vop_create, so creating a file stops the kernel; the lookup of the      *)
(* parent takes a reference on the way.  An existing file opened with      *)
(* O_CREAT and O_EXCL is refused while the reference of the lookup is kept.*)
OpenFound(found, pwd, path, flags) ==
    IF found.ret = "E_NOENT" /\ flags.creat
    THEN Then(get_device(found.s, pwd, path.start),
              LAMBDA parent : Fail(Checked(parent.s, FALSE, "vop"), "E_NOENT"))
    ELSE Then(found, LAMBDA r : IF flags.creat /\ flags.excl THEN Fail(r.s, "E_EXISTS")
                                ELSE Opened(r.s, r.node, flags))

vfs_open(s, pwd, path, flags) ==
    IF flags.trunc /\ flags.acc = "r" THEN Fail(s, "E_INVAL")
    ELSE OpenFound(vfs_lookup(s, pwd, path), pwd, path, flags)

(* sfs_sync of fs_cleanup: every inode in core, then the super block and   *)
(* the free map if they have changed.                                      *)
sfs_sync_super_only(s) ==
    LET t == [s EXCEPT !.disk = [i \in File |-> IF i \in s.dirty THEN s.din[i] ELSE s.disk[i]],
                       !.dirty = {}]
    IN  [t EXCEPT !.super_dirty = FALSE, !.disk_unused = t.unused]
sfs_sync(s) ==
    LET t == [s EXCEPT !.disk = [i \in File |-> IF i \in s.dirty THEN s.din[i] ELSE s.disk[i]],
                       !.dirty = {}]
    IN  IF ~t.super_dirty THEN t
        ELSE [t EXCEPT !.super_dirty = FALSE, !.disk_free = t.free, !.disk_unused = t.unused]
=============================================================================
