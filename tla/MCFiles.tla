------------------------------ MODULE MCFiles ------------------------------
EXTENDS Files, TLC

CONSTANTS p1, p2, t1, t2, root, sub, f, g

MCProc == {p1, p2}
MCTable == {t1, t2}
MCDev == {"stdin", "stdout"}
MCDir == {root, sub}
MCFile == {f, g}
MCBlock == 1 .. 3
MCDirEntry == (root :> (f :> f @@ g :> g @@ "sub" :> sub @@ ".." :> root))
              @@ (sub :> (".." :> root))   \* a file's name is the file

Flag(acc, set) == [acc |-> acc, creat |-> "creat" \in set, excl |-> "excl" \in set,
                   trunc |-> "trunc" \in set, append |-> "append" \in set]
At(start, name) == [start |-> start, name |-> name]

MCPath == {At("stdin", ""), At("cwd", "sub"), At("cwd", f), At("cwd", g)}
MCDirectory == {At("cwd", "sub"), At(":", "")}
MCProgram == {At("cwd", "sub"), At("cwd", f), At("cwd", g), At("cwd", "nofile")}
MCFlags == {Flag("r", {}), Flag("rw", {}), Flag("r", {"creat", "excl"}),
            Flag("rw", {"trunc"}), Flag("r", {"trunc"})}
MCPosition == {1, 3}
MCClone == {TRUE, FALSE}
MCSymmetry == Permutations(MCProc) \cup Permutations(MCTable) \cup Permutations(MCFile)

(* The volume is as mksfs left it and no file is in memory. *)
VolumeUntouched ==
    /\ fs.free = Block /\ fs.disk_free = Block /\ ~fs.super_dirty
    /\ fs.ents = [b \in Block |-> EmptySlots] /\ fs.din = [i \in File |-> EmptyDin]
    /\ fs.in_core \cap File = {}

(* One process, in the root directory, with nothing but one file open, on  *)
(* one descriptor or on two.                                               *)
OneFile ==
    /\ Cardinality({p \in Proc : filesp[p] # NoTable}) <= 1
    /\ \A t \in Table :
        /\ orphaned[t] = 0 /\ tab[t].pwd \in {Root, NoNode} /\ tab[t].fd_array[2] = Unused
        /\ \E i \in File \cup {NoNode} : \A d \in Fd : tab[t].fd_array[d].node \in {i, NoNode}
    /\ \A n \in Node : lost[n] = 0

(* The states whose successors are explored: two processes with their      *)
(* tables and descriptors over an untouched volume, and one process that   *)
(* fills the disk, file after file.                                        *)
TablesOrVolume == VolumeUntouched \/ OneFile
=============================================================================
