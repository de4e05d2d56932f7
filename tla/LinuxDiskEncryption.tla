-------------------------- MODULE LinuxDiskEncryption --------------------------
(***************************************************************************)
(* The native disk-encryption check on Linux: what the summary row says of *)
(* the storage under "/" and under the home directory, from the tree that  *)
(* lsblk prints and from the mount table.                                  *)
(*                                                                         *)
(* A path is the sequence of its names, so that "/" is <<>>.  lsblk prints *)
(* a device once under each of its parents: the tree is the sequence of    *)
(* what it prints, and the parent of a line is a line above it, or 0.  A   *)
(* mount is one of a block device of the tree, or one of `others`.         *)
(***************************************************************************)
EXTENDS Integers, Sequences, SequencesExt

Root == <<>>

\* What a host has: the tree; the mounts that are of no block device; the home
\* directory, as an option; and whether its files are encrypted one by one, by
\* fscrypt, in a file system of a device.  A path has one mount: mounts that hide
\* others are left out.
IsStorage(storage) ==
    /\ storage.tree \in Seq(Range(storage.tree))
    /\ \A n \in DOMAIN storage.tree :
          LET node == storage.tree[n] IN
          /\ node.parent \in 0..(n - 1)
          /\ node.kind \in {"disk", "part", "crypt", "lvm"}
          /\ node.fstype \in {"crypto_LUKS", "other"}
    /\ \A m \in storage.others :
          /\ m.fstype \in {"zfs", "ecryptfs", "nfs"}
          /\ \A k \in storage.others : k.path = m.path => k = m
          /\ \A n \in DOMAIN storage.tree : m.path \notin storage.tree[n].mounts
    /\ storage.fscrypt \in BOOLEAN

-----------------------------------------------------------------------------
(* What the check reads: `failed` are its sources that gave nothing.       *)

Devices(storage, failed) == IF "lsblk" \in failed THEN <<>> ELSE storage.tree

\* A device is on dm-crypt when it or a line above it, up to the disk, is.
OnCrypt(devs) ==
    LET on[n \in DOMAIN devs] ==
            \/ devs[n].kind = "crypt"
            \/ devs[n].parent # 0 /\ on[devs[n].parent]
    IN  on

DeviceMounts(devs) == UNION {devs[n].mounts : n \in DOMAIN devs}

ProcMounts(storage) ==
    storage.others \cup
        {[path |-> p, fstype |-> "plain"] : p \in DeviceMounts(storage.tree)}

Mounts(storage, failed) ==
    IF "mounts" \in failed THEN {} ELSE ProcMounts(storage)

\* The longest of the mount points that lead to the path; the path if none does.
MountOf(points, path) ==
    LET prefixes == {p \in points : IsPrefix(p, path)} IN
    IF prefixes = {} THEN path
    ELSE CHOOSE p \in prefixes : \A q \in prefixes : Len(q) <= Len(p)

\* The first line of the tree that is mounted at the target decides for it.
Determine(devs, mounts, target) ==
    LET fstypes == {m.fstype : m \in {n \in mounts : n.path = target}}
        lines   == {n \in DOMAIN devs : target \in devs[n].mounts}
        first   == CHOOSE n \in lines : \A k \in lines : n <= k
    IN  IF "ecryptfs" \in fstypes THEN "yes"
        ELSE IF "zfs" \in fstypes \/ lines = {} THEN "unknown"
        ELSE IF OnCrypt(devs)[first] THEN "yes" ELSE "no"

\* What encrypts anything on this host, as far as can be seen.
Mechanisms(devs, mounts) ==
    {IF devs[n].parent # 0 /\ devs[devs[n].parent].fstype = "crypto_LUKS"
     THEN "luks" ELSE "dm-crypt" : n \in {k \in DOMAIN devs : devs[k].kind = "crypt"}}
    \cup ({m.fstype : m \in mounts} \cap {"ecryptfs"})

Summary(storage, failed) ==
    LET devs   == Devices(storage, failed)
        mounts == Mounts(storage, failed)
        points == {m.path : m \in mounts} \cup DeviceMounts(devs)
    IN  [root |-> Determine(devs, mounts, Root),
         home |-> IF storage.home = {} THEN "unknown"
                  ELSE Determine(devs, mounts, MountOf(points, CHOOSE h \in storage.home : TRUE)),
         mechanisms |-> Mechanisms(devs, mounts)]

-----------------------------------------------------------------------------
(* What is so of the host.                                                 *)

\* The lines of the tree that are the device mounted at the path.
LinesOf(storage, path) ==
    {n \in DOMAIN storage.tree :
        \E k \in DOMAIN storage.tree :
            /\ path \in storage.tree[k].mounts
            /\ storage.tree[k].name = storage.tree[n].name}

\* Whether what is stored at the mount point is encrypted below its file system:
\* by the mount itself, or on every disk that the device is made of.  Nobody can
\* tell of a ZFS dataset, and a file server is another host.
Encrypted(storage, path) ==
    LET fstypes == {m.fstype : m \in {n \in storage.others : n.path = path}} IN
    IF fstypes = {}
    THEN \A n \in LinesOf(storage, path) : OnCrypt(storage.tree)[n]
    ELSE fstypes = {"ecryptfs"}

\* A device made of several, of which only some are encrypted: the check looks
\* at one of them.
Mixed(storage, path) ==
    \E n, k \in LinesOf(storage, path) :
        OnCrypt(storage.tree)[n] /\ ~OnCrypt(storage.tree)[k]

HomeMount(storage) ==
    MountOf({m.path : m \in ProcMounts(storage)}, CHOOSE h \in storage.home : TRUE)

=============================================================================
