-------------------------------- MODULE Names --------------------------------
(***************************************************************************)
(* The name space: the dentry hash table, path lookup and the calls that   *)
(* add to it.  Nothing is ever removed and nothing is on a disk, so a name *)
(* that the table does not hold does not exist.                            *)
(* A name is a sequence of character codes, a path a sequence of names     *)
(* that may end in a slash.                                                *)
(***************************************************************************)
EXTENDS Integers, Sequences, SequencesExt, FiniteSets, Bitwise

CONSTANTS
  BUCKETS,      \* 32: the hash is shifted by 5 and taken modulo 1024
  Addrs,        \* where kmalloc may put a dentry, modulo BUCKETS
  BootAddrs,    \* where the boot puts the root, dev, the files and tty, in turn
  DOT,          \* the code of "."
  Dev, Tty,     \* the names dev and tty
  RamFiles,     \* the names of the files in the ram disk, in order
  NewNames,     \* the names that programs create
  MaxDentries   \* bound

Dot == <<DOT>>
DotDot == <<DOT, DOT>>
AllNames == {Dev, Tty, Dot, DotDot} \cup Range(RamFiles) \cup NewNames

ASSUME NamesAssumption ==
  /\ \E bits \in 0 .. BUCKETS : BUCKETS = 2^bits
  /\ Addrs \subseteq 0 .. BUCKETS - 1 /\ MaxDentries \in Nat
  /\ BootAddrs \in [1 .. Len(RamFiles) + 3 -> Addrs]
  /\ \A n \in AllNames : n \in Seq(Nat \ {0}) /\ n # << >>
  /\ {Dot, DotDot} \cap ({Dev, Tty} \cup Range(RamFiles) \cup NewNames) = {}

VARIABLES
  dentry,           \* every dentry: [d_name, d_parent, i_mode, i_op, addr]; 1 is the root
  dentry_hashtable, \* [0 .. BUCKETS - 1 -> Seq]: hash lists, newest first
  panic             \* how the kernel stopped, if it did

vars == <<dentry, dentry_hashtable, panic>>

NULL == 0
ROOT == 1

(* _hash multiplies by 33, which is 1 modulo 32, so the list of a name is  *)
(* the sum of its characters and the parent's address, combined bit by     *)
(* bit.  kmalloc puts dentries 100 bytes apart: addresses are multiples of *)
(* 4, and a directory changes the upper bits of the list only.             *)
hash(t, parent, name) ==
  (t.dentry[parent].addr ^^ FoldLeft(LAMBDA h, c : h + c, 0, name)) % BUCKETS

(* strncmp over the length of the name looked for; d_parent is not read.   *)
dentry_lookup(t, parent, name) ==
  LET hits == SelectSeq(t.table[hash(t, parent, name)],
                        LAMBDA d : IsPrefix(name, t.dentry[d].d_name))
  IN  IF hits = << >> THEN NULL ELSE Head(hits)

dentry_insert(t, parent, d) ==
  [t EXCEPT !.table[hash(t, parent, t.dentry[d].d_name)] = <<d>> \o @]

d_alloc(parent, name, inode, addr) ==
  [d_name |-> name, d_parent |-> parent, i_mode |-> inode.i_mode, i_op |-> inode.i_op,
   addr |-> addr]

(* The operations of an inode follow from its mode.                        *)
simple_get_inode(mode) ==
  [i_mode |-> mode, i_op |-> IF mode = "dir" THEN "simple_dir" ELSE "simple_file"]

ramfs_get_inode(mode) ==
  [i_mode |-> mode, i_op |-> IF mode = "dir" THEN "ramfs_dir" ELSE "simple_file"]

create_node(t, parent, name, inode, addr) ==
  dentry_insert([t EXCEPT !.dentry = Append(@, d_alloc(parent, name, inode, addr))],
                parent, Len(t.dentry) + 1)

-----------------------------------------------------------------------------
(* filesystem_init: the file systems register in turn, always in the same  *)
(* order, so their dentries are always at the same addresses.              *)

d_alloc_root ==
  [ dentry |-> <<d_alloc(ROOT, <<DOT + 1>>, simple_get_inode("dir"), BootAddrs[1])>>,
    table  |-> [h \in 0 .. BUCKETS - 1 |-> << >>] ]

boot_node(t, parent, name, inode) ==
  create_node(t, parent, name, inode, BootAddrs[Len(t.dentry) + 1])

rootfs_init == boot_node(d_alloc_root, ROOT, Dev, simple_get_inode("dir"))

(* Regular files with the inode operations of a directory.                 *)
ramfs_init(t) ==
  FoldLeft(LAMBDA u, name : boot_node(u, ROOT, name, [i_mode |-> "reg", i_op |-> "ramfs_dir"]),
           t, RamFiles)

ttyfs_init(t) ==
  boot_node(t, dentry_lookup(t, ROOT, Dev), Tty, [i_mode |-> "chr", i_op |-> "ttyfs"])

Init ==
  LET t == ttyfs_init(ramfs_init(rootfs_init))
  IN  /\ dentry = t.dentry
      /\ dentry_hashtable = t.table
      /\ panic = "none"

-----------------------------------------------------------------------------
Table == [dentry |-> dentry, table |-> dentry_hashtable]

(* The part of link_path_lookup before the last name: "." stays, ".." goes *)
(* up, another name is looked up.  res is what the function would return.  *)
Walk(nd, name) ==
  IF nd.failed \/ name = Dot THEN nd
  ELSE IF name = DotDot THEN [nd EXCEPT !.dentry = dentry[@].d_parent]
  ELSE LET d == dentry_lookup(Table, nd.dentry, name)
       IN  IF d = NULL THEN [nd EXCEPT !.failed = TRUE, !.res = "ENOENT"]
           ELSE [nd EXCEPT !.dentry = d, !.res = "ok"]

(* A path without a name fails, and so does a last "." or ".." with no     *)
(* name before it and no slash behind it, by the initial value of res.     *)
link_path_lookup(path, parent) ==
  LET start == [dentry |-> ROOT, res |-> "ENOENT", failed |-> FALSE]
      nd    == FoldLeft(Walk, start, Front(path.names))
      here  == [nd EXCEPT !.res = IF path.slash THEN "ok" ELSE @]
  IN  IF path.names = << >> THEN start
      ELSE IF nd.failed THEN nd
      ELSE IF parent THEN [nd EXCEPT !.res = "ok"]
      ELSE Walk(here, Last(path.names))

(* Tasks never leave the root directory: pwd and root are the same dentry. *)
path_lookup(path, parent) == link_path_lookup(path, parent)

(* mkdir compares the name the walk ended at with the last of the path.    *)
get_last(path) == Last(path.names)

(* What the directory's i_op makes of the new inode.                       *)
i_op_mknod(op, mode) ==
  IF op = "simple_dir" THEN simple_get_inode(mode) ELSE ramfs_get_inode(mode)

(* Mutant: the name is not looked up first.                                *)
mknod_unchecked(path, mode) ==
  LET nd   == path_lookup(path, TRUE)
      name == get_last(path)
      op   == dentry[nd.dentry].i_op
      t(a) == create_node(Table, nd.dentry, name, i_op_mknod(op, mode), a)
  IN  /\ nd.res = "ok"
      /\ \/ /\ op \in {"simple_dir", "ramfs_dir"}
            /\ \E a \in Addrs : dentry' = t(a).dentry /\ dentry_hashtable' = t(a).table
            /\ UNCHANGED panic
         \/ /\ op = "simple_file"
            /\ panic' = "not a directory" /\ UNCHANGED <<dentry, dentry_hashtable>>
         \/ /\ op = "ttyfs"
            /\ panic' = "null call" /\ UNCHANGED <<dentry, dentry_hashtable>>

(* create and mkdir.  Nobody asks whether the parent is a directory: a     *)
(* created file panics, the terminal has no such operation, a file of the  *)
(* ram disk obeys.  When memory runs out the table stays as it is.         *)
mknod(path, mode) ==
  LET nd   == path_lookup(path, TRUE)
      name == get_last(path)
      op   == dentry[nd.dentry].i_op
      t(a) == create_node(Table, nd.dentry, name, i_op_mknod(op, mode), a)
  IN  /\ nd.res = "ok"
      /\ dentry_lookup(Table, nd.dentry, name) = NULL
      /\ \/ /\ op \in {"simple_dir", "ramfs_dir"}
            /\ \E a \in Addrs : dentry' = t(a).dentry /\ dentry_hashtable' = t(a).table
            /\ UNCHANGED panic
         \/ /\ op = "simple_file"
            /\ panic' = "not a directory" /\ UNCHANGED <<dentry, dentry_hashtable>>
         \/ /\ op = "ttyfs"
            /\ panic' = "null call" /\ UNCHANGED <<dentry, dentry_hashtable>>

Paths(k) ==
  [ names : UNION {[1 .. n -> AllNames] : n \in 0 .. k}, slash : BOOLEAN ]

CanGrow == panic = "none" /\ Len(dentry) < MaxDentries

create == CanGrow /\ \E path \in Paths(2) : path.names # << >> /\ mknod(path, "reg")
mkdir == CanGrow /\ \E path \in Paths(2) : path.names # << >> /\ mknod(path, "dir")

Next == create \/ mkdir

Spec == Init /\ [][Next]_vars

-----------------------------------------------------------------------------
Special(d) == dentry[d].d_name \in {Dot, DotDot}
Entries == 2 .. Len(dentry)

(* The names from the root to a dentry.                                    *)
PathOf(d) ==
  LET names[k \in DOMAIN dentry] ==
        IF k = ROOT THEN << >> ELSE Append(names[dentry[k].d_parent], dentry[k].d_name)
  IN  [names |-> names[d], slash |-> FALSE]

List(d) == hash(Table, dentry[d].d_parent, dentry[d].d_name)

(* The comparison stops at the length of the name looked for, so a newer   *)
(* and longer name of the same list that begins with it is found instead.  *)
Hidden(d) ==
  \E e \in d + 1 .. Len(dentry) :
    List(e) = List(d) /\ IsStrictPrefix(dentry[d].d_name, dentry[e].d_name)

(* A dentry and the directories above it, without the root.                *)
Chain(d) ==
  LET up[k \in DOMAIN dentry] == IF k = ROOT THEN {} ELSE {k} \cup up[dentry[k].d_parent]
  IN  up[d]

(* Whatever create and mkdir have added since, in the same or in another   *)
(* directory of the same lists, every file and directory is found under    *)
(* its own path by path_lookup, unless it or a directory above it is       *)
(* hidden by a newer name that begins with its own: after a file shpp in   *)
(* the root, /sh leads to shpp, because 'p' + 'p' is a multiple of 32.     *)
(* Entries named "." or ".." are excepted: a path does not look them up.   *)
EveryFileFound ==
  \A d \in Entries :
    ~Special(d) /\ (\A k \in Chain(d) : ~Hidden(k)) =>
      LET nd == path_lookup(PathOf(d), FALSE)
      IN  nd.res = "ok" /\ nd.dentry = d

=============================================================================
