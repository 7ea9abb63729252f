----------------------------- MODULE AttrStore -----------------------------
(***************************************************************************)
(* What an inode promises: attributes, and extended attributes with a name *)
(* and a value each.  A call changes what it names and nothing else, in    *)
(* one step, and a call that looks finds what the changes left.            *)
(***************************************************************************)
EXTENDS Integers

CONSTANTS
  Callers, Names, Values,
  Initial,          \* the attributes of a new file
  Missing           \* what the value of an unset extended attribute is

VARIABLES
  attr,             \* st_mode, st_uid, st_gid, st_nlink, st_size, st_blocks
  xattr,            \* name -> value, for the extended attributes that are set
  answer            \* per caller: the last call that returned, and what it found

vars == <<attr, xattr, answer>>

Init ==
  /\ attr = Initial
  /\ xattr = [n \in {} |-> Missing]
  /\ answer = [c \in Callers |-> [op |-> "none"]]

(***************************************************************************)
(* The calls that change the inode.  chown leaves the owner or the group   *)
(* as it is when it is -1, and has one of them; end is where a write ends. *)
(***************************************************************************)
Calls ==
       [op : {"chmod"}, mode : {0, 1}]
  \cup {x \in [op : {"chown"}, uid : {-1, 1}, gid : {-1, 1}] : x.uid # -1 \/ x.gid # -1}
  \cup [op : {"write"}, blocks : {1, 2}, end : {1, 2}]
  \cup [op : {"link", "unlink"}]
  \cup [op : {"setxattr"}, name : Names, value : Values]
  \cup [op : {"removexattr"}, name : Names]

chmod(x) == attr' = [attr EXCEPT !.st_mode = x.mode]

chown(x) ==
  attr' = [attr EXCEPT !.st_uid = IF x.uid = -1 THEN @ ELSE x.uid,
                       !.st_gid = IF x.gid = -1 THEN @ ELSE x.gid]

\* A file never gets shorter.
write(x) ==
  attr' = [attr EXCEPT !.st_blocks = x.blocks,
                       !.st_size = IF x.end > @ THEN x.end ELSE @]

count(more) == attr' = [attr EXCEPT !.st_nlink = @ + more]

setxattr(x) ==
  xattr' = [m \in DOMAIN xattr \cup {x.name} |-> IF m = x.name THEN x.value ELSE xattr[m]]

removexattr(x) == xattr' = [m \in DOMAIN xattr \ {x.name} |-> xattr[m]]

\* A call returns when it has had its effect, and the whole of it.
Change(c) ==
  \E x \in Calls :
    /\ \/ x.op = "chmod" /\ chmod(x) /\ UNCHANGED xattr
       \/ x.op = "chown" /\ chown(x) /\ UNCHANGED xattr
       \/ x.op = "write" /\ write(x) /\ UNCHANGED xattr
       \/ x.op = "link" /\ count(1) /\ UNCHANGED xattr
       \/ x.op = "unlink" /\ count(-1) /\ UNCHANGED xattr
       \/ x.op = "setxattr" /\ setxattr(x) /\ UNCHANGED attr
       \/ x.op = "removexattr" /\ removexattr(x) /\ UNCHANGED attr
    /\ answer' = [answer EXCEPT ![c] = x]

\* The answer says what was looked for.
Look(c) ==
  /\ \/ answer' = [answer EXCEPT ![c] = [op |-> "getattr", found |-> attr]]
     \/ answer' = [answer EXCEPT ![c] = [op |-> "listxattr", found |-> DOMAIN xattr]]
     \/ \E n \in Names :
          answer' = [answer EXCEPT ![c] =
            [op |-> "getxattr", name |-> n,
             found |-> IF n \in DOMAIN xattr THEN xattr[n] ELSE Missing]]
  /\ UNCHANGED <<attr, xattr>>

Next == \E c \in Callers : Change(c) \/ Look(c)

Spec == Init /\ [][Next]_vars
=============================================================================
