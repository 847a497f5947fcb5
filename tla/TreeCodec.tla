------------------------------ MODULE TreeCodec ------------------------------
(***************************************************************************)
(* The trees of sockets/node.h and shared_mem/node.h (and, for buildTree,  *)
(* simple_mp/main.c): building a balanced tree of a given size, writing it *)
(* as a string of one character per node and per missing child, and        *)
(* reading such a string.  Keys are all the same, as in the programs.  The *)
(* recursion of each is that of a function: over sizes, over the trees     *)
(* that are built, over the places of the string.                          *)
(***************************************************************************)
EXTENDS Integers, Sequences

NULL == <<>>
NO_NODE == "~"
newNode(key, left, right) == [key |-> key, left |-> left, right |-> right]

\* Mutated form: the odd node goes to neither side
BuiltShort(size, key) ==
  LET build[n \in 0..size] ==
        IF n = 0 THEN NULL
        ELSE LET halfSize == (n - 1) \div 2 IN newNode(key, build[halfSize], build[halfSize])
  IN build

\* buildTree's results for all sizes up to one
Built(size, key) ==
  LET build[n \in 0..size] ==
        IF n = 0 THEN NULL
        ELSE LET halfSize == (n - 1) \div 2
             IN newNode(key, build[n - 1 - halfSize], build[halfSize])
  IN build

BuildTree(size, key) == Built(size, key)[size]

\* a tree of a set that has all its subtrees
Serialize(root, trees) ==
  LET string[t \in trees] ==
        IF t = NULL THEN <<NO_NODE>> ELSE <<t.key>> \o string[t.left] \o string[t.right]
  IN string[root]

\* The place after the tree that starts at place at of list, and how many
\* nodes were allocated for it.  They are not joined to a tree: root is a
\* parameter, and what is stored in it is gone at the return.  Without a
\* bound it reads on behind the list: Len(list) + 2 is any place there.
Deserialize(list, at) ==
  LET read[p \in 1..Len(list)+2] ==
        IF p > Len(list) THEN [next |-> Len(list) + 2, nodes |-> 0]
        ELSE IF list[p] = NO_NODE THEN [next |-> p + 1, nodes |-> 0]
        ELSE LET left  == read[p + 1]
                 right == read[left.next]
             IN [next |-> right.next, nodes |-> 1 + left.nodes + right.nodes]
  IN read[at]
=============================================================================
