---------------------------- MODULE MindMapTree ----------------------------
(***************************************************************************)
(* The operations on the tree of a mind map                                *)
(* (frontend_app/src/components/mindmap/treeOps.ts).  A map is a function  *)
(* from the ids of its nodes to records that name the node's parent; what  *)
(* else a record holds is the editor's business.  The order of siblings is *)
(* part of what an edit of a node's looks changes, and is left out here.   *)
(***************************************************************************)
EXTENDS Naturals, FiniteSets, Functions

CONSTANTS
    Ids,     \* the ids uid() hands out, the root's included
    Root,    \* "root": the id of the central node
    None

ASSUME TreeAssumption == Root \in Ids /\ None \notin Ids

(* A set of nodes with which come all that hang below them.                *)
Closed(m, T) == \A k \in DOMAIN m : m[k].parent \in T => k \in T

(* The node n and everything under it: the least closed set that has n.    *)
Subtree(m, n) ==
    {k \in DOMAIN m : \A T \in SUBSET DOMAIN m :
        n \in T /\ Closed(m, T) => k \in T}

(* isDescendant: n is above k, or is k itself.                             *)
IsDescendant(m, n, k) == n \in DOMAIN m /\ k \in Subtree(m, n)

(* Every node can be reached from the central one.                         *)
Tree(m) ==
    /\ Root \in DOMAIN m
    /\ m[Root].parent = None
    /\ \A k \in DOMAIN m \ {Root} : m[k].parent \in DOMAIN m
    /\ DOMAIN m \subseteq Subtree(m, Root)

Branches(m, ids) == UNION {Subtree(m, n) : n \in ids \cap DOMAIN m}

(* cloneTree of the branches below ids; the tops keep their parent until   *)
(* they are put somewhere.                                                 *)
Clone(m, ids) == Restrict(m, Branches(m, ids))

(* topLevelSelection: a branch takes its children along.                   *)
TopLevel(m, ids) ==
    {n \in ids \cap DOMAIN m : \A k \in (ids \cap DOMAIN m) \ {n} :
        ~IsDescendant(m, k, n)}

(* removeNodes, and removeNode for one: the root is never removed.         *)
RemoveNodes(m, ids) ==
    Restrict(m, DOMAIN m \ Branches(m, ids \ {Root}))

CanReparentAnywhere(m, n, p) ==
    n # Root /\ n # p /\ n \in DOMAIN m /\ p \in DOMAIN m

CanReparent(m, n, p) ==
    /\ n # Root /\ n # p
    /\ ~IsDescendant(m, n, p)
    /\ n \in DOMAIN m /\ p \in DOMAIN m

ReparentNode(m, n, p) == [m EXCEPT ![n].parent = p]

(* cloneSubtreeWithNewIds: id gives each node of the branch b its new id.  *)
WithNewIds(b, id) ==
    [k \in Range(id) |->
        LET old == CHOOSE n \in DOMAIN b : id[n] = k
        IN  [b[old] EXCEPT !.parent =
                IF b[old].parent \in DOMAIN b THEN id[b[old].parent]
                                              ELSE None]]

(* appendChildren, insertAfter: b's tops are put below p.                  *)
Attach(m, b, tops, p) ==
    [k \in DOMAIN m \cup DOMAIN b |->
        IF k \in tops THEN [b[k] EXCEPT !.parent = p]
        ELSE IF k \in DOMAIN b THEN b[k] ELSE m[k]]
=============================================================================
