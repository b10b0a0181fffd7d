------------------------------- MODULE DouList -------------------------------
(***************************************************************************)
(* DouList (DouList.cpp): a list linked both ways through the prev and     *)
(* next of the connections themselves, which EventLoop keeps in the order  *)
(* they were last heard from.                                              *)
(*                                                                         *)
(* UpdateNode and DelNode are atomic: only the loop's thread calls them.   *)
(* CheckNodeList calls HandleClose, and so the user, between two nodes; it *)
(* is a step for each node.                                                *)
(***************************************************************************)
EXTENDS Naturals, Sequences, FiniteSets

CONSTANTS
    Node,       \* the connections
    NULL        \* nullptr

ASSUME DouListAssumption == NULL \notin Node /\ IsFiniteSet(Node)

VARIABLES
    links,      \* [head |-> _pHead, tail |-> _pTail, prev, next |-> of each node]
    checking,   \* CheckNodeList is running
    cursor      \* its lpNextNode

listVars == <<links, checking, cursor>>

Pointer == Node \cup {NULL}

ListInit ==
    /\ links = [head |-> NULL, tail |-> NULL,
                prev |-> [n \in Node |-> NULL], next |-> [n \in Node |-> NULL]]
    /\ checking = FALSE /\ cursor = NULL

-----------------------------------------------------------------------------
(* Assignments through a pointer that may be null. *)

SetNext(l, p, n) == IF p = NULL THEN l ELSE [l EXCEPT !.next[p] = n]
SetPrev(l, p, n) == IF p = NULL THEN l ELSE [l EXCEPT !.prev[p] = n]

Cleared(l, n) == [l EXCEPT !.prev[n] = NULL, !.next[n] = NULL]

AddNode(l, n) ==
    IF l.tail = NULL
    THEN [Cleared(l, n) EXCEPT !.head = n, !.tail = n]
    ELSE [SetNext(Cleared(l, n), l.tail, n) EXCEPT !.prev[n] = l.tail, !.tail = n]

\* The prev of the new head still points to the old one.
DelHead(l, n) ==
    IF l.next[n] = NULL
    THEN [Cleared(l, n) EXCEPT !.head = NULL, !.tail = NULL]
    ELSE [Cleared(l, n) EXCEPT !.head = l.next[n]]

DelTail(l, n) == Cleared(SetNext([l EXCEPT !.tail = l.prev[n]], l.prev[n], NULL), n)

\* Also what happens to a node that is not in the list: it has no neighbours.
DelMiddle(l, n) ==
    Cleared(SetNext(SetPrev(l, l.next[n], l.prev[n]), l.prev[n], l.next[n]), n)

DelNode(l, n) ==
    CASE l.head = n                -> DelHead(l, n)
      [] l.head # n /\ l.tail = n  -> DelTail(l, n)
      [] l.head # n /\ l.tail # n  -> DelMiddle(l, n)

-----------------------------------------------------------------------------
\* Variant: the node is appended without being taken out.
UpdateNodeAdds(n) ==
    /\ ~ checking
    /\ links' = AddNode(links, n)
    /\ UNCHANGED <<checking, cursor>>

\* EventLoop::UpdateTimeTcpConn.
UpdateNode(n) ==
    /\ ~ checking
    /\ links' = AddNode(DelNode(links, n), n)
    /\ UNCHANGED <<checking, cursor>>

\* EventLoop::DestoryConn.
DelConn(n) ==
    /\ ~ checking
    /\ links' = DelNode(links, n)
    /\ UNCHANGED <<checking, cursor>>

CheckNodeList ==
    /\ ~ checking
    /\ checking' = TRUE /\ cursor' = links.head
    /\ UNCHANGED links

\* Variant: the next node is read when the node has been taken out.
CheckExpiredLate ==
    /\ checking /\ cursor # NULL
    /\ links' = DelNode(links, cursor)
    /\ cursor' = links'.next[cursor]
    /\ UNCHANGED checking

\* _filterFunc finds the node expired: DelNode returns the node behind it.
CheckExpired ==
    /\ checking /\ cursor # NULL
    /\ links' = DelNode(links, cursor)
    /\ cursor' = links.next[cursor]
    /\ UNCHANGED checking

\* The node has not expired, or there is none.
CheckEnds ==
    /\ checking
    /\ checking' = FALSE /\ cursor' = NULL
    /\ UNCHANGED links

ListNext ==
    \/ \E n \in Node : UpdateNode(n) \/ DelConn(n)
    \/ CheckNodeList \/ CheckExpired \/ CheckEnds

ListSpec == ListInit /\ [][ListNext]_listVars

-----------------------------------------------------------------------------
\* The nodes met by following link from a node, at most as many as there are.
Chain(first, link) ==
    LET chain[i \in 0 .. Cardinality(Node)] ==
            IF i = 0 THEN <<>>
            ELSE LET seen == chain[i - 1]
                     here == IF i = 1 THEN first ELSE link[seen[i - 1]]
                 IN  IF Len(seen) < i - 1 \/ here = NULL THEN seen ELSE Append(seen, here)
    IN  chain[Cardinality(Node)]

\* From the head to the tail.
Forward == Chain(links.head, links.next)

\* The pointers make up the list an event loop expects, whatever the place of
\* the node that is moved, taken out, or not in the list at all
\* (DouList::AddNode, DelNode, CheckNodeList).
List == INSTANCE IdleList WITH list <- Forward
ImplementsIdleList == List!Spec

\* CheckNodeList looks at the least recent connection left, until there is none
\* or it has not expired: none is passed over (DouList::CheckNodeList).
CursorAtHead == checking => cursor = links.head
=============================================================================
