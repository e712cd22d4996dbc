------------------------------- MODULE MCRib -------------------------------
(* Small instances of Rib: three names on a path and one beside it. *)
EXTENDS Rib

CONSTANTS root, a, ab, f1, f2, o1, o2

MCPrefixes == [n \in Name |-> IF n = root THEN {} ELSE IF n = ab THEN {root, a} \cap Name ELSE {root}]

R(n, fc, og, c, ci, cap, ex) ==
  [name |-> n, route |-> [face |-> fc, origin |-> og, cost |-> c,
                          inherit |-> ci, capture |-> cap, expires |-> ex]]

\* Routes of one origin without capture, inheritable or not.
Plain == {R(n, fc, o1, c, ci, FALSE, FALSE) : n \in Name, fc \in Face, c \in Cost, ci \in BOOLEAN}
Inheritable == {q \in Plain : q.route.inherit}

\* A face only at the longest name: a batch has one command for it.  The routes of
\* the middle name expire, the others last.
LeafOnG == {R(n, fc, o1, c, TRUE, FALSE, n = a) : n \in Name \ {ab}, fc \in {f1}, c \in Cost}
           \cup {R(ab, fc, o1, c, TRUE, FALSE, FALSE) : fc \in Face, c \in Cost}

\* Captures at the middle name.
CaptureAtA == {R(n, IF n = root THEN f1 ELSE f2, o1, 1, TRUE, n = a, FALSE) : n \in Name}
CaptureOrNot == {R(a, f1, o1, 1, TRUE, cap, FALSE) : cap \in BOOLEAN}

\* Two origins announce the same nexthop.
TwoOrigins == {R(a, f1, og, c, ci, FALSE, FALSE) : og \in Origin, c \in Cost, ci \in BOOLEAN}

\* A route that expires is registered again without expiration.
Renewed == {R(a, f1, o1, 1, TRUE, FALSE, ex) : ex \in BOOLEAN} \cup {R(root, f2, o1, 1, TRUE, FALSE, FALSE)}

\* Some of everything.
Mixed == {R(a, f1, o1, c, FALSE, FALSE, FALSE) : c \in {1, 3}}
         \cup {R(a, f1, o2, 2, fl, fl, TRUE) : fl \in BOOLEAN}
         \cup {R(root, f2, o1, 1, TRUE, FALSE, FALSE)}
=============================================================================
