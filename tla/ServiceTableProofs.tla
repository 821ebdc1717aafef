------------------------- MODULE ServiceTableProofs -------------------------
(***************************************************************************)
(* Theorems about the service table, for every length of serviceIDs, every *)
(* set of rules, sockets and devices: trie, counters and target sets stay  *)
(* consistent, and the walk down the trie finds the longest prefix.        *)
(*                                                                         *)
(* Tables are handled as records, as in the model: one lemma for each      *)
(* operation shows that it keeps a table well-formed (TableOK), one for    *)
(* each action lifts this to the state.                                    *)
(***************************************************************************)
EXTENDS ServiceTableSets

\* The nodes tr are those of a trie: with a node its prefixes.
Closed(tr) == \A p \in tr : \A q \in Nodes : IsPrefix(q, p) => q \in tr

\* Below the root, a node that is not in act has children.
NoDeadBranch(tr, act) ==
    \A p \in tr : p # << >> /\ p \notin act => HasChildren(tr, p)

\* The trie and the counters fit the entries.
TrieOK(tr, act, sv, es) ==
    /\ tr \subseteq Nodes
    /\ act \subseteq tr
    /\ Closed(tr)
    /\ NoDeadBranch(tr, act)
    /\ IsFiniteSet(act)
    /\ sv = Cardinality(act)
    /\ es = sv

TableOK(tb) ==
    /\ tb = [tree |-> tb.tree, entry |-> tb.entry, services |-> tb.services,
             entries |-> tb.entries]
    /\ TrieOK(tb.tree, DOMAIN tb.entry, tb.services, tb.entries)
    /\ \A p \in DOMAIN tb.entry : SetsOK(tb.entry[p])

SockTypes ==
    [state : {"INIT", "REQUEST", "CONNECTED", "RELEASED"}, bound : BOOLEAN,
     key : Nodes \cup {NoNode}, hashed : BOOLEAN]

\* The inductive invariant.
IInv == TableOK(Table) /\ sock \in [Socks -> SockTypes] /\ dead \in BOOLEAN

-----------------------------------------------------------------------------
(* Prefixes *)

\* A node is a sequence of at most Bits bits.
LEMMA NodeIs ==
  ASSUME NEW p
  PROVE  p \in Nodes <=> p \in Seq({0, 1}) /\ Len(p) <= Bits
  <1>1. Bits \in Nat
    BY ServiceTableAssumption, Zenon
  <1>2. ASSUME p \in Nodes PROVE p \in Seq({0, 1}) /\ Len(p) <= Bits
    <2>1. PICK n \in 0..Bits : p \in [1..n -> {0, 1}]
      BY <1>2, Zenon DEF Nodes
    <2>2. p \in Seq({0, 1}) /\ Len(p) = n
      BY <1>1, <2>1
    <2> QED
      BY <1>1, <2>2
  <1>3. ASSUME p \in Seq({0, 1}), Len(p) <= Bits PROVE p \in Nodes
    <2>1. Len(p) \in 0..Bits /\ p \in [1..Len(p) -> {0, 1}]
      BY <1>1, <1>3
    <2> QED
      BY <2>1, Zenon DEF Nodes
  <1> QED
    BY <1>2, <1>3, Zenon

\* A prefix agrees with the longer sequence bit by bit.
LEMMA PrefixIs ==
  ASSUME NEW p \in Nodes, NEW q \in Nodes
  PROVE  IsPrefix(p, q) <=> Len(p) <= Len(q) /\ \A i \in 1..Len(p) : p[i] = q[i]
  <1>1. p \in Seq({0, 1}) /\ q \in Seq({0, 1}) /\ Len(p) \in Nat /\ Len(q) \in Nat
    BY NodeIs
  <1>2. ASSUME Len(p) <= Len(q)
        PROVE  /\ SubSeq(p, 1, Len(p)) = p
               /\ SubSeq(q, 1, Len(p)) \in Seq({0, 1})
               /\ Len(SubSeq(q, 1, Len(p))) = Len(p)
               /\ \A i \in 1..Len(p) : SubSeq(q, 1, Len(p))[i] = q[i]
    BY <1>1, <1>2
  <1>3. ASSUME Len(p) <= Len(q), \A i \in 1..Len(p) : p[i] = q[i]
        PROVE  p = SubSeq(q, 1, Len(p))
    <2> DEFINE r == SubSeq(q, 1, Len(p))
    <2>1. r \in Seq({0, 1}) /\ Len(r) = Len(p) /\ \A i \in 1..Len(p) : r[i] = p[i]
      BY <1>2, <1>3, Zenon
    <2> HIDE DEF r
    <2>2. p = r
      BY <1>1, <2>1, SeqEqual, Zenon
    <2> QED
      BY <2>2, Zenon DEF r
  <1> QED
    BY <1>1, <1>2, <1>3, Zenon DEF IsPrefix

\* What the trie needs to know of prefixes: an order with the root below all.
LEMMA PrefixOrder ==
  /\ << >> \in Nodes
  /\ \A p \in Nodes : IsPrefix(p, p) /\ IsPrefix(<< >>, p) /\ Len(p) \in 0..Bits
  /\ \A p, q \in Nodes : IsPrefix(p, q) /\ Len(q) <= Len(p) => p = q
  /\ \A p, q \in Nodes : IsPrefix(p, q) => Len(p) <= Len(q)
  /\ \A p, q, r \in Nodes : IsPrefix(p, q) /\ IsPrefix(q, r) => IsPrefix(p, r)
  <1>1. Bits \in Nat
    BY ServiceTableAssumption, Zenon
  <1>2. << >> \in Nodes
    <2>1. << >> \in Seq({0, 1}) /\ Len(<< >>) = 0
      OBVIOUS
    <2>2. Len(<< >>) <= Bits
      BY <1>1, <2>1
    <2> QED
      BY <2>1, <2>2, NodeIs, Zenon
  <1>3. ASSUME NEW p \in Nodes PROVE IsPrefix(p, p) /\ IsPrefix(<< >>, p) /\ Len(p) \in 0..Bits
    <2>1. Len(p) \in Nat /\ Len(p) <= Bits
      BY NodeIs
    <2>2. Len(<< >>) = 0
      OBVIOUS
    <2> QED
      BY <1>1, <1>2, <2>1, <2>2, PrefixIs
  <1>4. ASSUME NEW p \in Nodes, NEW q \in Nodes, IsPrefix(p, q), Len(q) <= Len(p)
        PROVE  p = q
    <2>1. p \in Seq({0, 1}) /\ q \in Seq({0, 1})
      BY NodeIs, Zenon
    <2>2. Len(p) = Len(q) /\ \A i \in 1..Len(p) : p[i] = q[i]
      BY <1>4, <2>1, PrefixIs
    <2> QED
      BY <2>1, <2>2, SeqEqual, Zenon
  <1>5. ASSUME NEW p \in Nodes, NEW q \in Nodes, IsPrefix(p, q)
        PROVE  Len(p) <= Len(q)
    BY <1>5, PrefixIs, Zenon
  <1>6. ASSUME NEW p \in Nodes, NEW q \in Nodes, NEW r \in Nodes, IsPrefix(p, q), IsPrefix(q, r)
        PROVE  IsPrefix(p, r)
    <2>1. Len(p) \in Nat /\ Len(q) \in Nat /\ Len(r) \in Nat
      BY NodeIs
    <2> QED
      BY <1>6, <2>1, PrefixIs
  <1> QED
    BY <1>2, <1>3, <1>4, <1>5, <1>6, Zenon

\* Prefixes(p) of the community module are the nodes that are prefixes of p.
LEMMA PrefixesAre ==
  ASSUME NEW p \in Nodes
  PROVE  \A q : q \in Prefixes(p) <=> q \in Nodes /\ IsPrefix(q, p)
  <1>1. p \in Seq({0, 1}) /\ Len(p) \in Nat /\ Len(p) <= Bits /\ Bits \in Nat
    BY NodeIs, ServiceTableAssumption
  <1>2. ASSUME NEW l \in 0..Len(p)
        PROVE  SubSeq(p, 1, l) \in Nodes /\ IsPrefix(SubSeq(p, 1, l), p)
    <2> DEFINE r == SubSeq(p, 1, l)
    <2>1. r \in Seq({0, 1}) /\ Len(r) = l /\ \A i \in 1..l : r[i] = p[i]
      BY <1>1
    <2> HIDE DEF r
    <2>2. r \in Nodes
      BY <1>1, <2>1, NodeIs
    <2>3. IsPrefix(r, p)
      BY <1>1, <2>1, <2>2, PrefixIs
    <2> QED
      BY <2>2, <2>3, Zenon DEF r
  <1>3. ASSUME NEW q \in Nodes, IsPrefix(q, p)
        PROVE  Len(q) \in 0..Len(p) /\ q = SubSeq(p, 1, Len(q))
    <2>1. q \in Seq({0, 1}) /\ Len(q) <= Len(p) /\ \A i \in 1..Len(q) : q[i] = p[i]
      BY <1>3, NodeIs, PrefixIs, Zenon
    <2>2. Len(q) \in 0..Len(p)
      BY <1>1, <2>1
    <2> DEFINE r == SubSeq(p, 1, Len(q))
    <2>3. r \in Seq({0, 1}) /\ Len(r) = Len(q) /\ \A i \in 1..Len(q) : r[i] = q[i]
      BY <1>1, <2>1, <2>2
    <2> HIDE DEF r
    <2>4. q = r
      BY <2>1, <2>3, SeqEqual, Zenon
    <2> QED
      BY <2>2, <2>4, Zenon DEF r
  <1> QED
    BY <1>2, <1>3, Zenon DEF Prefixes

-----------------------------------------------------------------------------
(* The trie (bst.c) *)

\* NoNode is not a node.
LEMMA NoNodeIs == NoNode \notin Nodes
  <1>1. NoNode[1] = -1 /\ Len(NoNode) = 1
    BY Zenon DEF NoNode
  <1>2. ASSUME NoNode \in Nodes PROVE FALSE
    <2>1. NoNode \in Seq({0, 1})
      BY <1>2, NodeIs, Zenon
    <2>2. NoNode[1] \in {0, 1}
      BY <1>1, <2>1, ElementOfSeq
    <2> QED
      BY <1>1, <2>2
  <1> QED
    BY <1>2, Zenon

\* Among nodes there is a longest one, and Longest finds it.
LEMMA LongestIs ==
  ASSUME NEW ps, ps \subseteq Nodes, ps # {}
  PROVE  Longest(ps) \in ps /\ \A q \in ps : Len(q) <= Len(Longest(ps))
  <1>1. Bits \in Nat /\ \A q \in ps : Len(q) \in Nat /\ Len(q) <= Bits
    BY ServiceTableAssumption, PrefixOrder
  <1> DEFINE T == {Bits - Len(q) : q \in ps}
  <1>2. T \subseteq Nat /\ T # {}
    BY <1>1
  <1>3. PICK x \in T : \A y \in T : x <= y
    BY <1>2, MinNat, Zenon
  <1>4. PICK p \in ps : x = Bits - Len(p)
    BY <1>3, Zenon
  <1>5. ASSUME NEW q \in ps PROVE Len(q) <= Len(p)
    <2>1. x <= Bits - Len(q)
      BY <1>3, Zenon
    <2> QED
      BY <1>1, <1>4, <2>1
  <1> HIDE DEF T
  <1> QED
    BY <1>5, Zenon DEF Longest

\* In a trie the way down passes all prefixes of k that are in it.
LEMMA VisitedIs ==
  ASSUME NEW tb, tb.tree \subseteq Nodes, Closed(tb.tree), NEW k
  PROVE  Visited(tb, k) = {p \in tb.tree : IsPrefix(p, k)}
  BY PrefixesAre, Zenon DEF Visited, Closed

\* The search finds k itself just when it is active.
LEMMA FindIs ==
  ASSUME NEW tb, TableOK(tb), NEW k \in Nodes
  PROVE  bst_find_longest_prefix(tb, k) = k <=> k \in DOMAIN tb.entry
  <1> DEFINE ps == Visited(tb, k) \cap DOMAIN tb.entry
  <1>1. /\ tb.tree \subseteq Nodes /\ Closed(tb.tree) /\ DOMAIN tb.entry \subseteq tb.tree
    BY Zenon DEF TableOK, TrieOK
  <1>2. ps = {p \in DOMAIN tb.entry : IsPrefix(p, k)}
    BY <1>1, VisitedIs, Zenon
  <1>3. bst_find_longest_prefix(tb, k) = Longest(ps)
    BY Zenon DEF bst_find_longest_prefix, bst_find_longest_prefix_match
  <1> HIDE DEF ps
  <1>4. ps \subseteq Nodes
    BY <1>1, <1>2, Zenon
  <1>5. CASE k \in DOMAIN tb.entry
    <2>1. k \in ps
      BY <1>2, <1>5, PrefixOrder, Zenon
    <2>2. Longest(ps) \in ps /\ Len(k) <= Len(Longest(ps))
      BY <1>4, <2>1, LongestIs, Zenon
    <2>3. Longest(ps) \in Nodes /\ IsPrefix(Longest(ps), k)
      BY <1>2, <1>4, <2>2, Zenon
    <2>4. Longest(ps) = k
      BY <2>2, <2>3, PrefixOrder, Zenon
    <2> QED
      BY <1>3, <1>5, <2>4, Zenon
  <1>6. CASE k \notin DOMAIN tb.entry
    <2>1. CASE ps = {}
      BY <1>3, <1>6, <2>1, NoNodeIs, Zenon DEF Longest
    <2>2. CASE ps # {}
      <3>1. Longest(ps) \in ps
        BY <1>4, <2>2, LongestIs, Zenon
      <3> QED
        BY <1>2, <1>3, <1>6, <3>1, Zenon
    <2> QED
      BY <2>1, <2>2, Zenon
  <1> QED
    BY <1>5, <1>6, Zenon

\* A search finds an entry or nothing.
LEMMA FoundIsActive ==
  ASSUME NEW tb, TableOK(tb), NEW k, NEW match, match \subseteq DOMAIN tb.entry
  PROVE  bst_find_longest_prefix_match(tb, k, match) \in match \cup {NoNode}
  <1> DEFINE ps == Visited(tb, k) \cap match
  <1>1. ps \subseteq Nodes
    BY Zenon DEF TableOK, TrieOK
  <1>2. bst_find_longest_prefix_match(tb, k, match) = Longest(ps)
    BY Zenon DEF bst_find_longest_prefix_match
  <1>3. CASE ps = {}
    BY <1>2, <1>3, Zenon DEF Longest
  <1>4. CASE ps # {}
    <2>1. Longest(ps) \in ps
      BY <1>1, <1>4, LongestIs, Zenon
    <2> QED
      BY <1>2, <2>1, Zenon
  <1> QED
    BY <1>3, <1>4, Zenon

\* bst_insert_prefix: the nodes are again those of a trie, k the only new leaf.
LEMMA InsertKeepsTrie ==
  ASSUME NEW tb, TableOK(tb), NEW k \in Nodes, k \notin DOMAIN tb.entry
  PROVE  TrieOK(bst_insert_prefix(tb, k), DOMAIN tb.entry \cup {k},
                tb.services + 1, tb.entries + 1)
  <1> DEFINE act == DOMAIN tb.entry
             old == IF tb.entries = 0 THEN {<< >>} ELSE tb.tree
             new == bst_insert_prefix(tb, k)
  <1>1. /\ tb.tree \subseteq Nodes /\ act \subseteq tb.tree /\ Closed(tb.tree)
        /\ NoDeadBranch(tb.tree, act) /\ IsFiniteSet(act)
        /\ tb.services = Cardinality(act) /\ tb.entries = tb.services
    BY Zenon DEF TableOK, TrieOK
  <1>2. \A q : q \in new <=> q \in old \/ (q \in Nodes /\ IsPrefix(q, k))
    BY PrefixesAre, Zenon DEF bst_insert_prefix
  <1>3. IsFiniteSet(act \cup {k}) /\ Cardinality(act \cup {k}) = tb.services + 1
    BY <1>1, FS_AddElement, Zenon
  <1>4. /\ old \subseteq Nodes /\ act \subseteq old
        /\ Closed(old) /\ NoDeadBranch(old, act)
    <2>1. CASE tb.entries = 0
      <3>1. act = {}
        BY <1>1, <2>1, FS_EmptySet, Zenon
      <3>2. \A q \in Nodes : IsPrefix(q, << >>) => q = << >>
        <4>1. Len(<< >>) = 0
          OBVIOUS
        <4> QED
          BY <4>1, PrefixOrder, Zenon
      <3> QED
        BY <2>1, <3>1, <3>2, PrefixOrder, Zenon DEF Closed, NoDeadBranch
    <2>2. CASE tb.entries # 0
      BY <1>1, <2>2, Zenon
    <2> QED
      BY <2>1, <2>2, Zenon
  <1> HIDE DEF old, new
  <1>5. new \subseteq Nodes /\ act \cup {k} \subseteq new
    BY <1>2, <1>4, PrefixOrder, Zenon
  <1>6. Closed(new)
    BY <1>2, <1>4, PrefixOrder, Zenon DEF Closed
  <1>7. NoDeadBranch(new, act \cup {k})
    <2> SUFFICES ASSUME NEW p \in new, p # << >>, p \notin act, p # k
                 PROVE  \E q \in new : q # p /\ IsPrefix(p, q)
      BY Zenon DEF NoDeadBranch, HasChildren
    <2>1. CASE p \in old
      BY <1>2, <1>4, <2>1, Zenon DEF NoDeadBranch, HasChildren
    <2>2. CASE IsPrefix(p, k)
      BY <1>5, <2>2, Zenon
    <2> QED
      BY <1>2, <2>1, <2>2, Zenon
  <1>8. TrieOK(new, act \cup {k}, tb.services + 1, tb.entries + 1)
    BY <1>1, <1>3, <1>5, <1>6, <1>7, Zenon DEF TrieOK
  <1> QED
    BY <1>8, Zenon DEF new

\* bst_node_release: what it takes away are the node and the inactive ancestors
\* that led to it alone.
LEMMA ReleaseKeepsTrie ==
  ASSUME NEW tr, NEW act, NEW n \in act, NEW sv, NEW es, TrieOK(tr, act, sv, es)
  PROVE  TrieOK(bst_node_release(tr, act \ {n}, n), act \ {n}, sv - 1, es - 1)
  <1> DEFINE left == act \ {n}
             new == bst_node_release(tr, left, n)
             R == {p \in tr :
                      \/ p = n
                      \/ /\ p # << >>
                         /\ IsPrefix(p, n)
                         /\ \A q \in tr : IsPrefix(p, q) =>
                                IsPrefix(q, n) /\ (q = n \/ q \notin left)}
  <1>1. /\ tr \subseteq Nodes /\ act \subseteq tr /\ Closed(tr)
        /\ NoDeadBranch(tr, act) /\ IsFiniteSet(act)
        /\ sv = Cardinality(act) /\ es = sv
    BY Zenon DEF TrieOK
  <1>2. IsFiniteSet(left) /\ Cardinality(left) = sv - 1
    BY <1>1, FS_RemoveElement, Zenon
  <1>3. CASE HasChildren(tr, n)
    <2>1. new = tr
      BY <1>3, Zenon DEF bst_node_release
    <2>2. NoDeadBranch(tr, left)
      BY <1>1, <1>3, Zenon DEF NoDeadBranch
    <2> QED
      BY <1>1, <1>2, <2>1, <2>2, Zenon DEF TrieOK
  <1>4. CASE ~HasChildren(tr, n)
    <2>1. new = tr \ R
      BY <1>4, Zenon DEF bst_node_release
    <2>2. \A q \in tr : IsPrefix(n, q) => q = n
      BY <1>4, Zenon DEF HasChildren
    <2>3. n \in tr /\ n \in Nodes
      BY <1>1, Zenon
    <2>4. \A p : p \in R <=>
             /\ p \in tr
             /\ \/ p = n
                \/ /\ p # << >>
                   /\ IsPrefix(p, n)
                   /\ \A q \in tr : IsPrefix(p, q) =>
                          IsPrefix(q, n) /\ (q = n \/ q \notin left)
      BY Zenon
    <2> HIDE DEF R, new
    <2>5. left \subseteq tr \ R
      <3> SUFFICES ASSUME NEW a \in left PROVE a \notin R
        BY <1>1, Zenon
      <3>1. a \in tr /\ a # n /\ IsPrefix(a, a)
        BY <1>1, PrefixOrder, Zenon
      <3> QED
        BY <2>4, <3>1, Zenon
    <2>6. Closed(tr \ R)
      <3> SUFFICES ASSUME NEW p \in tr \ R, NEW q \in Nodes, IsPrefix(q, p), q \in R
                   PROVE  FALSE
        BY <1>1, Zenon DEF Closed
      <3>1. q # n
        BY <2>2, <2>4, Zenon
      <3>2. /\ q \in tr /\ q # << >> /\ IsPrefix(q, n)
            /\ \A r \in tr : IsPrefix(q, r) => IsPrefix(r, n) /\ (r = n \/ r \notin left)
        BY <2>4, <3>1, Zenon
      <3>3. IsPrefix(p, n)
        BY <3>2, Zenon
      <3>4. \A r \in tr : IsPrefix(p, r) => IsPrefix(r, n) /\ (r = n \/ r \notin left)
        <4>1. \A r \in tr : IsPrefix(p, r) => IsPrefix(q, r)
          BY <1>1, PrefixOrder, Zenon
        <4> QED
          BY <3>2, <4>1, Zenon
      <3>5. p # << >>
        <4>1. Len(<< >>) = 0 /\ Len(q) \in Nat
          BY PrefixOrder
        <4>2. p = << >> => Len(q) <= Len(p) /\ q = p
          BY <1>1, <4>1, PrefixOrder, Zenon
        <4> QED
          BY <3>2, <4>2, Zenon
      <3> QED
        BY <2>4, <3>3, <3>4, <3>5, Zenon
    <2>7. NoDeadBranch(tr \ R, left)
      <3> SUFFICES ASSUME NEW p \in tr \ R, p # << >>, p \notin left,
                          \A q \in tr \ R : IsPrefix(p, q) => q = p
                   PROVE  FALSE
        BY Zenon DEF NoDeadBranch, HasChildren
      <3>1. p # n
        BY <2>4, Zenon
      <3>2. PICK c \in tr : c # p /\ IsPrefix(p, c)
        BY <1>1, <3>1, Zenon DEF NoDeadBranch, HasChildren
      <3>3. ASSUME NEW q \in tr, IsPrefix(p, q), q # p
            PROVE  IsPrefix(q, n) /\ (q = n \/ q \notin left)
        <4>1. q \in R
          BY <3>3, Zenon
        <4>2. IsPrefix(q, q) /\ IsPrefix(n, n)
          BY <1>1, <2>3, PrefixOrder, Zenon
        <4> QED
          BY <2>4, <4>1, <4>2, Zenon
      <3>4. IsPrefix(p, n)
        <4>1. IsPrefix(c, n)
          BY <3>2, <3>3, Zenon
        <4> QED
          BY <1>1, <2>3, <3>2, <4>1, PrefixOrder, Zenon
      <3>5. p \in R
        BY <2>4, <3>3, <3>4, Zenon
      <3> QED
        BY <3>5, Zenon
    <2>8. tr \ R \subseteq Nodes
      BY <1>1, Zenon
    <2> QED
      BY <1>1, <1>2, <2>1, <2>5, <2>6, <2>7, <2>8, Zenon DEF TrieOK, new
  <1> QED
    BY <1>3, <1>4, Zenon

-----------------------------------------------------------------------------
(* Tables *)

\* The entry of one node changes.
LEMMA EntryKeepsTable ==
  ASSUME NEW tb, TableOK(tb), NEW p \in DOMAIN tb.entry, NEW sets, SetsOK(sets)
  PROVE  /\ TableOK([tb EXCEPT !.entry[p] = sets])
         /\ DOMAIN [tb EXCEPT !.entry[p] = sets].entry = DOMAIN tb.entry
  <1> DEFINE e == [tb.entry EXCEPT ![p] = sets]
             new == [tb EXCEPT !.entry[p] = sets]
  <1>1. tb = [tree |-> tb.tree, entry |-> tb.entry, services |-> tb.services,
              entries |-> tb.entries]
    BY Zenon DEF TableOK
  <1>2. /\ new = [tree |-> tb.tree, entry |-> e, services |-> tb.services,
                  entries |-> tb.entries]
        /\ new.tree = tb.tree /\ new.entry = e /\ new.services = tb.services
        /\ new.entries = tb.entries
    BY <1>1
  <1>3. DOMAIN e = DOMAIN tb.entry
        /\ \A q \in DOMAIN tb.entry : e[q] = IF q = p THEN sets ELSE tb.entry[q]
    OBVIOUS
  <1> HIDE DEF new, e
  <1>4. TrieOK(new.tree, DOMAIN new.entry, new.services, new.entries)
    BY <1>2, <1>3, Zenon DEF TableOK
  <1>5. \A q \in DOMAIN new.entry : SetsOK(new.entry[q])
    BY <1>2, <1>3, Zenon DEF TableOK
  <1>6. TableOK(new) /\ DOMAIN new.entry = DOMAIN tb.entry
    BY <1>2, <1>3, <1>4, <1>5, Zenon DEF TableOK
  <1> QED
    BY <1>6, Zenon DEF new

\* Update: the entry changes, or is released with its node.
LEMMA UpdateKeepsTable ==
  ASSUME NEW tb, TableOK(tb), NEW p \in DOMAIN tb.entry, NEW sets, SetsOK(sets)
  PROVE  /\ TableOK(Update(tb, p, sets))
         /\ DOMAIN tb.entry \ {p} \subseteq DOMAIN Update(tb, p, sets).entry
  <1>1. CASE sets # << >>
    <2>1. Update(tb, p, sets) = [tb EXCEPT !.entry[p] = sets]
      BY <1>1, Zenon DEF Update
    <2> QED
      BY <2>1, EntryKeepsTable
  <1>2. CASE sets = << >>
    <2> DEFINE left == DOMAIN tb.entry \ {p}
               tr == bst_node_release(tb.tree, left, p)
               e == [q \in left |-> tb.entry[q]]
               new == [tree |-> tr, entry |-> e, services |-> tb.services - 1,
                       entries |-> tb.entries - 1]
    <2>1. Update(tb, p, sets) = new
      BY <1>2, Zenon DEF Update
    <2>2. TrieOK(tr, left, tb.services - 1, tb.entries - 1)
      BY ReleaseKeepsTrie, Zenon DEF TableOK
    <2>3. DOMAIN e = left /\ \A q \in left : e[q] = tb.entry[q]
      OBVIOUS
    <2> HIDE DEF tr, e
    <2>4. /\ new.tree = tr /\ new.entry = e /\ new.services = tb.services - 1
          /\ new.entries = tb.entries - 1
      OBVIOUS
    <2>5. new = [tree |-> new.tree, entry |-> new.entry, services |-> new.services,
                 entries |-> new.entries]
      BY <2>4, Zenon
    <2> HIDE DEF new
    <2>6. \A q \in DOMAIN new.entry : SetsOK(new.entry[q])
      BY <2>3, <2>4, Zenon DEF TableOK
    <2>7. TableOK(new)
      <3>1. TrieOK(new.tree, DOMAIN new.entry, new.services, new.entries)
        BY <2>2, <2>3, <2>4, Zenon
      <3> QED
        BY <2>5, <2>6, <3>1, Zenon DEF TableOK
    <2> QED
      BY <2>1, <2>3, <2>4, <2>7, Zenon
  <1> QED
    BY <1>1, <1>2, Zenon

\* service_table_add.
LEMMA AddKeepsTable ==
  ASSUME NEW tb, TableOK(tb), NEW k \in Nodes, NEW prio \in Priorities \cup {Local},
         NEW t \in Targets
  PROVE  TableOK(service_table_add(tb, k, prio, t).table)
  <1>1. CASE k \in DOMAIN tb.entry
    <2>1. bst_find_longest_prefix(tb, k) = k
      BY <1>1, FindIs, Zenon
    <2>2. CASE CanAdd(tb.entry[k], t)
      <3>1. service_table_add(tb, k, prio, t).table
               = [tb EXCEPT !.entry[k] = AddToSets(@, prio, t)]
        BY <2>1, <2>2, Zenon DEF service_table_add
      <3>2. SetsOK(AddToSets(tb.entry[k], prio, t))
        <4>1. SetsOK(tb.entry[k]) /\ NoRival(tb.entry[k], t)
          BY <1>1, <2>2, AcceptedHasNoRival, Zenon DEF TableOK
        <4> QED
          BY <4>1, AddKeepsSets, Zenon
      <3>3. [tb EXCEPT !.entry[k] = AddToSets(@, prio, t)]
               = [tb EXCEPT !.entry[k] = AddToSets(tb.entry[k], prio, t)]
        OBVIOUS
      <3> QED
        BY <1>1, <3>1, <3>2, <3>3, EntryKeepsTable
    <2>3. CASE ~CanAdd(tb.entry[k], t)
      <3>1. service_table_add(tb, k, prio, t).table = tb
        BY <2>1, <2>3, Zenon DEF service_table_add
      <3> QED
        BY <3>1, Zenon
    <2> QED
      BY <2>2, <2>3, Zenon
  <1>2. CASE k \notin DOMAIN tb.entry
    <2>1. bst_find_longest_prefix(tb, k) # k
      BY <1>2, FindIs, Zenon
    <2> DEFINE act == DOMAIN tb.entry \cup {k}
               tr == bst_insert_prefix(tb, k)
               e == [q \in act |-> IF q = k THEN AddToSets(<< >>, prio, t) ELSE tb.entry[q]]
               new == [tree |-> tr, entry |-> e, services |-> tb.services + 1,
                       entries |-> tb.entries + 1]
    <2>2. service_table_add(tb, k, prio, t).table = new
      BY <2>1, Zenon DEF service_table_add
    <2>3. TrieOK(tr, act, tb.services + 1, tb.entries + 1)
      BY <1>2, InsertKeepsTrie, Zenon
    <2>4. SetsOK(AddToSets(<< >>, prio, t))
      BY AddKeepsSets, EmptySets, Zenon
    <2>5. DOMAIN e = act /\ \A q \in act : SetsOK(e[q])
      BY <2>4, Zenon DEF TableOK
    <2> HIDE DEF tr, e, act
    <2>6. /\ new.tree = tr /\ new.entry = e /\ new.services = tb.services + 1
          /\ new.entries = tb.entries + 1
      OBVIOUS
    <2>7. new = [tree |-> new.tree, entry |-> new.entry, services |-> new.services,
                 entries |-> new.entries]
      BY <2>6, Zenon
    <2> HIDE DEF new
    <2>8. TrieOK(new.tree, DOMAIN new.entry, new.services, new.entries)
      BY <2>3, <2>5, <2>6, Zenon
    <2>9. TableOK(new)
      BY <2>5, <2>6, <2>7, <2>8, Zenon DEF TableOK
    <2> QED
      BY <2>2, <2>9, Zenon
  <1> QED
    BY <1>1, <1>2, Zenon

\* service_del_target for a socket.
LEMMA DelSockKeepsTable ==
  ASSUME NEW tb, TableOK(tb), NEW k
  PROVE  TableOK(DelSockTarget(tb, k))
  <1> DEFINE p == bst_find_longest_prefix(tb, k)
             at == SockPlaces(tb.entry[p])
             x == IF p = NoNode THEN NoNode ELSE FirstPlace(at)
  <1>1. DelSockTarget(tb, k)
           = IF x = NoNode THEN tb ELSE Update(tb, p, DropPlace(tb.entry[p], x))
    BY Zenon DEF DelSockTarget
  <1>2. p \in DOMAIN tb.entry \cup {NoNode}
    BY FoundIsActive, Zenon DEF bst_find_longest_prefix
  <1> HIDE DEF p
  <1>3. CASE x = NoNode
    BY <1>1, <1>3, Zenon
  <1>4. CASE x # NoNode
    <2>1. p # NoNode /\ p \in DOMAIN tb.entry /\ x = FirstPlace(at) /\ at # {}
      BY <1>2, <1>4, Zenon DEF FirstPlace
    <2>2. SetsOK(tb.entry[p])
      BY <2>1, Zenon DEF TableOK
    <2>3. x \in Places(tb.entry[p])
      <3>1. at \subseteq Places(tb.entry[p])
        BY Zenon DEF SockPlaces
      <3> HIDE DEF at
      <3> QED
        BY <2>1, <3>1, FirstIsPlace, Zenon
    <2> HIDE DEF x, at
    <2>4. SetsOK(DropPlace(tb.entry[p], x))
      BY <2>2, <2>3, DropKeepsSets, Zenon
    <2>5. TableOK(Update(tb, p, DropPlace(tb.entry[p], x)))
      BY <2>1, <2>4, UpdateKeepsTable, Zenon
    <2> QED
      BY <1>1, <1>4, <2>5, Zenon
  <1> QED
    BY <1>3, <1>4, Zenon

\* del_dev_func on one entry leaves the others in the table.
LEMMA DelDevKeepsTable ==
  ASSUME NEW tb, TableOK(tb), NEW p \in DOMAIN tb.entry, NEW d
  PROVE  /\ TableOK(del_dev_func(tb, p, d))
         /\ DOMAIN tb.entry \ {p} \subseteq DOMAIN del_dev_func(tb, p, d).entry
  <1> DEFINE sets == RemoveByDev(tb.entry[p], d)
  <1>1. SetsOK(sets)
    BY RemoveByDevKeepsSets, Zenon DEF TableOK
  <1>2. \/ del_dev_func(tb, p, d) = Update(tb, p, sets)
        \/ del_dev_func(tb, p, d) = [tb EXCEPT !.entry[p] = sets]
    BY Zenon DEF del_dev_func
  <1> HIDE DEF sets
  <1>3. CASE del_dev_func(tb, p, d) = Update(tb, p, sets)
    BY <1>1, <1>3, UpdateKeepsTable, Zenon
  <1>4. CASE del_dev_func(tb, p, d) = [tb EXCEPT !.entry[p] = sets]
    BY <1>1, <1>4, EntryKeepsTable
  <1> QED
    BY <1>2, <1>3, <1>4, Zenon

-----------------------------------------------------------------------------
(* The sockets in the table *)

\* Table tb has target t in the entry of node p.
HasTargetAt(tb, p, t) == p \in DOMAIN tb.entry /\ Holds(tb.entry[p], t)

\* Two tables have the same sockets at the same nodes.
SameTable(old, new) ==
    \A p, t : IsSock(t) => (HasTargetAt(old, p, t) <=> HasTargetAt(new, p, t))

\* The entry of a node changes and keeps its sockets.
LEMMA EntrySame ==
  ASSUME NEW tb, TableOK(tb), NEW p \in DOMAIN tb.entry, NEW sets,
         SameSockets(tb.entry[p], sets)
  PROVE  SameTable(tb, [tb EXCEPT !.entry[p] = sets])
  <1> DEFINE e == [tb.entry EXCEPT ![p] = sets]
             new == [tb EXCEPT !.entry[p] = sets]
  <1>1. tb = [tree |-> tb.tree, entry |-> tb.entry, services |-> tb.services,
              entries |-> tb.entries]
    BY Zenon DEF TableOK
  <1>2. new.entry = e
    BY <1>1, Zenon
  <1>3. DOMAIN e = DOMAIN tb.entry
        /\ \A q \in DOMAIN tb.entry : e[q] = IF q = p THEN sets ELSE tb.entry[q]
    OBVIOUS
  <1> HIDE DEF new, e
  <1>4. ASSUME NEW q, NEW t, IsSock(t) PROVE HasTargetAt(tb, q, t) <=> HasTargetAt(new, q, t)
    <2>1. CASE q = p
      BY <1>2, <1>3, <1>4, <2>1, Zenon DEF HasTargetAt, SameSockets
    <2>2. CASE q # p
      BY <1>2, <1>3, <2>2, Zenon DEF HasTargetAt
    <2> QED
      BY <2>1, <2>2, Zenon
  <1>5. SameTable(tb, new)
    BY <1>4, Zenon DEF SameTable
  <1> QED
    BY <1>5, Zenon DEF new

\* Update keeps the sockets of the table if the entry does.
LEMMA UpdateSame ==
  ASSUME NEW tb, TableOK(tb), NEW p \in DOMAIN tb.entry, NEW sets,
         SameSockets(tb.entry[p], sets)
  PROVE  SameTable(tb, Update(tb, p, sets))
  <1>1. CASE sets # << >>
    <2>1. Update(tb, p, sets) = [tb EXCEPT !.entry[p] = sets]
      BY <1>1, Zenon DEF Update
    <2> QED
      BY <2>1, EntrySame
  <1>2. CASE sets = << >>
    <2> DEFINE left == DOMAIN tb.entry \ {p}
               new == Update(tb, p, sets)
    <2>1. new.entry = [q \in left |-> tb.entry[q]]
      BY <1>2, Zenon DEF Update
    <2>2. DOMAIN new.entry = left /\ \A q \in left : new.entry[q] = tb.entry[q]
      BY <2>1, Zenon
    <2>3. ASSUME NEW t, IsSock(t) PROVE ~Holds(tb.entry[p], t)
      <3>1. Len(<< >>) = 0 /\ 1..0 = {}
        OBVIOUS
      <3>2. ~Holds(<< >>, t)
        BY <3>1, Zenon DEF Holds
      <3> QED
        BY <1>2, <2>3, <3>2, Zenon DEF SameSockets
    <2> HIDE DEF new
    <2>4. ASSUME NEW q, NEW t, IsSock(t)
          PROVE  HasTargetAt(tb, q, t) <=> HasTargetAt(new, q, t)
      <3>1. CASE q = p
        BY <2>2, <2>3, <2>4, <3>1, Zenon DEF HasTargetAt
      <3>2. CASE q # p
        BY <2>2, <3>2, Zenon DEF HasTargetAt
      <3> QED
        BY <3>1, <3>2, Zenon
    <2>5. SameTable(tb, new)
      BY <2>4, Zenon DEF SameTable
    <2> QED
      BY <2>5, Zenon DEF new
  <1> QED
    BY <1>1, <1>2, Zenon

\* service_table_add of a rule.
LEMMA AddRuleSame ==
  ASSUME NEW tb, TableOK(tb), NEW k \in Nodes, NEW prio \in Priorities \cup {Local},
         NEW t \in Targets, ~IsSock(t)
  PROVE  SameTable(tb, service_table_add(tb, k, prio, t).table)
  <1>1. CASE k \in DOMAIN tb.entry
    <2>1. bst_find_longest_prefix(tb, k) = k
      BY <1>1, FindIs, Zenon
    <2>2. CASE CanAdd(tb.entry[k], t)
      <3>1. service_table_add(tb, k, prio, t).table
               = [tb EXCEPT !.entry[k] = AddToSets(@, prio, t)]
        BY <2>1, <2>2, Zenon DEF service_table_add
      <3>2. SameSockets(tb.entry[k], AddToSets(tb.entry[k], prio, t))
        BY <1>1, AddSame, Zenon DEF TableOK
      <3>3. [tb EXCEPT !.entry[k] = AddToSets(@, prio, t)]
               = [tb EXCEPT !.entry[k] = AddToSets(tb.entry[k], prio, t)]
        OBVIOUS
      <3> QED
        BY <1>1, <3>1, <3>2, <3>3, EntrySame
    <2>3. CASE ~CanAdd(tb.entry[k], t)
      <3>1. service_table_add(tb, k, prio, t).table = tb
        BY <2>1, <2>3, Zenon DEF service_table_add
      <3> QED
        BY <3>1, Zenon DEF SameTable
    <2> QED
      BY <2>2, <2>3, Zenon
  <1>2. CASE k \notin DOMAIN tb.entry
    <2>1. bst_find_longest_prefix(tb, k) # k
      BY <1>2, FindIs, Zenon
    <2> DEFINE act == DOMAIN tb.entry \cup {k}
               sets == AddToSets(<< >>, prio, t)
               new == service_table_add(tb, k, prio, t).table
    <2>2. new.entry = [q \in act |-> IF q = k THEN sets ELSE tb.entry[q]]
      BY <2>1, Zenon DEF service_table_add
    <2>3. DOMAIN new.entry = act /\ \A q \in act : new.entry[q] = IF q = k THEN sets
                                                                  ELSE tb.entry[q]
      BY <2>2, Zenon
    <2>4. ASSUME NEW u, IsSock(u) PROVE ~Holds(sets, u)
      <3>1. SameSockets(<< >>, sets)
        BY EmptySets, AddSame, Zenon
      <3>2. Len(<< >>) = 0 /\ 1..0 = {}
        OBVIOUS
      <3>3. ~Holds(<< >>, u)
        BY <3>2, Zenon DEF Holds
      <3> HIDE DEF sets
      <3> QED
        BY <2>4, <3>1, <3>3, Zenon DEF SameSockets
    <2> HIDE DEF new, sets
    <2>5. ASSUME NEW q, NEW u, IsSock(u)
          PROVE  HasTargetAt(tb, q, u) <=> HasTargetAt(new, q, u)
      <3>1. CASE q = k
        BY <1>2, <2>3, <2>4, <2>5, <3>1, Zenon DEF HasTargetAt
      <3>2. CASE q # k
        BY <2>3, <3>2, Zenon DEF HasTargetAt
      <3> QED
        BY <3>1, <3>2, Zenon
    <2>6. SameTable(tb, new)
      BY <2>5, Zenon DEF SameTable
    <2> QED
      BY <2>6, Zenon DEF new
  <1> QED
    BY <1>1, <1>2, Zenon

\* del_dev_func.
LEMMA DelDevSame ==
  ASSUME NEW tb, TableOK(tb), NEW p \in DOMAIN tb.entry, NEW d
  PROVE  SameTable(tb, del_dev_func(tb, p, d))
  <1> DEFINE sets == RemoveByDev(tb.entry[p], d)
  <1>1. SameSockets(tb.entry[p], sets)
    BY RemoveByDevSame, Zenon DEF TableOK
  <1>2. \/ del_dev_func(tb, p, d) = Update(tb, p, sets)
        \/ del_dev_func(tb, p, d) = [tb EXCEPT !.entry[p] = sets]
    BY Zenon DEF del_dev_func
  <1> HIDE DEF sets
  <1>3. CASE del_dev_func(tb, p, d) = Update(tb, p, sets)
    BY <1>1, <1>3, UpdateSame, Zenon
  <1>4. CASE del_dev_func(tb, p, d) = [tb EXCEPT !.entry[p] = sets]
    BY <1>1, <1>4, EntrySame
  <1> QED
    BY <1>2, <1>3, <1>4, Zenon

\* The sockets of three tables.
LEMMA SameTransitive ==
  ASSUME NEW ta, NEW tb, NEW tc, SameTable(ta, tb), SameTable(tb, tc)
  PROVE  SameTable(ta, tc)
  BY Zenon DEF SameTable

-----------------------------------------------------------------------------
(* Devices that go away *)

\* F computes the tables of service_del_dev_all for sets of up to n nodes.
WalksTo(F, d, n) ==
    \A ps \in SUBSET Active : Cardinality(ps) <= n =>
        F[ps] = IF ps = {} THEN Table
                ELSE del_dev_func(F[ps \ {Longest(ps)}], Longest(ps), d)

\* The recursion in service_del_dev_all has a solution.
LEMMA WalkFunction ==
  ASSUME IsFiniteSet(Active), Active \subseteq Nodes, NEW d
  PROVE  \E F : WalksTo(F, d, Cardinality(Active)) /\ service_del_dev_all(d) = F[Active]
  <1> DEFINE N == Cardinality(Active)
             Step(G) == [ps \in SUBSET Active |->
                            IF ps = {} THEN Table
                            ELSE del_dev_func(G[ps \ {Longest(ps)}], Longest(ps), d)]
             F == CHOOSE G : G = Step(G)
             T == {n \in 0..N : ~\E G : WalksTo(G, d, n)}
  <1>0. N \in Nat
    BY FS_CardinalityType, Zenon
  <1>1. ASSUME NEW ps \in SUBSET Active
        PROVE  /\ Cardinality(ps) \in Nat /\ Cardinality(ps) <= N
               /\ ps = {} <=> Cardinality(ps) = 0
               /\ ps # {} => /\ ps \ {Longest(ps)} \in SUBSET Active
                             /\ Cardinality(ps \ {Longest(ps)}) = Cardinality(ps) - 1
    <2>1. IsFiniteSet(ps) /\ Cardinality(ps) <= N
      BY FS_Subset, Zenon
    <2>2. Cardinality(ps) \in Nat /\ (ps = {} <=> Cardinality(ps) = 0)
      BY <2>1, FS_CardinalityType, FS_EmptySet, Zenon
    <2>3. ASSUME ps # {} PROVE Cardinality(ps \ {Longest(ps)}) = Cardinality(ps) - 1
      <3>1. Longest(ps) \in ps
        BY <2>3, LongestIs, Zenon
      <3> QED
        BY <2>1, <3>1, FS_RemoveElement, Zenon
    <2> QED
      BY <2>1, <2>2, <2>3, Zenon
  <1> HIDE DEF N
  <1>2. ASSUME NEW n \in Nat, NEW G, WalksTo(G, d, n)
        PROVE  WalksTo(Step(G), d, n + 1)
    <2> SUFFICES ASSUME NEW ps \in SUBSET Active, Cardinality(ps) <= n + 1
                 PROVE  Step(G)[ps] = IF ps = {} THEN Table
                                      ELSE del_dev_func(Step(G)[ps \ {Longest(ps)}],
                                                        Longest(ps), d)
      BY Zenon DEF WalksTo
    <2>1. Step(G)[ps] = IF ps = {} THEN Table
                        ELSE del_dev_func(G[ps \ {Longest(ps)}], Longest(ps), d)
      OBVIOUS
    <2>2. CASE ps = {}
      BY <2>1, <2>2, Zenon
    <2>3. CASE ps # {}
      <3> DEFINE qs == ps \ {Longest(ps)}
      <3>1. qs \in SUBSET Active /\ Cardinality(qs) <= n
        BY <1>1, <2>3
      <3> HIDE DEF qs
      <3>2. G[qs] = IF qs = {} THEN Table
                    ELSE del_dev_func(G[qs \ {Longest(qs)}], Longest(qs), d)
        BY <1>2, <3>1, Zenon DEF WalksTo
      <3>3. G[qs] = Step(G)[qs]
        BY <3>1, <3>2, Zenon
      <3> HIDE DEF Step
      <3> QED
        BY <2>1, <2>3, <3>3, Zenon DEF qs
    <2> QED
      BY <2>2, <2>3, Zenon
  <1>3. T = {}
    <2> SUFFICES ASSUME T # {} PROVE FALSE
      OBVIOUS
    <2>1. PICK n \in T : \A m \in T : n <= m
      <3>1. T \subseteq Nat
        BY <1>0
      <3> HIDE DEF T
      <3> QED
        BY <3>1, MinNat, Zenon
    <2>2. n \in 0..N /\ ~\E G : WalksTo(G, d, n)
      BY <2>1, Zenon
    <2>3. n # 0
      <3>1. WalksTo([ps \in SUBSET Active |-> Table], d, 0)
        <4> SUFFICES ASSUME NEW ps \in SUBSET Active, Cardinality(ps) <= 0
                     PROVE  ps = {}
          BY Zenon DEF WalksTo
        <4>1. Cardinality(ps) \in Nat /\ (ps = {} <=> Cardinality(ps) = 0)
          BY <1>1, Zenon
        <4> QED
          BY <4>1
      <3> QED
        BY <2>2, <3>1, Zenon
    <2>4. n - 1 \in 0..N /\ n - 1 \in Nat /\ n - 1 < n /\ (n - 1) + 1 = n
      BY <1>0, <2>2, <2>3
    <2>5. n - 1 \notin T
      BY <2>1, <2>4
    <2>6. PICK G : WalksTo(G, d, n - 1)
      BY <2>4, <2>5, Zenon
    <2>7. WalksTo(Step(G), d, n)
      BY <1>2, <2>4, <2>6, Zenon
    <2> HIDE DEF Step
    <2> QED
      BY <2>2, <2>7, Zenon
  <1>4. PICK G : WalksTo(G, d, N)
    BY <1>0, <1>3
  <1>5. Step(G) = Step(Step(G))
    <2>1. ASSUME NEW ps \in SUBSET Active, ps # {}
          PROVE  G[ps \ {Longest(ps)}] = Step(G)[ps \ {Longest(ps)}]
      <3> DEFINE qs == ps \ {Longest(ps)}
      <3>1. qs \in SUBSET Active
        OBVIOUS
      <3> HIDE DEF qs
      <3>2. Cardinality(qs) <= N
        BY <1>1, <3>1, Zenon
      <3>3. G[qs] = IF qs = {} THEN Table
                    ELSE del_dev_func(G[qs \ {Longest(qs)}], Longest(qs), d)
        BY <1>4, <3>1, <3>2, Zenon DEF WalksTo
      <3>4. G[qs] = Step(G)[qs]
        BY <3>1, <3>3, Zenon
      <3> HIDE DEF Step
      <3> QED
        BY <3>4, Zenon DEF qs
    <2> QED
      BY <2>1, Zenon
  <1>6. F = Step(F)
    <2> HIDE DEF Step
    <2> QED
      BY <1>5, Zenon
  <1>7. service_del_dev_all(d) = F[Active]
    BY Zenon DEF service_del_dev_all
  <1>8. WalksTo(F, d, N)
    <2> HIDE DEF F
    <2> SUFFICES ASSUME NEW ps \in SUBSET Active
                 PROVE  F[ps] = IF ps = {} THEN Table
                                ELSE del_dev_func(F[ps \ {Longest(ps)}], Longest(ps), d)
      BY Zenon DEF WalksTo
    <2>1. Step(F)[ps] = IF ps = {} THEN Table
                        ELSE del_dev_func(F[ps \ {Longest(ps)}], Longest(ps), d)
      OBVIOUS
    <2> HIDE DEF Step
    <2> QED
      BY <1>6, <2>1, Zenon
  <1> HIDE DEF F
  <1> QED
    BY <1>7, <1>8, Zenon DEF N

\* service_del_dev_all: every entry is still in the table when its turn comes,
\* and the sockets stay.
LEMMA WalkKeepsTable ==
  ASSUME TableOK(Table), NEW d
  PROVE  TableOK(service_del_dev_all(d)) /\ SameTable(Table, service_del_dev_all(d))
  <1> DEFINE N == Cardinality(Active)
  <1>1. Active \subseteq Nodes /\ IsFiniteSet(Active) /\ N \in Nat
    BY FS_CardinalityType, Zenon DEF TableOK, TrieOK, Table, Active
  <1>2. PICK F : WalksTo(F, d, N) /\ service_del_dev_all(d) = F[Active]
    BY <1>1, WalkFunction, Zenon
  <1> DEFINE Good(ps) == /\ TableOK(F[ps]) /\ Active \ ps \subseteq DOMAIN F[ps].entry
                         /\ SameTable(Table, F[ps])
             T == {n \in 0..N : \E ps \in SUBSET Active : Cardinality(ps) = n /\ ~Good(ps)}
  <1>3. ASSUME NEW ps \in SUBSET Active
        PROVE  IsFiniteSet(ps) /\ Cardinality(ps) \in 0..N
    <2>1. IsFiniteSet(ps) /\ Cardinality(ps) <= N
      BY <1>1, FS_Subset, Zenon
    <2>2. Cardinality(ps) \in Nat
      BY <2>1, FS_CardinalityType, Zenon
    <2> QED
      BY <1>1, <2>1, <2>2
  <1>4. T = {}
    <2> SUFFICES ASSUME T # {} PROVE FALSE
      OBVIOUS
    <2>1. PICK n \in T : \A m \in T : n <= m
      <3>1. T \subseteq Nat
        BY <1>1
      <3> HIDE DEF T
      <3> QED
        BY <3>1, MinNat, Zenon
    <2>2. PICK ps \in SUBSET Active : Cardinality(ps) = n /\ ~Good(ps)
      BY <2>1, Zenon
    <2>3. F[ps] = IF ps = {} THEN Table
                  ELSE del_dev_func(F[ps \ {Longest(ps)}], Longest(ps), d)
      <3>1. Cardinality(ps) <= N
        BY <1>1, <1>3
      <3> HIDE DEF N, T
      <3> QED
        BY <1>2, <3>1, Zenon DEF WalksTo
    <2>4. ps # {}
      <3>1. ASSUME ps = {} PROVE Good(ps)
        <4>1. F[ps] = Table
          BY <2>3, <3>1, Zenon
        <4>2. Active = DOMAIN Table.entry
          BY Zenon DEF Table, Active
        <4>3. SameTable(Table, Table)
          BY Zenon DEF SameTable
        <4> QED
          BY <4>1, <4>2, <4>3, Zenon
      <3> QED
        BY <2>2, <3>1, Zenon
    <2> DEFINE p == Longest(ps)
               qs == ps \ {p}
    <2>5. p \in ps
      BY <1>1, <2>4, LongestIs, Zenon
    <2> HIDE DEF p
    <2>6. qs \in SUBSET Active /\ Cardinality(qs) = n - 1
      BY <1>3, <2>2, <2>5, FS_RemoveElement, Zenon
    <2>7. Good(qs)
      <3>1. Cardinality(qs) \in 0..N /\ ~(n <= Cardinality(qs))
        BY <1>3, <2>6
      <3>2. Cardinality(qs) \notin T
        BY <2>1, <3>1, Zenon
      <3> QED
        BY <2>6, <3>1, <3>2, Zenon
    <2>8. p \in DOMAIN F[qs].entry
      BY <2>5, <2>7, Zenon
    <2>9. F[ps] = del_dev_func(F[qs], p, d)
      BY <2>3, <2>4, Zenon DEF p
    <2>10. /\ TableOK(del_dev_func(F[qs], p, d))
           /\ DOMAIN F[qs].entry \ {p} \subseteq DOMAIN del_dev_func(F[qs], p, d).entry
      BY <2>7, <2>8, DelDevKeepsTable, Zenon
    <2>11. Active \ ps \subseteq DOMAIN F[qs].entry \ {p}
      BY <2>5, <2>7, Zenon
    <2>12. SameTable(Table, del_dev_func(F[qs], p, d))
      <3>1. SameTable(F[qs], del_dev_func(F[qs], p, d))
        BY <2>7, <2>8, DelDevSame, Zenon
      <3> QED
        BY <2>7, <3>1, SameTransitive, Zenon
    <2>13. Good(ps)
      <3>1. Active \ ps \subseteq DOMAIN del_dev_func(F[qs], p, d).entry
        BY <2>10, <2>11, Zenon
      <3> QED
        BY <2>9, <2>10, <2>12, <3>1, Zenon
    <2> QED
      BY <2>2, <2>13, Zenon
  <1>5. Good(Active)
    BY <1>3, <1>4, Zenon
  <1> QED
    BY <1>2, <1>5, Zenon

-----------------------------------------------------------------------------
(* Actions *)

\* The prefixes that sockets bind to and rules are for are nodes.
LEMMA KeysAreNodes ==
  BindKeys \subseteq Nodes /\ RuleKeys \subseteq Nodes /\ DelKeys \subseteq Nodes
  <1>1. ASSUME NEW id \in RuleIds \cup BindIds, NEW n \in 1..Bits
        PROVE  SubSeq(id, 1, n) \in Nodes
    <2>1. Bits \in Nat /\ id \in [1..Bits -> {0, 1}]
      BY ServiceTableAssumption, Zenon
    <2>2. id \in Seq({0, 1}) /\ Len(id) = Bits
      BY <2>1
    <2> DEFINE r == SubSeq(id, 1, n)
    <2>3. r \in Seq({0, 1}) /\ Len(r) = n
      BY <2>1, <2>2
    <2> HIDE DEF r
    <2>4. Len(r) <= Bits
      BY <2>1, <2>3
    <2>5. r \in Nodes
      BY <2>3, <2>4, NodeIs, Zenon
    <2> QED
      BY <2>5, Zenon DEF r
  <1>2. ASSUME NEW k \in BindKeys PROVE k \in Nodes
    <2>1. PICK id \in BindIds \ {Zero}, bits \in 0..Bits :
             k = SubSeq(id, 1, IF bits = 0 THEN Bits ELSE bits)
      BY DEF BindKeys
    <2>2. (IF bits = 0 THEN Bits ELSE bits) \in 1..Bits
      BY ServiceTableAssumption
    <2> QED
      BY <1>1, <2>1, <2>2, Zenon
  <1>3. ASSUME NEW k \in RuleKeys PROVE k \in Nodes
    <2>1. PICK id \in RuleIds, bits \in 1..Bits :
             k = IF id = Zero THEN << >> ELSE SubSeq(id, 1, bits)
      BY DEF RuleKeys
    <2> QED
      BY <1>1, <2>1, PrefixOrder, Zenon
  <1>4. ASSUME NEW k \in DelKeys PROVE k \in Nodes
    <2>1. CASE k \in {<< >>}
      BY <2>1, PrefixOrder, Zenon
    <2>2. CASE k \in {SubSeq(id, 1, bits) : id \in RuleIds, bits \in 1..Bits}
      <3>1. PICK id \in RuleIds, bits \in 1..Bits : k = SubSeq(id, 1, bits)
        BY <2>2
      <3> QED
        BY <1>1, <3>1, Zenon
    <2> QED
      BY <2>1, <2>2 DEF DelKeys
  <1> QED
    BY <1>2, <1>3, <1>4, Zenon

\* What an action writes is the table of the next state.
LEMMA WrittenTable ==
  ASSUME NEW tb, TableOK(tb), SetTable(tb)
  PROVE  TableOK(Table)'
  <1>1. tb = [tree |-> tb.tree, entry |-> tb.entry, services |-> tb.services,
              entries |-> tb.entries]
    BY Zenon DEF TableOK
  <1>2. Table' = tb
    BY <1>1, Zenon DEF SetTable, Table
  <1>3. TableOK(Table')
    BY <1>2, Zenon
  <1> QED
    BY <1>3, Zenon DEF TableOK, TrieOK, Closed, NoDeadBranch, HasChildren, SetsOK, Falling,
                   OneSocket, Apart

\* serval_sock_unhash.
LEMMA UnhashKeepsTable ==
  ASSUME TableOK(Table), NEW s
  PROVE  TableOK(serval_sock_unhash(Table, s))
  <1>1. \/ serval_sock_unhash(Table, s) = DelSockTarget(Table, sock[s].key)
        \/ serval_sock_unhash(Table, s) = Table
    BY Zenon DEF serval_sock_unhash
  <1> QED
    BY <1>1, DelSockKeepsTable, Zenon

\* The socket calls keep the table and the sockets in order.
LEMMA SockKeeps ==
  ASSUME IInv, NEW s \in Socks, SockNext(s)
  PROVE  IInv'
  <1>1. TableOK(Table) /\ sock \in [Socks -> SockTypes] /\ dead \in BOOLEAN
    BY Zenon DEF IInv
  <1>2. TableOK(serval_sock_unhash(Table, s))
    BY <1>1, UnhashKeepsTable, Zenon
  <1>3. sock[s] \in SockTypes
    BY <1>1, Zenon
  <1>4. ASSUME NEW k \in BindKeys, serval_bind(s, k) PROVE IInv'
    <2> DEFINE r == service_table_add(serval_sock_unhash(Table, s), k, Local, SockTarget(s))
               h == sock[s].hashed \/ r.ok
    <2>1. k \in Nodes /\ SockTarget(s) \in Targets
      BY KeysAreNodes DEF Targets
    <2>2. TableOK(r.table)
      BY <1>2, <2>1, AddKeepsTable, Zenon
    <2>3. h \in BOOLEAN
      OBVIOUS
    <2>4. /\ SetTable(r.table) \/ SetTable(Table)
          /\ UNCHANGED dead
          /\ \/ sock' = [sock EXCEPT ![s] = [@ EXCEPT !.bound = TRUE, !.key = k,
                                                       !.hashed = h]]
             \/ sock' = [sock EXCEPT ![s].bound = TRUE]
      BY <1>4, Zenon DEF serval_bind
    <2> HIDE DEF r, h
    <2>5. TableOK(Table)'
      BY <1>1, <2>2, <2>4, WrittenTable, Zenon
    <2>6. /\ [sock[s] EXCEPT !.bound = TRUE, !.key = k, !.hashed = h] \in SockTypes
          /\ [sock[s] EXCEPT !.bound = TRUE] \in SockTypes
      BY <1>3, <2>1, <2>3, Zenon DEF SockTypes
    <2>7. sock' \in [Socks -> SockTypes]
      <3>1. CASE sock' = [sock EXCEPT ![s] = [@ EXCEPT !.bound = TRUE, !.key = k,
                                                        !.hashed = h]]
        BY <1>1, <2>6, <3>1, Zenon
      <3>2. CASE sock' = [sock EXCEPT ![s].bound = TRUE]
        BY <1>1, <2>6, <3>2, Zenon
      <3> QED
        BY <2>4, <3>1, <3>2, Zenon
    <2> QED
      BY <1>1, <2>4, <2>5, <2>7, Zenon DEF IInv
  <1>5. CASE serval_connect(s)
    <2>1. /\ SetTable(serval_sock_unhash(Table, s))
          /\ sock' = [sock EXCEPT ![s].state = "REQUEST", ![s].key = NoNode,
                                  ![s].hashed = TRUE]
          /\ UNCHANGED dead
      BY <1>5, Zenon DEF serval_connect
    <2>2. TableOK(Table)'
      BY <1>2, <2>1, WrittenTable, Zenon
    <2>3. [sock[s] EXCEPT !.state = "REQUEST", !.key = NoNode, !.hashed = TRUE] \in SockTypes
      BY <1>3, Zenon DEF SockTypes
    <2>4. sock' \in [Socks -> SockTypes]
      BY <1>1, <2>1, <2>3, Zenon
    <2> QED
      BY <1>1, <2>1, <2>2, <2>4, Zenon DEF IInv
  <1>6. CASE ConnectDone(s)
    <2>1. /\ SetTable(Table)
          /\ sock' = [sock EXCEPT ![s].state = "CONNECTED"]
          /\ UNCHANGED dead
      BY <1>6, Zenon DEF ConnectDone
    <2>2. TableOK(Table)'
      BY <1>1, <2>1, WrittenTable, Zenon
    <2>3. [sock[s] EXCEPT !.state = "CONNECTED"] \in SockTypes
      BY <1>3, Zenon DEF SockTypes
    <2>4. sock' \in [Socks -> SockTypes]
      BY <1>1, <2>1, <2>3, Zenon
    <2> QED
      BY <1>1, <2>1, <2>2, <2>4, Zenon DEF IInv
  <1>7. CASE serval_release(s)
    <2>1. /\ SetTable(serval_sock_unhash(Table, s))
          /\ sock' = [sock EXCEPT ![s] = [state |-> "RELEASED", bound |-> FALSE,
                                          key |-> NoNode, hashed |-> FALSE]]
          /\ UNCHANGED dead
      BY <1>7, Zenon DEF serval_release
    <2>2. TableOK(Table)'
      BY <1>2, <2>1, WrittenTable, Zenon
    <2>3. [state |-> "RELEASED", bound |-> FALSE, key |-> NoNode, hashed |-> FALSE]
             \in SockTypes
      BY Zenon DEF SockTypes
    <2>4. sock' \in [Socks -> SockTypes]
      BY <1>1, <2>1, <2>3, Zenon
    <2> QED
      BY <1>1, <2>1, <2>2, <2>4, Zenon DEF IInv
  <1> QED
    BY <1>4, <1>5, <1>6, <1>7, Zenon DEF SockNext

\* A socket is found at a place of an entry when one of its lists has it.
LEMMA PlacesHold ==
  ASSUME NEW sets, NEW t
  PROVE  (\E x \in Places(sets) : At(sets, x) = t) <=> Holds(sets, t)
  <1>1. ASSUME NEW x \in Places(sets), At(sets, x) = t PROVE Holds(sets, t)
    <2>1. PICK i \in 1..Len(sets) : x \in {i} \X (1..Len(sets[i].list))
      BY Zenon DEF Places
    <2>2. PICK j \in 1..Len(sets[i].list) : x = <<i, j>>
      BY <2>1
    <2>3. sets[i].list[j] = t
      BY <1>1, <2>2, Zenon DEF At
    <2> QED
      BY <2>3, Zenon DEF Holds, Lists
  <1>2. ASSUME Holds(sets, t) PROVE \E x \in Places(sets) : At(sets, x) = t
    <2>1. PICK i \in 1..Len(sets) : Lists(sets[i].list, t)
      BY <1>2, Zenon DEF Holds
    <2>2. PICK j \in 1..Len(sets[i].list) : sets[i].list[j] = t
      BY <2>1, Zenon DEF Lists
    <2>3. <<i, j>> \in Places(sets) /\ At(sets, <<i, j>>) = t
      BY <2>2 DEF Places, At
    <2> QED
      BY <2>3, Zenon
  <1> QED
    BY <1>1, <1>2, Zenon

\* No step has changed which sockets are in which entry.
SocketsKept == \A p \in Nodes : SocketsAt(p)' = SocketsAt(p)

\* An action that writes a table with the same sockets.
LEMMA WrittenSame ==
  ASSUME NEW tb, SetTable(tb), SameTable(Table, tb)
  PROVE  SocketsKept
  <1> DEFINE S(e, p) == IF p \notin DOMAIN e THEN {}
                        ELSE {t \in {At(e[p], x) : x \in Places(e[p])} : IsSock(t)}
  <1> SUFFICES ASSUME NEW p PROVE SocketsAt(p)' = SocketsAt(p)
    BY Zenon DEF SocketsKept
  <1>1. SocketsAt(p) = S(entry, p) /\ SocketsAt(p)' = S(entry', p)
    BY Zenon DEF SocketsAt, Active, Places, At, IsSock
  <1>2. ASSUME NEW e, NEW t
        PROVE  t \in S(e, p) <=> p \in DOMAIN e /\ IsSock(t) /\ Holds(e[p], t)
    <2>1. (\E x \in Places(e[p]) : At(e[p], x) = t) <=> Holds(e[p], t)
      BY PlacesHold, Zenon
    <2> QED
      BY <2>1, Zenon
  <1>3. entry' = tb.entry /\ Table.entry = entry
    BY Zenon DEF SetTable, Table
  <1> HIDE DEF S
  <1>4. ASSUME NEW t PROVE t \in S(entry, p) <=> t \in S(entry', p)
    <2>1. IsSock(t) => (HasTargetAt(Table, p, t) <=> HasTargetAt(tb, p, t))
      BY Zenon DEF SameTable
    <2>2. t \in S(entry, p) <=> p \in DOMAIN entry /\ IsSock(t) /\ Holds(entry[p], t)
      BY <1>2, Zenon
    <2>3. t \in S(tb.entry, p) <=> p \in DOMAIN tb.entry /\ IsSock(t) /\ Holds(tb.entry[p], t)
      BY <1>2, Zenon
    <2> QED
      BY <1>3, <2>1, <2>2, <2>3, Zenon DEF HasTargetAt
  <1>5. S(entry, p) = S(entry', p)
    <2>1. ASSUME NEW A, NEW B, \A t : t \in A <=> t \in B PROVE A = B
      BY <2>1, Zenon
    <2> QED
      BY <1>4, <2>1, Zenon
  <1> QED
    BY <1>1, <1>5, Zenon

\* A control message or a device event that leaves an orderly table keeps the
\* invariant.
LEMMA ControlKeeps ==
  ASSUME IInv, NEW tb, TableOK(tb), SetTable(tb), UNCHANGED sock, dead' \in BOOLEAN
  PROVE  IInv'
  <1>1. TableOK(Table)'
    BY WrittenTable, Zenon
  <1> QED
    BY <1>1, Zenon DEF IInv

\* ctrl_handle_add_service_msg.
LEMMA AddServiceKeeps ==
  ASSUME IInv, NEW k \in RuleKeys, NEW prio \in Priorities, NEW a \in Addrs, NEW d \in Devs,
         AddService(k, prio, a, d)
  PROVE  IInv' /\ SocketsKept
  <1>1. k \in Nodes /\ ForwardTarget(a, d) \in Targets /\ prio \in Priorities \cup {Local}
    BY KeysAreNodes DEF Targets
  <1>2. TableOK(service_table_add(Table, k, prio, ForwardTarget(a, d)).table)
    BY <1>1, AddKeepsTable, Zenon DEF IInv
  <1>3. SameTable(Table, service_table_add(Table, k, prio, ForwardTarget(a, d)).table)
    <2>1. ~IsSock(ForwardTarget(a, d))
      BY Zenon DEF IsSock, ForwardTarget
    <2> QED
      BY <1>1, <2>1, AddRuleSame, Zenon DEF IInv
  <1>4. IInv'
    BY <1>2, ControlKeeps, Zenon DEF AddService, IInv
  <1>5. SocketsKept
    BY <1>3, WrittenSame, Zenon DEF AddService
  <1> QED
    BY <1>4, <1>5, Zenon

\* ctrl_handle_del_service_msg.
LEMMA DelServiceKeeps ==
  ASSUME IInv, NEW k \in DelKeys, NEW a, DelService(k, a)
  PROVE  IInv' /\ SocketsKept
  <1> DEFINE match == {q \in Active : RulePlaces(entry[q]) # {}}
             p == bst_find_longest_prefix_match(Table, k, match)
             at == RulePlacesFor(entry[p], a)
             x == IF p # k THEN NoNode ELSE FirstPlace(at)
             sets == DropPlace(entry[p], x)
  <1>1. /\ x # NoNode /\ SetTable(Update(Table, p, sets)) /\ UNCHANGED sock
        /\ MayDie(sets = << >> /\ ReadsFreedRoot(Table, p))
    BY Zenon DEF DelService
  <1>2. TableOK(Table) /\ Active = DOMAIN Table.entry /\ Table.entry = entry
    BY Zenon DEF IInv, Active, Table
  <1>3. p \in match \cup {NoNode}
    <2>1. match \subseteq DOMAIN Table.entry
      BY <1>2, Zenon
    <2> HIDE DEF match
    <2> QED
      BY <1>2, <2>1, FoundIsActive, Zenon
  <1> HIDE DEF p
  <1>4. at # {} /\ x = FirstPlace(at)
    BY <1>1, Zenon DEF FirstPlace
  <1>5. at \subseteq Places(entry[p])
    BY Zenon DEF RulePlacesFor, RulePlaces
  <1>6. x \in Places(entry[p])
    <2> HIDE DEF at, x
    <2> QED
      BY <1>4, <1>5, FirstIsPlace, Zenon
  <1>7. p \in Active
    <2>1. p = k
      BY <1>1, Zenon
    <2>2. p # NoNode
      BY <2>1, KeysAreNodes, NoNodeIs, Zenon
    <2> QED
      BY <1>3, <2>2, Zenon
  <1>8. ~IsSock(At(entry[p], x))
    <2>1. x \in at
      <3> HIDE DEF at, x
      <3> QED
        BY <1>4, <1>5, FirstIsPlace, Zenon
    <2>2. \A y \in at : ~IsSock(At(entry[p], y))
      BY Zenon DEF RulePlacesFor, RulePlaces, IsSock, IsForward
    <2> QED
      BY <2>1, <2>2, Zenon
  <1> HIDE DEF x, match
  <1>9. SetsOK(sets) /\ SameSockets(entry[p], sets)
    BY <1>2, <1>6, <1>7, <1>8, DropKeepsSets, DropSame, Zenon DEF TableOK
  <1> HIDE DEF sets
  <1>10. TableOK(Update(Table, p, sets)) /\ SameTable(Table, Update(Table, p, sets))
    BY <1>2, <1>7, <1>9, UpdateKeepsTable, UpdateSame, Zenon
  <1>11. dead' \in BOOLEAN
    BY <1>1, Zenon DEF MayDie, IInv
  <1>12. IInv'
    BY <1>1, <1>10, <1>11, ControlKeeps, Zenon
  <1>13. SocketsKept
    BY <1>1, <1>10, WrittenSame, Zenon
  <1> QED
    BY <1>12, <1>13, Zenon

\* A rule of an entry, with another address, is a rule.
LEMMA ReaddressedRule ==
  ASSUME NEW sets, SetsOK(sets), NEW a, NEW x \in RulePlacesFor(sets, a), NEW b \in Addrs
  PROVE  LET t == [At(sets, x) EXCEPT !.dst = b] IN t \in Targets /\ ~IsSock(t)
  <1>1. x \in Places(sets) /\ IsForward(At(sets, x))
    BY Zenon DEF RulePlacesFor, RulePlaces
  <1>2. PICK i \in 1..Len(sets) : x \in {i} \X (1..Len(sets[i].list))
    BY <1>1, Zenon DEF Places
  <1>3. PICK j \in 1..Len(sets[i].list) : x = <<i, j>>
    BY <1>2
  <1>4. At(sets, x) = sets[i].list[j]
    BY <1>3, Zenon DEF At
  <1>5. sets[i].list \in Seq(Targets)
    BY SetTypes, Zenon DEF SetsOK
  <1>6. At(sets, x) \in Targets
    BY <1>4, <1>5, ElementOfSeq, Zenon
  <1>7. PICK c \in Addrs, d \in Devs : At(sets, x) = ForwardTarget(c, d)
    <2> DEFINE u == At(sets, x)
    <2>1. u \in Targets /\ u.type = "FORWARD"
      BY <1>1, <1>6, Zenon DEF IsForward
    <2> HIDE DEF u
    <2>2. ~ \E s \in Socks : u = SockTarget(s)
      BY <2>1 DEF SockTarget
    <2>3. \E c \in Addrs, d \in Devs : u = ForwardTarget(c, d)
      BY <2>1, <2>2 DEF Targets
    <2> QED
      BY <2>3, Zenon DEF u
  <1>8. [At(sets, x) EXCEPT !.dst = b] = ForwardTarget(b, d)
    BY <1>7 DEF ForwardTarget
  <1>9. ForwardTarget(b, d) \in Targets /\ ~IsSock(ForwardTarget(b, d))
    BY DEF Targets, IsSock, ForwardTarget
  <1> QED
    BY <1>8, <1>9, Zenon

\* ctrl_handle_mod_service_msg.
LEMMA ModServiceKeeps ==
  ASSUME IInv, NEW k \in RuleKeys, NEW a \in Addrs, NEW b \in Addrs, NEW prio \in Priorities,
         ModService(k, a, b, prio)
  PROVE  IInv' /\ SocketsKept
  <1> DEFINE at == RulePlacesFor(entry[k], a)
             x == IF bst_find_longest_prefix(Table, k) # k THEN NoNode ELSE FirstPlace(at)
             t == [At(entry[k], x) EXCEPT !.dst = b]
             sets == IF entry[k][x[1]].priority = prio
                     THEN [entry[k] EXCEPT ![x[1]].list[x[2]] = t]
                     ELSE AddToSets(DropPlace(entry[k], x), prio, t)
             tb == [Table EXCEPT !.entry[k] = sets]
  <1>1. TableOK(Table) /\ Active = DOMAIN Table.entry /\ Table.entry = entry
    BY Zenon DEF IInv, Active, Table
  <1>2. x # NoNode
    BY Zenon DEF ModService
  <1>3. UNCHANGED <<tree, services, entries, sock, dead>>
    BY Zenon DEF ModService
  <1>4. entry' = [entry EXCEPT ![k] = sets]
    BY Zenon DEF ModService
  <1>5. bst_find_longest_prefix(Table, k) = k /\ at # {} /\ x = FirstPlace(at)
    BY <1>2, Zenon DEF FirstPlace
  <1>6. k \in Active
    BY <1>1, <1>5, KeysAreNodes, FindIs, Zenon
  <1>7. at \subseteq Places(entry[k])
    BY Zenon DEF RulePlacesFor, RulePlaces
  <1> HIDE DEF x
  <1>8. x \in at
    BY <1>5, <1>7, FirstIsPlace, Zenon
  <1>9. SetsOK(entry[k])
    BY <1>1, <1>6, Zenon DEF TableOK
  <1>10. t \in Targets /\ ~IsSock(t)
    BY <1>8, <1>9, ReaddressedRule, Zenon
  <1>11. x \in Places(entry[k])
    BY <1>7, <1>8, Zenon
  <1>12. ~IsSock(At(entry[k], x))
    BY <1>8, Zenon DEF RulePlacesFor, RulePlaces, IsSock, IsForward
  <1> HIDE DEF at, t
  <1>13. SetsOK(sets) /\ SameSockets(entry[k], sets)
    <2>1. CASE entry[k][x[1]].priority = prio
      <3>1. PICK i \in 1..Len(entry[k]) : x \in {i} \X (1..Len(entry[k][i].list))
        BY <1>11, Zenon DEF Places
      <3>2. x[1] = i /\ x[2] \in 1..Len(entry[k][i].list)
        BY <3>1, Zenon
      <3>3. ~IsSock(entry[k][i].list[x[2]])
        BY <1>12, <3>2, Zenon DEF At
      <3>4. /\ SetsOK([entry[k] EXCEPT ![i].list[x[2]] = t])
            /\ SameSockets(entry[k], [entry[k] EXCEPT ![i].list[x[2]] = t])
        BY <1>9, <1>10, <3>2, <3>3, ReplaceKeepsSets, ReplaceSame, Zenon
      <3> QED
        BY <2>1, <3>2, <3>4, Zenon
    <2>2. CASE entry[k][x[1]].priority # prio
      <3>1. SetsOK(DropPlace(entry[k], x))
        BY <1>9, <1>11, DropKeepsSets, Zenon
      <3>2. NoRival(DropPlace(entry[k], x), t)
        BY <1>10, Zenon DEF NoRival
      <3>3. SetsOK(AddToSets(DropPlace(entry[k], x), prio, t))
        BY <1>10, <3>1, <3>2, AddKeepsSets, Zenon
      <3>4. SameSockets(entry[k], AddToSets(DropPlace(entry[k], x), prio, t))
        <4>1. SameSockets(entry[k], DropPlace(entry[k], x))
          BY <1>9, <1>11, <1>12, DropSame, Zenon
        <4>2. SameSockets(DropPlace(entry[k], x), AddToSets(DropPlace(entry[k], x), prio, t))
          BY <1>10, <3>1, AddSame, Zenon
        <4> QED
          BY <4>1, <4>2, Zenon DEF SameSockets
      <3> QED
        BY <2>2, <3>3, <3>4, Zenon
    <2> QED
      BY <2>1, <2>2, Zenon
  <1> HIDE DEF sets
  <1>14. TableOK(tb) /\ SameTable(Table, tb)
    BY <1>1, <1>6, <1>13, EntryKeepsTable, EntrySame, Zenon
  <1>15. SetTable(tb)
    BY <1>3, <1>4, Zenon DEF SetTable, Table
  <1> HIDE DEF tb
  <1>16. UNCHANGED sock /\ dead' \in BOOLEAN
    BY <1>3, Zenon DEF IInv
  <1>17. IInv'
    BY <1>14, <1>15, <1>16, ControlKeeps, Zenon
  <1>18. SocketsKept
    BY <1>14, <1>15, WrittenSame, Zenon
  <1> QED
    BY <1>17, <1>18, Zenon

\* service_del_dev_all.
LEMMA DelDevAllKeeps ==
  ASSUME IInv, NEW d, DelDevAll(d)
  PROVE  IInv' /\ SocketsKept
  <1> DEFINE tb == service_del_dev_all(d)
  <1>1. TableOK(tb) /\ SameTable(Table, tb)
    BY WalkKeepsTable, Zenon DEF IInv
  <1>2. SetTable(tb) /\ UNCHANGED sock
    BY Zenon DEF DelDevAll
  <1>3. dead' \in BOOLEAN
    BY Zenon DEF DelDevAll, MayDie, IInv
  <1> HIDE DEF tb
  <1>4. IInv'
    BY <1>1, <1>2, <1>3, ControlKeeps, Zenon
  <1>5. SocketsKept
    BY <1>1, <1>2, WrittenSame, Zenon
  <1> QED
    BY <1>4, <1>5, Zenon

\* Control messages and device events.
LEMMA ControlNextKeeps ==
  ASSUME IInv, ControlNext
  PROVE  IInv' /\ SocketsKept
  <1>1. ASSUME NEW k \in RuleKeys, NEW prio \in Priorities, NEW a \in Addrs,
               NEW d \in Devs, AddService(k, prio, a, d)
        PROVE  IInv' /\ SocketsKept
    BY <1>1, AddServiceKeeps, Zenon
  <1>2. ASSUME NEW k \in DelKeys, NEW a \in Addrs, DelService(k, a) PROVE IInv' /\ SocketsKept
    BY <1>2, DelServiceKeeps, Zenon
  <1>3. ASSUME NEW k \in RuleKeys, NEW a \in Addrs, NEW b \in Addrs,
               NEW prio \in Priorities, ModService(k, a, b, prio)
        PROVE  IInv' /\ SocketsKept
    BY <1>3, ModServiceKeeps, Zenon
  <1>4. ASSUME NEW d \in Devs, DelDevAll(d) PROVE IInv' /\ SocketsKept
    BY <1>4, DelDevAllKeeps, Zenon
  <1> QED
    BY <1>1, <1>2, <1>3, <1>4, Zenon DEF ControlNext

\* The empty table is in order.
LEMMA InitKeeps == Init => IInv
  <1> SUFFICES ASSUME Init PROVE IInv
    OBVIOUS
  <1>1. /\ Table.tree = {} /\ Table.entry = << >> /\ Table.services = 0 /\ Table.entries = 0
        /\ Table = [tree |-> Table.tree, entry |-> Table.entry,
                    services |-> Table.services, entries |-> Table.entries]
    BY Zenon DEF Init, Table
  <1>2. DOMAIN << >> = {}
    OBVIOUS
  <1>3. TrieOK({}, {}, 0, 0)
    BY FS_EmptySet, Zenon DEF TrieOK, Closed, NoDeadBranch
  <1>4. TableOK(Table)
    BY <1>1, <1>2, <1>3, Zenon DEF TableOK
  <1>5. sock \in [Socks -> SockTypes] /\ dead \in BOOLEAN
    BY Zenon DEF Init, SockTypes
  <1> QED
    BY <1>4, <1>5, Zenon DEF IInv

\* The inductive invariant of the service table: trie, counters and target sets
\* are in order after every bind, connect, close, control message and device
\* event, whatever was done before.
THEOREM Inductive == Spec => []IInv
  <1>1. Init => IInv
    BY InitKeeps, Zenon
  <1>2. IInv /\ [Next]_vars => IInv'
    <2> SUFFICES ASSUME IInv, [Next]_vars PROVE IInv'
      OBVIOUS
    <2>1. CASE UNCHANGED vars
      <3>1. SetTable(Table)
        BY <2>1, Zenon DEF vars, SetTable, Table
      <3>2. TableOK(Table) /\ UNCHANGED sock /\ dead' \in BOOLEAN
        BY <2>1, Zenon DEF vars, IInv
      <3> QED
        BY <3>1, <3>2, ControlKeeps, Zenon
    <2>2. ASSUME NEW s \in Socks, SockNext(s) PROVE IInv'
      BY <2>2, SockKeeps, Zenon
    <2>3. CASE ControlNext
      BY <2>3, ControlNextKeeps, Zenon
    <2> QED
      BY <2>1, <2>2, <2>3, Zenon DEF Next
  <1> QED
    BY <1>1, <1>2, PTL DEF Spec

\* The walk down the trie (bst_node_find_longest_prefix) finds for every
\* serviceID the longest active prefix, and the longest with a socket, as a
\* search of all entries would: no history of insertions and releases leaves a
\* hole on the way to an entry.
THEOREM LookupFinds == Spec => []LookupIsLongestPrefix
  <1>1. IInv => LookupIsLongestPrefix
    <2> DEFINE withSock == {p \in Active : SockPlaces(entry[p]) # {}}
    <2> SUFFICES ASSUME IInv, NEW id \in [1..Bits -> {0, 1}]
                 PROVE  /\ bst_find_longest_prefix(Table, id)
                               = Longest({p \in Active : IsPrefix(p, id)})
                        /\ bst_find_longest_prefix_match(Table, id, withSock)
                               = Longest({p \in withSock : IsPrefix(p, id)})
      BY Zenon DEF LookupIsLongestPrefix
    <2>1. /\ Table.tree \subseteq Nodes /\ Closed(Table.tree)
          /\ Active = DOMAIN Table.entry /\ Active \subseteq Table.tree
      BY Zenon DEF IInv, TableOK, TrieOK, Active, Table
    <2>2. withSock \subseteq Active
      OBVIOUS
    <2> HIDE DEF withSock
    <2>3. Visited(Table, id) = {p \in Table.tree : IsPrefix(p, id)}
      BY <2>1, VisitedIs, Zenon
    <2>4. /\ Visited(Table, id) \cap Active = {p \in Active : IsPrefix(p, id)}
          /\ Visited(Table, id) \cap withSock = {p \in withSock : IsPrefix(p, id)}
      BY <2>1, <2>2, <2>3, Zenon
    <2> QED
      BY <2>1, <2>4, Zenon DEF bst_find_longest_prefix, bst_find_longest_prefix_match
  <1> QED
    BY <1>1, Inductive, PTL

\* Trie, counters, target sets and sockets stay consistent with one another: no
\* dead branch in the trie, srvtable.services and tree.entries count the
\* entries, sets have falling priorities and are not empty, and no entry has two
\* sockets of one protocol.
THEOREM TableStays == Spec => []TableConsistent
  <1>1. IInv => TableConsistent
    <2> SUFFICES ASSUME IInv PROVE TableConsistent
      OBVIOUS
    <2>1. /\ TrieOK(tree, Active, services, entries)
          /\ \A p \in Active : SetsOK(entry[p])
          /\ sock \in [Socks -> SockTypes] /\ dead \in BOOLEAN
      BY Zenon DEF IInv, TableOK, Table, Active
    <2>2. TypeOK
      <3>1. Active \subseteq Nodes /\ tree \subseteq Nodes /\ services \in Nat /\ entries \in Nat
        BY <2>1, FS_CardinalityType, Zenon DEF TrieOK
      <3>2. \A p \in Active : entry[p] \in Seq(TargetSets)
        BY <2>1, Zenon DEF SetsOK
      <3> QED
        BY <2>1, <3>1, <3>2, Zenon DEF TypeOK, SockTypes
    <2>3. TrieShape
      <3>1. /\ tree \subseteq Nodes /\ Active \subseteq tree
            /\ Closed(tree) /\ NoDeadBranch(tree, Active)
        BY <2>1, Zenon DEF TrieOK
      <3>2. \A p \in tree : Prefixes(p) \subseteq tree
        BY <3>1, PrefixesAre, Zenon DEF Closed
      <3> QED
        BY <3>1, <3>2, Zenon DEF TrieShape, NoDeadBranch
    <2>4. Counted
      BY <2>1, Zenon DEF TrieOK, Counted
    <2>5. SetsOrdered
      BY <2>1, Zenon DEF SetsOK, Falling, SetsOrdered
    <2>6. OneSocketPerProtocol
      <3> SUFFICES ASSUME NEW p \in Active, NEW x \in Places(entry[p]),
                          NEW y \in Places(entry[p]), x # y,
                          IsSock(At(entry[p], x)), IsSock(At(entry[p], y))
                   PROVE  Protocol[At(entry[p], x).sk] # Protocol[At(entry[p], y).sk]
        BY Zenon DEF OneSocketPerProtocol
      <3>1. PICK i \in 1..Len(entry[p]) : x \in {i} \X (1..Len(entry[p][i].list))
        BY Zenon DEF Places
      <3>2. PICK a \in 1..Len(entry[p][i].list) : x = <<i, a>>
        BY <3>1
      <3>3. PICK j \in 1..Len(entry[p]) : y \in {j} \X (1..Len(entry[p][j].list))
        BY Zenon DEF Places
      <3>4. PICK b \in 1..Len(entry[p][j].list) : y = <<j, b>>
        BY <3>3
      <3>5. /\ At(entry[p], x) = entry[p][i].list[a]
            /\ At(entry[p], y) = entry[p][j].list[b]
            /\ i # j \/ a # b
        BY <3>2, <3>4, Zenon DEF At
      <3>6. OneSocket(entry[p])
        BY <2>1, Zenon DEF SetsOK
      <3>7. Apart(entry[p], i, j, a, b)
        BY <3>6, Zenon DEF OneSocket
      <3> QED
        BY <3>5, <3>7, Zenon DEF Apart
    <2> QED
      BY <2>2, <2>3, <2>4, <2>5, <2>6, Zenon DEF TableConsistent
  <1> QED
    BY <1>1, Inductive, PTL

\* Only sockets change which sockets are in the table: neither a control message
\* that adds, deletes or modifies a rule nor a device that goes away takes one
\* out, puts one in or moves one to another entry, whatever the priorities of
\* the rules and whichever sets and entries go with them.
THEOREM SocketsStay == Spec => ControlLeavesSockets
  <1> DEFINE A == (\E p \in Nodes : SocketsAt(p)' # SocketsAt(p)) => \E s \in Socks : SockNext(s)
  <1>1. IInv /\ [Next]_vars => [A]_vars
    <2> SUFFICES ASSUME IInv, Next PROVE A
      OBVIOUS
    <2>1. CASE ControlNext
      <3>1. SocketsKept
        BY <2>1, ControlNextKeeps, Zenon
      <3> QED
        BY <3>1, Zenon DEF SocketsKept
    <2>2. CASE \E s \in Socks : SockNext(s)
      BY <2>2, Zenon
    <2> QED
      BY <2>1, <2>2, Zenon DEF Next
  <1> QED
    BY <1>1, Inductive, PTL DEF Spec, ControlLeavesSockets

=============================================================================
