---------------------------- MODULE ServiceTable ----------------------------
(***************************************************************************)
(* The service table of the stack: the bitwise trie of stack/bst.c, the    *)
(* service entries of stack/service.c that hang off its nodes, the sockets *)
(* that enter and leave it (serval_sock_hash, serval_sock_unhash, called   *)
(* by bind, connect and close), and the control messages and device events *)
(* that add, change and remove forwarding rules.                           *)
(*                                                                         *)
(* A serviceID is a sequence of Bits bits, a node of the trie the prefix   *)
(* it stands for.  Every operation holds the lock of the table, or of the  *)
(* entry it changes, while it changes anything, and is one step.  The      *)
(* order of the locks, DELAY and DROP rules, weights and the multicast     *)
(* flag are left out: see the README.                                      *)
(***************************************************************************)
EXTENDS Integers, Sequences, FiniteSets, SeqOps

CONSTANTS
    Bits,        \* length of a serviceID (SERVICE_ID_MAX_PREFIX_BITS)
    RuleIds,     \* the serviceIDs of forwarding rules
    BindIds,     \* the serviceIDs that sockets bind to
    Socks,       \* sockets
    Protocol,    \* Protocol[s]: sk_protocol
    Addrs,       \* addresses of other hosts
    Devs,        \* network devices
    Priorities,  \* priorities of forwarding rules
    Local,       \* LOCAL_SERVICE_DEFAULT_PRIORITY
    MaxTargets   \* forwarding rules in the table at any time (bound)

ASSUME ServiceTableAssumption ==
    /\ Bits \in Nat \ {0}
    /\ RuleIds \cup BindIds \subseteq [1..Bits -> {0, 1}]
    /\ Priorities \cup {Local} \subseteq Nat
    /\ MaxTargets \in Nat

VARIABLES
    tree,      \* the nodes of the trie; the root is << >>
    entry,     \* entry[p]: target_set of the service entry of active node p
    services,  \* srvtable.services
    entries,   \* tree.entries
    sock,      \* sock[s]: its state (INIT stands for LISTEN too, REQUEST for
               \* CLOSED after a connect that failed), the flag BOUND,
               \* the serviceID prefix it is hashed under (none while it has
               \* no hash_key, or that of its flow) and the flag HASHED
    dead       \* the process has crashed

vars == <<tree, entry, services, entries, sock, dead>>

Nodes == UNION {[1..n -> {0, 1}] : n \in 0..Bits}
Zero == [i \in 1..Bits |-> 0]

\* The nodes with a service entry ("private" is set).
Active == DOMAIN entry

ForwardTarget(a, d) == [type |-> "FORWARD", dst |-> a, oif |-> d]
SockTarget(s) == [type |-> "DEMUX", sk |-> s]
Targets == {ForwardTarget(a, d) : a \in Addrs, d \in Devs}
           \cup {SockTarget(s) : s \in Socks}
TargetSets == [priority : Priorities \cup {Local}, list : Seq(Targets)]

\* The places <<i, j>> of an entry, target j of set i, and what is there.
Places(sets) == UNION {{i} \X (1..Len(sets[i].list)) : i \in 1..Len(sets)}
At(sets, x) == sets[x[1]].list[x[2]]

IsSock(t) == t.type = "DEMUX"
IsForward(t) == t.type = "FORWARD"

-----------------------------------------------------------------------------
\* The trie (bst.c).  A table tb is a record of tree, entry, services and
\* entries; an operation maps one table to the next.

Table == [tree |-> tree, entry |-> entry, services |-> services,
          entries |-> entries]

\* The nodes that bst_node_find_longest_prefix passes on its way down.
Visited(tb, k) ==
    {p \in tb.tree : IsPrefix(p, k) /\ Prefixes(p) \subseteq tb.tree}

\* Not a node, and not a place in an entry.
NoNode == <<-1>>

Longest(ps) == IF ps = {} THEN NoNode
               ELSE CHOOSE p \in ps : \A q \in ps : Len(q) <= Len(p)

\* Mutant: only the node where the way down ends is looked at.
MutFindLongestPrefixMatch(tb, k, match) ==
    LET n == Longest(Visited(tb, k)) IN IF n \in match THEN n ELSE NoNode

\* match is the set of active nodes that the function passed in accepts.
bst_find_longest_prefix_match(tb, k, match) == Longest(Visited(tb, k) \cap match)

bst_find_longest_prefix(tb, k) ==
    bst_find_longest_prefix_match(tb, k, DOMAIN tb.entry)

\* The nodes after bst_insert_prefix; an empty trie gets a new root.
bst_insert_prefix(tb, k) ==
    (IF tb.entries = 0 THEN {<< >>} ELSE tb.tree)
        \cup Prefixes(k)

HasChildren(tr, n) == \E p \in tr : p # n /\ IsPrefix(n, p)

\* The nodes after bst_node_release(n), where act are the nodes that are still
\* active.  A node with children stays; otherwise it goes, and with it the
\* ancestors below the root that are neither active nor have another child.
bst_node_release(tr, act, n) ==
    IF HasChildren(tr, n) THEN tr
    ELSE tr \ {p \in tr :
                  \/ p = n
                  \/ /\ p # << >>
                     /\ IsPrefix(p, n)
                     /\ \A q \in tr : IsPrefix(p, q) =>
                            IsPrefix(q, n) /\ (q = n \/ q \notin act)}

\* bst_node_release looks at the root again after it has freed it.
ReadsFreedRoot(tb, n) == n = << >> /\ ~HasChildren(tb.tree, n)

-----------------------------------------------------------------------------
\* Service entries (service.c).

\* t joins the set of its priority, which is made if there is none; sets are
\* kept by falling priority (service_entry_insert_target_set).
AddToSets(sets, prio, t) ==
    IF \E i \in 1..Len(sets) : sets[i].priority = prio
    THEN [i \in 1..Len(sets) |->
             IF sets[i].priority = prio
             THEN [sets[i] EXCEPT !.list = Append(@, t)] ELSE sets[i]]
    ELSE LET higher == {i \in 1..Len(sets) : sets[i].priority >= prio}
         IN  InsertAt(sets, Cardinality(higher) + 1,
                      [priority |-> prio, list |-> <<t>>])

\* The places of sockets, of rules, and of rules for address a.
SockPlaces(sets) == {x \in Places(sets) : IsSock(At(sets, x))}
RulePlaces(sets) == {x \in Places(sets) : IsForward(At(sets, x))}
RulePlacesFor(sets, a) == {x \in RulePlaces(sets) : At(sets, x).dst = a}

\* The first of the places at, set after set.
FirstPlace(at) ==
    IF at = {} THEN NoNode
    ELSE CHOOSE x \in at : \A y \in at :
             x[1] < y[1] \/ (x[1] = y[1] /\ x[2] <= y[2])

\* The sets without the target at place x, and without its set if that was all.
DropPlace(sets, x) ==
    IF Len(sets[x[1]].list) = 1 THEN RemoveAt(sets, x[1])
    ELSE [sets EXCEPT ![x[1]].list = RemoveAt(@, x[2])]

\* __service_entry_get_target finds the rule t, or a socket of t's protocol.
HasTarget(sets, t) ==
    IF IsForward(t) THEN RulePlacesFor(sets, t.dst) # {}
    ELSE \E x \in SockPlaces(sets) : Protocol[At(sets, x).sk] = Protocol[t.sk]

\* Mutant: the entry is not searched for a socket of the same protocol.
MutCanAdd(sets, t) ==
    /\ sets # << >> =>
          \A i \in 1..Len(sets[1].list) :
              LET u == sets[1].list[i]
              IN  ~(u.type = t.type /\ (IsForward(t) => u.dst = t.dst))
    /\ IsForward(t) => ~HasTarget(sets, t)

\* service_table_add accepts t in an existing entry: the first set holds no
\* such rule, and no socket at all if t is one; no set holds the same rule or
\* a socket of the same protocol.
CanAdd(sets, t) ==
    /\ sets # << >> =>
          \A i \in 1..Len(sets[1].list) :
              LET u == sets[1].list[i]
              IN  ~(u.type = t.type /\ (IsForward(t) => u.dst = t.dst))
    /\ ~HasTarget(sets, t)

\* Entry p gets sets; it is released when none are left.
Update(tb, p, sets) ==
    IF sets # << >> THEN [tb EXCEPT !.entry[p] = sets]
    ELSE LET left == DOMAIN tb.entry \ {p}
         IN  [tree |-> bst_node_release(tb.tree, left, p),
              entry |-> [q \in left |-> tb.entry[q]],
              services |-> tb.services - 1,
              entries |-> tb.entries - 1]

\* service_table_add: whether it succeeds, and the table after it.
service_table_add(tb, k, prio, t) ==
    IF bst_find_longest_prefix(tb, k) = k
    THEN IF CanAdd(tb.entry[k], t)
         THEN [ok |-> TRUE,
               table |-> [tb EXCEPT !.entry[k] = AddToSets(@, prio, t)]]
         ELSE [ok |-> FALSE, table |-> tb]
    ELSE [ok |-> TRUE,
          table |-> [tree |-> bst_insert_prefix(tb, k),
                     entry |-> [q \in DOMAIN tb.entry \cup {k} |->
                                   IF q = k THEN AddToSets(<< >>, prio, t)
                                   ELSE tb.entry[q]],
                     services |-> tb.services + 1,
                     entries |-> tb.entries + 1]]

\* service_del_target as serval_sock_unhash calls it: the first socket found
\* in the entry that is the longest prefix of k goes, whichever it is.
DelSockTarget(tb, k) ==
    LET p == bst_find_longest_prefix(tb, k)
        x == IF p = NoNode THEN NoNode ELSE FirstPlace(SockPlaces(tb.entry[p]))
    IN  IF x = NoNode THEN tb ELSE Update(tb, p, DropPlace(tb.entry[p], x))

-----------------------------------------------------------------------------
\* Sockets.

SetTable(tb) ==
    /\ tree' = tb.tree
    /\ entry' = tb.entry
    /\ services' = tb.services
    /\ entries' = tb.entries

\* serval_sock_unhash as the table sees it: a socket that is neither INIT nor
\* LISTEN is only taken out of the table of connected sockets.
serval_sock_unhash(tb, s) ==
    IF sock[s].state = "INIT" /\ sock[s].key # NoNode
    THEN DelSockTarget(tb, sock[s].key) ELSE tb

\* The prefixes to bind to: not of the null serviceID, and no bits are all bits.
BindKeys == {SubSeq(id, 1, IF bits = 0 THEN Bits ELSE bits) :
                id \in BindIds \ {Zero}, bits \in 0..Bits}

\* serval_bind (and serval_autobind).  A socket that is bound leaves its old
\* serviceID; hash_key_len is set whether the new one is free or not, the flag
\* HASHED only if it is.  The flag is what bind goes by: it fails without it.
\* serval_sock_unhash means to clear it, but serval_sock_reset_flag masks with
\* the flag's number and not with its bit (it clears AUTOBOUND), so a socket
\* that was hashed once has the flag for good.  In state REQUEST the socket is only hashed by its
\* flow again.  A connected socket that was bound before leaves the table of
\* connected sockets for the service table, for good.
serval_bind(s, k) ==
    LET r == service_table_add(serval_sock_unhash(Table, s), k, Local, SockTarget(s))
        enters == \/ sock[s].state = "INIT"
                  \/ sock[s].state = "CONNECTED" /\ sock[s].bound /\ sock[s].key = NoNode
    IN  /\ ~dead
        /\ sock[s].state # "RELEASED"
        /\ IF enters
           THEN /\ SetTable(r.table)
                /\ sock' = [sock EXCEPT ![s].bound = TRUE, ![s].key = k,
                                        ![s].hashed = @ \/ r.ok]
           ELSE /\ sock' = [sock EXCEPT ![s].bound = TRUE]
                /\ SetTable(Table)
        /\ UNCHANGED dead

\* serval_connect: the socket goes from the service table to the table of
\* connected sockets, where serval_sock_hash sets HASHED too.
serval_connect(s) ==
    /\ ~dead
    /\ sock[s].state = "INIT"
    /\ SetTable(serval_sock_unhash(Table, s))
    /\ sock' = [sock EXCEPT ![s].state = "REQUEST", ![s].key = NoNode,
                            ![s].hashed = TRUE]
    /\ UNCHANGED dead

\* serval_sal_request_state_process: the SYN-ACK arrives.
ConnectDone(s) ==
    /\ ~dead
    /\ sock[s].state = "REQUEST"
    /\ sock' = [sock EXCEPT ![s].state = "CONNECTED"]
    /\ SetTable(Table)
    /\ UNCHANGED dead

\* serval_release, up to the end of the connection.  The table keeps a socket
\* that was bound while it was connected.
serval_release(s) ==
    /\ ~dead
    /\ sock[s].state # "RELEASED"
    /\ SetTable(serval_sock_unhash(Table, s))
    /\ sock' = [sock EXCEPT ![s] = [state |-> "RELEASED", bound |-> FALSE,
                                    key |-> NoNode, hashed |-> FALSE]]
    /\ UNCHANGED dead

-----------------------------------------------------------------------------
\* Control messages and device events.

\* The prefixes of service_add and service_modify, where the null serviceID is
\* the default service, and of ctrl_handle_del_service_msg.
RuleKeys == {IF id = Zero THEN << >> ELSE SubSeq(id, 1, bits) :
                id \in RuleIds, bits \in 1..Bits}
DelKeys == {SubSeq(id, 1, bits) : id \in RuleIds, bits \in 1..Bits} \cup {<< >>}

Rules == UNION {{p} \X RulePlaces(entry[p]) : p \in Active}

\* What is left after a release of the root: the process may go on or crash.
MayDie(freed) == IF freed THEN dead' \in BOOLEAN ELSE UNCHANGED dead

\* ctrl_handle_add_service_msg, and dev_configuration for the default service.
AddService(k, prio, a, d) ==
    /\ ~dead
    /\ SetTable(service_table_add(Table, k, prio, ForwardTarget(a, d)).table)
    /\ UNCHANGED <<sock, dead>>

\* ctrl_handle_del_service_msg: the entry must have exactly this prefix and
\* some rule, and the first rule for address a is removed.
DelService(k, a) ==
    LET p == bst_find_longest_prefix_match(Table, k,
                 {q \in Active : RulePlaces(entry[q]) # {}})
        x == IF p # k THEN NoNode
             ELSE FirstPlace(RulePlacesFor(entry[p], a))
    IN  /\ ~dead
        /\ x # NoNode
        /\ LET sets == DropPlace(entry[p], x)
           IN  /\ SetTable(Update(Table, p, sets))
               /\ MayDie(sets = << >> /\ ReadsFreedRoot(Table, p))
        /\ UNCHANGED sock

\* ctrl_handle_mod_service_msg: the first rule for address a gets address b,
\* and moves to the set of priority prio if that is another one.
ModService(k, a, b, prio) ==
    LET x == IF bst_find_longest_prefix(Table, k) # k THEN NoNode
             ELSE FirstPlace(RulePlacesFor(entry[k], a))
    IN  /\ ~dead
        /\ x # NoNode
        /\ LET t == [At(entry[k], x) EXCEPT !.dst = b]
           IN  entry' = [entry EXCEPT ![k] =
                            IF @[x[1]].priority = prio
                            THEN [@ EXCEPT ![x[1]].list[x[2]] = t]
                            ELSE AddToSets(DropPlace(@, x), prio, t)]
        /\ UNCHANGED <<tree, services, entries, sock, dead>>

\* Mutant: the union holding a device or a socket is compared without looking
\* at the type of the rule.
MutOnDevice(t, d) == IsSock(t) \/ t.oif = d

OnDevice(t, d) == IsForward(t) /\ t.oif = d

\* The entries of s whose places are in keep, in their order.
KeepPlaces(s, keep) ==
    LET F[n \in 0..Len(s)] ==
            IF n = 0 THEN << >>
            ELSE IF n \in keep THEN Append(F[n - 1], s[n]) ELSE F[n - 1]
    IN  F[Len(s)]

\* The sets without the rules that leave through device d, and without the sets
\* that hold nothing else.
RemoveByDev(sets, d) ==
    LET staying(i) == {j \in 1..Len(sets[i].list) : ~OnDevice(sets[i].list[j], d)}
        kept == [i \in 1..Len(sets) |->
                    [sets[i] EXCEPT !.list = KeepPlaces(@, staying(i))]]
    IN  KeepPlaces(kept, {i \in 1..Len(sets) : staying(i) # {}})

\* del_dev_func on entry p: it is released if the one rule removed was its
\* last target.
del_dev_func(tb, p, d) ==
    LET sets == RemoveByDev(tb.entry[p], d)
        count == Cardinality(Places(tb.entry[p])) - Cardinality(Places(sets))
    IN  IF count = 1 THEN Update(tb, p, sets)
        ELSE [tb EXCEPT !.entry[p] = sets]

\* service_del_dev_all: the table after it; parents before children.
service_del_dev_all(d) ==
    LET After[ps \in SUBSET Active] ==
            IF ps = {} THEN Table
            ELSE LET p == Longest(ps) IN del_dev_func(After[ps \ {p}], p, d)
    IN  After[Active]

DelDevAll(d) ==
    LET tb == service_del_dev_all(d)
    IN  /\ ~dead
        /\ Active # {}
        /\ SetTable(tb)
        /\ MayDie(<< >> \in Active \ DOMAIN tb.entry /\ ReadsFreedRoot(Table, << >>))
        /\ UNCHANGED sock

-----------------------------------------------------------------------------
Init ==
    /\ tree = {}
    /\ entry = << >>
    /\ services = 0
    /\ entries = 0
    /\ sock = [s \in Socks |-> [state |-> "INIT", bound |-> FALSE,
                              key |-> NoNode, hashed |-> FALSE]]
    /\ dead = FALSE

SockNext(s) ==
    \/ \E k \in BindKeys : serval_bind(s, k)
    \/ serval_connect(s)
    \/ ConnectDone(s)
    \/ serval_release(s)

ControlNext ==
    \/ /\ Cardinality(Rules) < MaxTargets
       /\ \E k \in RuleKeys, prio \in Priorities, a \in Addrs, d \in Devs :
             AddService(k, prio, a, d)
    \/ \E k \in DelKeys, a \in Addrs : DelService(k, a)
    \/ \E k \in RuleKeys, a, b \in Addrs, prio \in Priorities :
          ModService(k, a, b, prio)
    \/ \E d \in Devs : DelDevAll(d)

Next == (\E s \in Socks : SockNext(s)) \/ ControlNext

Spec == Init /\ [][Next]_vars

-----------------------------------------------------------------------------
\* Properties.

\* The trie, the entries, the counters and the sockets have their types.
TypeOK ==
    /\ tree \subseteq Nodes
    /\ Active \subseteq Nodes
    /\ \A p \in Active : entry[p] \in Seq(TargetSets)
    /\ services \in Nat
    /\ entries \in Nat
    /\ sock \in [Socks -> [state : {"INIT", "REQUEST", "CONNECTED", "RELEASED"},
                           bound : BOOLEAN,
                           key : Nodes \cup {NoNode}, hashed : BOOLEAN]]
    /\ dead \in BOOLEAN

\* Every sequence of insertions and releases leaves a trie without holes and
\* without dead branches: active nodes are in it with all their prefixes, and
\* below the root a node without children is active.
TrieShape ==
    /\ Active \subseteq tree
    /\ \A p \in tree : Prefixes(p) \subseteq tree
    /\ \A p \in tree : p # << >> /\ ~HasChildren(tree, p) => p \in Active

\* The walk down the trie finds the longest active prefix of a serviceID, and
\* the longest with a socket, as a search of all entries would.
LookupIsLongestPrefix ==
    LET withSock == {p \in Active : SockPlaces(entry[p]) # {}}
    IN  \A id \in [1..Bits -> {0, 1}] :
            /\ bst_find_longest_prefix(Table, id)
                   = Longest({p \in Active : IsPrefix(p, id)})
            /\ bst_find_longest_prefix_match(Table, id, withSock)
                   = Longest({p \in withSock : IsPrefix(p, id)})

\* srvtable.services, which service statistics report, and tree.entries, which
\* decides whether a new root is made, both count the entries.
Counted == services = Cardinality(Active) /\ entries = services

\* The sets of an entry are in order of falling priority, one set for each,
\* and none is empty, so resolution picks from the set of highest priority.
SetsOrdered ==
    \A p \in Active : \A i, j \in 1..Len(entry[p]) :
        /\ entry[p][i].list # << >>
        /\ i < j => entry[p][i].priority > entry[p][j].priority

\* An entry never holds two sockets of one protocol, so packets for a
\* serviceID have one socket to go to.
OneSocketPerProtocol ==
    \A p \in Active : \A x, y \in Places(entry[p]) :
        LET t == At(entry[p], x)
            u == At(entry[p], y)
        IN  x # y /\ IsSock(t) /\ IsSock(u) => Protocol[t.sk] # Protocol[u.sk]

\* Whatever binds, control messages and devices do to the table, trie, counters,
\* target sets and sockets stay consistent with one another (bst.c's nodes,
\* service_entry_add_target's lists and the counts of service_table_stats).
TableConsistent ==
    TypeOK /\ TrieShape /\ Counted /\ SetsOrdered /\ OneSocketPerProtocol

SocketsAt(p) ==
    IF p \notin Active THEN {}
    ELSE {t \in {At(entry[p], x) : x \in Places(entry[p])} : IsSock(t)}

\* Only sockets change which sockets are in the table: control messages and
\* devices that go away neither take one out nor put one in.
ControlLeavesSockets ==
    [][(\E p \in Nodes : SocketsAt(p)' # SocketsAt(p)) => \E s \in Socks : SockNext(s)]_vars

\* A socket with a serviceID for which bind has returned without an error is in
\* the entry of that serviceID until it leaves itself.
BoundStaysInTable ==
    \A s \in Socks : sock[s].hashed /\ sock[s].key # NoNode
                         => SockTarget(s) \in SocketsAt(sock[s].key)

=============================================================================
