------------------------------- MODULE LockTree -------------------------------
(***************************************************************************)
(* Who waits for whom, as a chain from one session (blocking.rs) and as a  *)
(* forest of all of them (blocks.rs).                                      *)
(*                                                                         *)
(* Both are computed afresh from each snapshot's lock rows, one row for    *)
(* each waiting session with the sessions that block it.  The rows change  *)
(* as sessions begin to wait and are granted their locks, and the server   *)
(* lists them in any order.  Session 0 stands for a prepared transaction.  *)
(***************************************************************************)
EXTENDS Integers, FiniteSets, SequencesExt

CONSTANT Backends    \* process ids of sessions

ASSUME BackendsType == Backends \subseteq Nat \ {0} /\ IsFiniteSet(Backends)

Pids == Backends \cup {0}

VARIABLE locks       \* the lock rows of the snapshot

\* pg_blocking_pids, of which two are enough to branch.
Blockings(p) ==
  {by \in {<<b>> : b \in Pids} \cup (Pids \X Pids) :
     p \notin {by[n] : n \in DOMAIN by} /\ (Len(by) = 2 => by[1] # by[2])}

TreeInit == locks = <<>>

Waiting == {locks[i].pid : i \in DOMAIN locks}

BeginsToWait(p, by) ==
  /\ p \in Backends \ Waiting
  /\ \E i \in 1..(Len(locks) + 1) : locks' = InsertAt(locks, i, [pid |-> p, by |-> by])

Granted(i) ==
  i \in DOMAIN locks /\ locks' = RemoveAt(locks, i)

TreeNext ==
  \/ \E p \in Backends : \E by \in Blockings(p) : BeginsToWait(p, by)
  \/ \E i \in DOMAIN locks : Granted(i)

TreeSpec == TreeInit /\ [][TreeNext]_locks

------------------------------------------------------------------------------
RowOfPid(p) == locks[CHOOSE i \in DOMAIN locks : locks[i].pid = p]
BlockersOf(p) ==
  IF p \in Waiting THEN {RowOfPid(p).by[n] : n \in DOMAIN RowOfPid(p).by} ELSE {}
WaitersOf(b) == {p \in Waiting : b \in BlockersOf(p)}
Blockers == UNION {BlockersOf(p) : p \in Waiting}

Repeats(chain) == \E i \in 1..(Len(chain) - 1) : chain[i] = chain[Len(chain)]

\* blocking_chain: the first blocker's first blocker and so on, to a session
\* that waits for none or to one the chain had already.
Further(chain) ==
  LET at == chain[Len(chain)]
  IN  IF Repeats(chain) \/ at \notin Waiting THEN chain
      ELSE Append(chain, RowOfPid(at).by[1])
BlockingChain(p) ==
  LET walk[n \in 0..Cardinality(Pids)] == IF n = 0 THEN <<p>> ELSE Further(walk[n - 1])
      chain == walk[Cardinality(Pids)]
  IN  [chain |-> chain, deadlock |-> Repeats(chain)]

\* build_node: the node of every session reached, by the path that leads
\* to it from the root; a path does not come back to a session it has.
Longer(path) ==
  {Append(path, w) : w \in {v \in WaitersOf(path[Len(path)]) : \A i \in DOMAIN path : path[i] # v}}
PathsFrom(root) ==
  LET grown[n \in 0..Cardinality(Pids)] ==
        IF n = 0 THEN {<<root>>}
        ELSE grown[n - 1] \cup UNION {Longer(path) : path \in grown[n - 1]}
  IN  grown[Cardinality(Pids)]

Node(root, flagged) == [root |-> root, deadlock |-> flagged, paths |-> PathsFrom(root)]
Reached(node) == {path[Len(path)] : path \in node.paths}

FreeTrees == {Node(r, FALSE) : r \in Blockers \ Waiting}

\* Mutant: sessions in a cycle have no tree.
TreesOfTheFree == FreeTrees

\* build_blocking_tree: a tree of every session that blocks and does not wait;
\* then, in the order of the rows, one of every session no tree has yet.
WithTreeOf(p, have) ==
  IF p \in UNION {Reached(t) : t \in have} THEN have ELSE have \cup {Node(p, TRUE)}
Trees ==
  LET grown[n \in 0..Len(locks)] ==
        IF n = 0 THEN FreeTrees ELSE WithTreeOf(locks[n].pid, grown[n - 1])
  IN  grown[Len(locks)]

------------------------------------------------------------------------------
Above(S) == S \cup UNION {BlockersOf(q) : q \in S}
Ends(p) ==
  LET up[n \in 0..Cardinality(Pids)] == IF n = 0 THEN {p} ELSE Above(up[n - 1])
  IN  up[Cardinality(Pids)]
HasEdge(t, b, w) == \E path \in t.paths : \E i \in 1..(Len(path) - 1) : path[i] = b /\ path[i + 1] = w

\* The chain shown for a session and the forest tell one story: a chain that
\* ends ends at a free session, and is a branch of that session's tree; one
\* that is called a deadlock contains a real cycle.
ChainInForest ==
  \A p \in Waiting :
    LET c == BlockingChain(p)
        last == c.chain[Len(c.chain)]
    IN  /\ c.deadlock => last \in UNION {Ends(b) : b \in BlockersOf(last)}
        /\ ~c.deadlock =>
             \E t \in Trees : /\ ~t.deadlock /\ t.root = last
                              /\ [i \in DOMAIN c.chain |-> c.chain[Len(c.chain) + 1 - i]] \in t.paths

\* The forest shows the whole wait graph: every waiting session has a node,
\* every wait is an edge somewhere unless it closes a cycle, a tree is flagged exactly when no free session stands above its
\* root, so that nobody's ending would release it, and the chains agree
\* (build_blocking_tree, blocking_chain).
ForestFaithful ==
  /\ Waiting \subseteq UNION {Reached(t) : t \in Trees}
  /\ \A w \in Waiting : \A b \in BlockersOf(w) :
       (\E t \in Trees : HasEdge(t, b, w)) \/ w \in Ends(b)
  /\ \A t \in Trees : t.deadlock <=> Ends(t.root) \subseteq Waiting
  /\ ChainInForest
=============================================================================
