---------------------------- MODULE OffchainMmr ----------------------------
(***************************************************************************)
(* The offchain Merkle mountain range of a node: pallet-mmr writes the     *)
(* nodes of every imported block under a key that holds the block's fork   *)
(* identifier; the gadget, a task of the node, follows the finality        *)
(* notifications, moves the nodes of finalized blocks to canonical keys    *)
(* and clears those of stale forks.  Proofs are made from canonical keys.  *)
(* The chain grows while the gadget works, and the node may stop anywhere. *)
(*                                                                         *)
(* Sources: `trees/mmr/gadget/src/{lib,offchain_mmr,aux_schema}.rs`,       *)
(* `trees/mmr/pallet/src/{lib,mmr/storage}.rs`.                            *)
(*                                                                         *)
(* A leaf stands for itself and the inner nodes its insertion completes    *)
(* (right_branch_ending_in_leaf).  The fork identifier, a root of the      *)
(* child trie that holds the messages' commitments with their positions,   *)
(* is the sequence of messages itself: forks with the same messages share  *)
(* it.                                                                     *)
(***************************************************************************)
EXTENDS Integers, Sequences, SequencesExt, FiniteSets

CONSTANTS
    Messages,       \* the requests and responses that are dispatched
    MaxBlocks,      \* bound on the imported blocks
    MaxBranch,      \* bound on the children of a block
    MaxPushed,      \* bound on the leaves a block adds
    StateWindow     \* finalized blocks whose state the node keeps

VARIABLES
    blocks,         \* the imported blocks: [parent, number, leaves, initial]
    finalized,      \* the last finalized block
    notifications,  \* the finality notifications not taken yet
    temp,           \* the keys <<leaf, fork identifier>> in the offchain db
    canon,          \* leaf -> the messages it commits to, by canonical key
    aux,            \* the persisted gadget state
    gadget          \* [running, first_mmr_block, best_canonicalized, todo]

chainVars == <<blocks, finalized>>
vars == <<chainVars, notifications, temp, canon, aux, gadget>>

None == -1

fork_identifier(b) == blocks[b].leaves

\* The leaves a block adds: mmr_leaf_count of its parent to its own.
nodes_added_by_new_leaves(b) ==
    Len(blocks[blocks[b].parent].leaves) + 1 .. Len(blocks[b].leaves)

\* The blocks from b (included) down to the first one above a number, oldest
\* first.
Branch(b, above) ==
    LET walk[c \in DOMAIN blocks] ==
          IF blocks[c].number <= above THEN <<>>
          ELSE Append(walk[blocks[c].parent], c)
    IN  walk[b]

Ancestors(b) == {b} \union ToSet(Branch(b, 0)) \union {0}

----------------------------------------------------------------------------
(* The chain.                                                              *)

\* A block is executed: on_initialize records the height of the first leaves,
\* the dispatched messages are pushed, and finalize writes their nodes.
ImportBlock ==
    /\ Cardinality(DOMAIN blocks) <= MaxBlocks
    /\ \E parent \in DOMAIN blocks, new \in BoundedSeq(Messages, MaxPushed) :
         LET p == blocks[parent]
             id == Cardinality(DOMAIN blocks)
             leaves == p.leaves \o new
         IN  /\ finalized \in Ancestors(parent)
             /\ Cardinality({c \in DOMAIN blocks \ {0} : blocks[c].parent = parent})
                  < MaxBranch
             /\ IsInjective(leaves)
             /\ blocks' = [c \in DOMAIN blocks \union {id} |->
                  IF c # id THEN blocks[c]
                  ELSE [parent |-> parent, number |-> p.number + 1,
                        leaves |-> leaves,
                        initial |-> IF p.leaves # <<>> /\ p.initial = None
                                    THEN p.number ELSE p.initial]]
             /\ temp' = temp \union
                  {<<i, leaves>> : i \in Len(p.leaves) + 1 .. Len(leaves)}
    /\ UNCHANGED <<finalized, notifications, canon, aux, gadget>>

\* The heads of the forks that finalizing b abandons.
StaleForks(b) ==
    {c \in DOMAIN blocks : /\ finalized \in Ancestors(c)
                           /\ c \notin Ancestors(b) /\ b \notin Ancestors(c)}

\* A block is finalized, and the gadget notified (external).
FinalizeBlock ==
    /\ \E b \in DOMAIN blocks \ {finalized} :
         /\ finalized \in Ancestors(b)
         /\ finalized' = b
         /\ notifications' = Append(notifications,
              [hash |-> b,
               tree_route |-> Front(Branch(b, blocks[finalized].number)),
               stale |-> SetToSeq(StaleForks(b))])
    /\ UNCHANGED <<blocks, temp, canon, aux, gadget>>

\* The node still has the state of a finalized block and of its parent.
Available(b) == blocks[b].number - 1 >= blocks[finalized].number - StateWindow

----------------------------------------------------------------------------
(* The gadget.                                                             *)

Canonicalize(route) == [i \in DOMAIN route |-> [op |-> "canonicalize", block |-> route[i]]]

Prune(route) == [i \in DOMAIN route |-> [op |-> "prune", block |-> route[i]]]

WriteState == <<[op |-> "write", block |-> 0]>>

\* Mutant: nothing but the notification's own blocks.
canonicalize_catch_upNothing(first, best) == WriteState

\* canonicalize_catch_up: the blocks below `first` that are newer than the
\* best canonicalized one.
canonicalize_catch_up(first, best) ==
    Canonicalize(Branch(blocks[first].parent, best)) \o WriteState

\* Mutant: the abandoned blocks are canonicalized like the finalized ones.
canonicalize_and_pruneStale(n, best) ==
    canonicalize_catch_up(n.hash, best)
      \o Canonicalize(n.stale \o Append(n.tree_route, n.hash)) \o WriteState
      \o Prune(n.stale)

\* canonicalize_and_prune.
canonicalize_and_prune(n, best) ==
    canonicalize_catch_up(n.hash, best)
      \o Canonicalize(Append(n.tree_route, n.hash)) \o WriteState
      \o Prune(n.stale)

\* handle_potential_pallet_reset, with the genesis the runtime reports.
PalletReset(genesis) ==
    genesis # None /\ genesis # gadget.first_mmr_block

\* The task takes a notification.  Without an engine it builds one, as soon
\* as the pallet has a genesis, from the persisted state.
TakeNotification ==
    /\ notifications # <<>> /\ gadget.todo = <<>>
    /\ LET n == Head(notifications)
           genesis == blocks[n.hash].initial
           first == Head(Append(n.tree_route, n.hash))
           built == IF aux = None THEN genesis - 1 ELSE aux
           best == IF PalletReset(genesis) THEN genesis - 1
                   ELSE gadget.best_canonicalized
       IN  \/ /\ ~gadget.running /\ genesis = None
              /\ UNCHANGED <<aux, gadget>>
           \/ /\ ~gadget.running /\ genesis # None
              /\ aux' = built
              /\ gadget' = [running |-> TRUE, first_mmr_block |-> genesis,
                            best_canonicalized |-> built,
                            todo |-> canonicalize_catch_up(first, built)
                                       \o canonicalize_and_prune(n, built)]
           \/ /\ gadget.running
              /\ aux' = IF PalletReset(genesis) THEN best ELSE aux
              /\ gadget' = [gadget EXCEPT
                              !.first_mmr_block = IF PalletReset(genesis)
                                                  THEN genesis ELSE @,
                              !.best_canonicalized = best,
                              !.todo = canonicalize_and_prune(n, best)]
    /\ notifications' = Tail(notifications)
    /\ UNCHANGED <<chainVars, temp, canon>>

\* The nodes of these blocks that are in the offchain db.
Found(route) ==
    {<<i, fork_identifier(b)>> : <<i, b>> \in
       {ib \in (1..Cardinality(Messages)) \X ToSet(route) :
          /\ ib[1] \in nodes_added_by_new_leaves(ib[2])
          /\ <<ib[1], fork_identifier(ib[2])>> \in temp}}

\* canonicalize_branch.  A block the runtime cannot be asked about is left;
\* when a later one finds it was skipped, the blocks between, but for the
\* parent, are tried again.
canonicalize_branch ==
    /\ gadget.todo # <<>> /\ Head(gadget.todo).op = "canonicalize"
    /\ LET b == Head(gadget.todo).block
           number == blocks[b].number
           best == gadget.best_canonicalized
           skipped == IF best # number - 1
                      THEN SelectSeq(Branch(blocks[blocks[b].parent].parent, best),
                                     Available)
                      ELSE <<>>
           moved == Found(Append(skipped, b))
           retried == IF skipped = <<>> THEN best ELSE blocks[Last(skipped)].number
       IN  IF number >= gadget.first_mmr_block /\ number > best /\ Available(b)
           THEN /\ canon' = [i \in DOMAIN canon \union {k[1] : k \in moved} |->
                               IF \E k \in moved : k[1] = i
                               THEN SubSeq((CHOOSE k \in moved : k[1] = i)[2], 1, i)
                               ELSE canon[i]]
                /\ temp' = temp \ moved
                /\ aux' = IF best # number - 1 THEN retried ELSE aux
                /\ gadget' = [gadget EXCEPT !.todo = Tail(@),
                                            !.best_canonicalized = number]
           ELSE /\ gadget' = [gadget EXCEPT !.todo = Tail(@)]
                /\ UNCHANGED <<canon, temp, aux>>
    /\ UNCHANGED <<chainVars, notifications>>

write_gadget_state ==
    /\ gadget.todo # <<>> /\ Head(gadget.todo).op = "write"
    /\ aux' = gadget.best_canonicalized
    /\ gadget' = [gadget EXCEPT !.todo = Tail(@)]
    /\ UNCHANGED <<chainVars, notifications, temp, canon>>

\* Mutant: nodes are cleared whether or not their position is canonical.
prune_branchEager ==
    /\ gadget.todo # <<>> /\ Head(gadget.todo).op = "prune"
    /\ LET b == Head(gadget.todo).block
           stale == {<<i, fork_identifier(b)>> : i \in nodes_added_by_new_leaves(b)}
       IN  temp' \in {temp, temp \ stale}
    /\ gadget' = [gadget EXCEPT !.todo = Tail(@)]
    /\ UNCHANGED <<chainVars, notifications, canon, aux>>

\* prune_branch, of a stale block whose state may be gone.  Only nodes at
\* positions that have been canonicalized are cleared.
prune_branch ==
    /\ gadget.todo # <<>> /\ Head(gadget.todo).op = "prune"
    /\ LET b == Head(gadget.todo).block
           stale == {<<i, fork_identifier(b)>> :
                       i \in nodes_added_by_new_leaves(b) \intersect DOMAIN canon}
       IN  temp' \in {temp, temp \ stale}
    /\ gadget' = [gadget EXCEPT !.todo = Tail(@)]
    /\ UNCHANGED <<chainVars, notifications, canon, aux>>

Off == [running |-> FALSE, first_mmr_block |-> 0, best_canonicalized |-> 0,
        todo |-> <<>>]

\* The node stops and starts again: the task and what it was told are gone.
Restart ==
    /\ gadget.running \/ notifications # <<>>
    /\ gadget' = Off
    /\ notifications' = <<>>
    /\ UNCHANGED <<chainVars, temp, canon, aux>>

----------------------------------------------------------------------------
Init ==
    /\ blocks = 0 :> [parent |-> 0, number |-> 0, leaves |-> <<>>, initial |-> None]
    /\ finalized = 0
    /\ notifications = <<>>
    /\ temp = {}
    /\ canon = <<>>
    /\ aux = None
    /\ gadget = Off

Next ==
    \/ ImportBlock
    \/ FinalizeBlock
    \/ TakeNotification
    \/ canonicalize_branch
    \/ write_gadget_state
    \/ prune_branch
    \/ Restart

Spec == Init /\ [][Next]_vars

----------------------------------------------------------------------------
\* What leaf i of a chain commits to.
Committed(leaves, i) == SubSeq(leaves, 1, i)

IsCanonical(b) ==
    \A i \in nodes_added_by_new_leaves(b) :
        i \in DOMAIN canon /\ canon[i] = Committed(blocks[b].leaves, i)

\* A canonical key holds a node of the finalized chain, never one of a fork
\* (canonicalize_branch): proofs made from it match the finalized root.
CanonIsFinalized ==
    \A i \in DOMAIN canon :
        /\ i <= Len(blocks[finalized].leaves)
        /\ canon[i] = Committed(blocks[finalized].leaves, i)

\* No node of a block that is or can still become finalized is ever lost:
\* clearing a stale fork spares the keys it shares with a live one
\* (prune_branch), and a restart between two steps loses none.
NodesKept ==
    \A b \in DOMAIN blocks \ {0} :
        finalized \in Ancestors(b) \/ b \in Ancestors(finalized) =>
            \A i \in nodes_added_by_new_leaves(b) :
                \/ <<i, fork_identifier(b)>> \in temp
                \/ i \in DOMAIN canon /\ canon[i] = Committed(blocks[b].leaves, i)

\* The finalized blocks that could be canonicalized now and are not.
Missing ==
    {blocks[b].number : b \in {c \in Ancestors(finalized) \ {0} :
                                 Available(c) /\ ~IsCanonical(c)}}

\* The gadget, and the state it starts again from, only pass over finalized
\* blocks whose nodes are canonical, or whose state the node no longer has
\* (canonicalize_branch, canonicalize_catch_up, write_gadget_state).
OverCanonical ==
    /\ gadget.running /\ gadget'.running =>
         Missing' \intersect
           gadget.best_canonicalized + 1 .. gadget'.best_canonicalized = {}
    /\ aux # None => Missing' \intersect aux + 1 .. aux' = {}
PassesOverCanonical == [][OverCanonical]_vars
============================================================================
