-------------------------------- MODULE Dict --------------------------------
(***************************************************************************)
(* dict.c: the symbol table as an array of linked lists of nodes, indexed  *)
(* by the hash of the key, with its one static iterator, and the two loops *)
(* that use the iterator and change the table on the way: initialize       *)
(* deletes the pair it is at, serialize_symbol_table (assembler.c) gives   *)
(* it another value.                                                       *)
(*                                                                         *)
(* A call of the interface is one step, an iteration of a loop is one too. *)
(***************************************************************************)
EXTENDS Integers, FiniteSetsExt, Functions

CONSTANTS
  Keys,      \* the labels
  DICTSIZE,  \* the number of lists
  Hash,      \* the list each key belongs to
  Nodes,     \* the addresses malloc may give to a node
  Cardinal,  \* 2^16, the values of uint16_t
  NULL,
  FREED,     \* the contents of memory that is not allocated
  LEAKED,    \* a node nobody points to any more
  Faults     \* "malloc", "fprintf": the library calls that may fail

Lists    == 0 .. DICTSIZE - 1
Values   == 0 .. Cardinal - 1
NumNodes == Cardinality(Nodes)
NodeT    == [next : Nodes \cup {NULL}, key : Keys, val : Values]

ASSUME DictAssumption ==
  /\ DICTSIZE \in Nat \ {0}
  /\ Hash \in [Keys -> 0 .. DICTSIZE - 1]
  /\ Cardinal \in Nat \ {0}
  /\ NULL \notin Nodes \cup Values
  /\ {FREED, LEAKED} \cap NodeT = {}
  /\ IsFiniteSet(Nodes)
  /\ Faults \subseteq {"malloc", "fprintf"}

VARIABLES
  dict,     \* the head of each list
  heap,     \* what is at each address
  i,        \* next()'s static index
  current,  \* next()'s static pointer, to the node it will return
  pc,       \* "idle", "serialize" or "initialize"
  node,     \* the local variable of the loop
  address_origin

iterVars == <<i, current, node>>
vars     == <<dict, heap, pc, address_origin, iterVars>>

-----------------------------------------------------------------------------
(***************************************************************************)
(* Reading.  A freed node has no successor here; the code would read       *)
(* memory that is not its own (see IteratorIsSafe).                        *)
(***************************************************************************)
Live(p)   == p # NULL /\ heap[p] \notin {FREED, LEAKED}
NextOf(p) == IF Live(p) THEN heap[p].next ELSE NULL

(***************************************************************************)
(* The nodes from p on, in their order.                                    *)
(***************************************************************************)
Chain(p) ==
  LET walk[n \in 1 .. NumNodes] == IF n = 1 THEN p ELSE NextOf(walk[n - 1])
  IN  [n \in {m \in 1 .. NumNodes : walk[m] # NULL} |-> walk[n]]

(***************************************************************************)
(* The node of key k, or NULL.                                             *)
(***************************************************************************)
lookup(k) ==
  LET chain == Chain(dict[Hash[k]])
      found == {n \in DOMAIN chain : Live(chain[n]) /\ heap[chain[n]].key = k}
  IN  IF found = {} THEN NULL ELSE chain[Min(found)]

LaterShort(lists, index) ==  \* mutant: i < DICTSIZE - 2
  {j \in Lists : j > index /\ j < DICTSIZE - 1 /\ lists[j] # NULL}

(***************************************************************************)
(* The lists the while loop of next() may stop at, the first of them.      *)
(***************************************************************************)
Later(lists, index) == {j \in Lists : j > index /\ lists[j] # NULL}

StayedAt(h, p) == p  \* mutant: next() moves on only when it is called again

(***************************************************************************)
(* current after next() has found the node p: behind it already.           *)
(***************************************************************************)
MovedOn(h, p) == IF p = NULL \/ h[p] \in {FREED, LEAKED} THEN NULL ELSE h[p].next

(***************************************************************************)
(* next(): the node it returns and the two static variables after it, with *)
(* the table as it is then.                                                *)
(***************************************************************************)
Advance(lists, h, index, p) ==
  LET later == Later(lists, index)
      at    == IF p # NULL THEN index
               ELSE IF later = {} THEN DICTSIZE - 1 ELSE Min(later)
      found == IF p # NULL THEN p ELSE IF later = {} THEN NULL ELSE lists[at]
  IN  [result |-> found, i |-> at, current |-> MovedOn(h, found)]

Moves(step) == i' = step.i /\ current' = step.current /\ node' = step.result

First == Advance(dict, heap, 0, dict[0])  \* next(true)

-----------------------------------------------------------------------------
(***************************************************************************)
(* add(k, v): a key that is there is given the value in place, another one *)
(* a node at the front of its list.  When the key cannot be copied the     *)
(* node is lost.                                                           *)
(***************************************************************************)
Updated(k, v) == [heap EXCEPT ![lookup(k)].val = v]

add(k, v) ==
  \/ /\ lookup(k) # NULL
     /\ heap' = Updated(k, v)
     /\ UNCHANGED dict
  \/ /\ lookup(k) = NULL
     /\ \E p \in Nodes :
          /\ heap[p] = FREED
          /\ \/ /\ heap' = [heap EXCEPT ![p] = [next |-> dict[Hash[k]], key |-> k, val |-> v]]
                /\ dict' = [dict EXCEPT ![Hash[k]] = p]
             \/ /\ "malloc" \in Faults
                /\ heap' = [heap EXCEPT ![p] = LEAKED]
                /\ UNCHANGED dict

\* Mutant: the list begins behind the deleted node, wherever that was.
UnlinkAtFront(k, p) ==
  /\ dict' = [dict EXCEPT ![Hash[k]] = heap[p].next]
  /\ heap' = [heap EXCEPT ![p] = FREED]

(***************************************************************************)
(* delete(k) on the node p of k, which it takes out of its list and frees. *)
(***************************************************************************)
Unlink(k, p) ==
  \/ /\ dict[Hash[k]] = p
     /\ dict' = [dict EXCEPT ![Hash[k]] = heap[p].next]
     /\ heap' = [heap EXCEPT ![p] = FREED]
  \/ \E prev \in Nodes :
       /\ Live(prev) /\ heap[prev].next = p
       /\ heap' = [heap EXCEPT ![prev].next = heap[p].next, ![p] = FREED]
       /\ UNCHANGED dict

delete(k) == lookup(k) # NULL /\ Unlink(k, lookup(k))

-----------------------------------------------------------------------------
Add(k, v) ==
  /\ pc = "idle"
  /\ add(k, v)
  /\ UNCHANGED <<pc, address_origin, iterVars>>

Delete(k) ==
  /\ pc = "idle"
  /\ delete(k)
  /\ UNCHANGED <<pc, address_origin, iterVars>>

SerializeBegin ==
  /\ pc = "idle"
  /\ pc' = "serialize"
  /\ address_origin' \in Values
  /\ Moves(First)
  /\ UNCHANGED <<dict, heap>>

RelocatedSigned(v) == v - 1 + address_origin  \* mutant: an int

Relocated(v) == (v - 1 + address_origin) % Cardinal  \* a memaddr_t

(***************************************************************************)
(* An iteration of serialize_symbol_table; when the pair cannot be printed *)
(* the function returns, and the iterator stays where it is.               *)
(***************************************************************************)
SerializeStep ==
  /\ pc = "serialize"
  /\ node # NULL
  /\ add(heap[node].key, Relocated(heap[node].val))
  /\ \/ /\ Moves(Advance(dict', heap', i, current))
        /\ UNCHANGED <<pc, address_origin>>
     \/ /\ "fprintf" \in Faults
        /\ pc' = "idle"
        /\ node' = NULL
        /\ address_origin' = 0
        /\ UNCHANGED <<i, current>>

InitializeBegin ==
  /\ pc = "idle"
  /\ pc' = "initialize"
  /\ Moves(First)
  /\ UNCHANGED <<dict, heap, address_origin>>

InitializeStep ==
  /\ pc = "initialize"
  /\ node # NULL
  /\ delete(heap[node].key)
  /\ Moves(Advance(dict', heap', i, current))
  /\ UNCHANGED <<pc, address_origin>>

LoopEnd ==
  /\ pc # "idle"
  /\ node = NULL
  /\ pc' = "idle"
  /\ address_origin' = 0
  /\ UNCHANGED <<dict, heap, iterVars>>

Loop == SerializeStep \/ InitializeStep \/ LoopEnd

Init ==
  /\ dict = [j \in Lists |-> NULL]
  /\ heap = [p \in Nodes |-> FREED]
  /\ i = 0
  /\ current = NULL
  /\ pc = "idle"
  /\ node = NULL
  /\ address_origin = 0

Next ==
  \/ \E k \in Keys : Delete(k) \/ \E v \in Values : Add(k, v)
  \/ SerializeBegin \/ InitializeBegin
  \/ Loop

Spec == Init /\ [][Next]_vars

-----------------------------------------------------------------------------
TypeOK ==
  /\ dict \in [Lists -> Nodes \cup {NULL}]
  /\ heap \in [Nodes -> NodeT \cup {FREED, LEAKED}]
  /\ i \in Lists
  /\ {current, node} \subseteq Nodes \cup {NULL}
  /\ pc \in {"idle", "serialize", "initialize"}
  /\ address_origin \in Values

ChainSet(p) == Range(Chain(p))
Linked      == UNION {ChainSet(dict[j]) : j \in Lists}

(***************************************************************************)
(* The lists are what lookup and delete rely on: they hold allocated nodes *)
(* only, each in the list of its key, no key twice, and no allocated node  *)
(* is in none of them.                                                     *)
(***************************************************************************)
ChainsSound ==
  /\ \A p \in Nodes : Live(p) <=> p \in Linked
  /\ \A j \in Lists :
       LET chain == Chain(dict[j])
       IN  \A m, n \in DOMAIN chain :
             /\ Hash[heap[chain[n]].key] = j
             /\ heap[chain[m]].key = heap[chain[n]].key => m = n

(***************************************************************************)
(* While a loop changes or deletes the node next() returned (dict.c:110,   *)
(* assembler.c:47), neither that node's pointer nor next()'s own ever      *)
(* dangles: next() has moved on before the caller touches the node.        *)
(***************************************************************************)
IteratorIsSafe ==
  pc # "idle" => \A p \in {node, current} : p # NULL => Live(p)

(***************************************************************************)
(* The allocated nodes are a map, which lookup reads if the lists are      *)
(* sound, and the iterator is a set of keys still to visit: each loop      *)
(* comes to every pair exactly once, so it ends.                           *)
(***************************************************************************)
ValueOf(k) ==
  IF \E p \in Nodes : Live(p) /\ heap[p].key = k
    THEN heap[CHOOSE p \in Nodes : Live(p) /\ heap[p].key = k].val
    ELSE NULL

ToVisit ==
  LET ahead   == UNION {ChainSet(p) : p \in {current} \cup {dict[j] : j \in i + 1 .. DICTSIZE - 1}}
      reached == {node} \cup ahead
  IN  IF pc = "idle" THEN {} ELSE {heap[p].key : p \in {q \in reached : Live(q)}}

Table == [k \in Keys |-> ValueOf(k)]

Abstract == INSTANCE SymbolTable WITH
  table <- Table,
  mode  <- pc,
  todo  <- ToVisit,
  shift <- address_origin

ImplementsSymbolTable == Abstract!SSpec
==============================================================================
