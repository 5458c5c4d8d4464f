----------------------------- MODULE SymbolTable -----------------------------
(***************************************************************************)
(* What dict.h promises: a map from keys to 16-bit values, and an iterator *)
(* with which a caller can visit every pair once, also when it changes or  *)
(* deletes the pair it is at.  Dict.tla implements this with chains of     *)
(* nodes; Assembler.tla uses no more of the table than this.               *)
(***************************************************************************)
EXTENDS Integers

CONSTANTS Keys, Cardinal, NULL  \* Cardinal: 2^16, the values of uint16_t

Values == 0 .. Cardinal - 1

VARIABLES
  table,  \* the value of each key, or NULL
  mode,   \* "idle", or the loop over the pairs that is under way
  todo,   \* the keys the loop has not come to
  shift   \* the address_origin of the serialization under way, else 0

svars == <<table, mode, todo, shift>>

Present == {k \in Keys : table[k] # NULL}

SInit ==
  /\ table = [k \in Keys |-> NULL]
  /\ mode = "idle"
  /\ todo = {}
  /\ shift = 0

Put(k, v) ==
  /\ mode = "idle"
  /\ table' = [table EXCEPT ![k] = v]
  /\ UNCHANGED <<mode, todo, shift>>

Remove(k) ==
  /\ mode = "idle"
  /\ table' = [table EXCEPT ![k] = NULL]
  /\ UNCHANGED <<mode, todo, shift>>

Begin(loop) ==
  /\ mode = "idle"
  /\ mode' = loop
  /\ todo' = Present
  /\ shift' \in IF loop = "serialize" THEN Values ELSE {0}
  /\ UNCHANGED table

End ==
  /\ mode' = "idle"
  /\ todo' = {}
  /\ shift' = 0

(***************************************************************************)
(* One iteration of serialize_symbol_table, which may also end with it.    *)
(***************************************************************************)
Relocate(k) ==
  /\ mode = "serialize"
  /\ k \in todo
  /\ table' = [table EXCEPT ![k] = (table[k] - 1 + shift) % Cardinal]
  /\ \/ todo' = todo \ {k} /\ UNCHANGED <<mode, shift>>
     \/ End

(***************************************************************************)
(* One iteration of initialize.                                            *)
(***************************************************************************)
Clear(k) ==
  /\ mode = "initialize"
  /\ k \in todo
  /\ table' = [table EXCEPT ![k] = NULL]
  /\ todo' = todo \ {k}
  /\ UNCHANGED <<mode, shift>>

Finish ==
  /\ mode # "idle"
  /\ todo = {}
  /\ End
  /\ UNCHANGED table

SNext ==
  \/ \E k \in Keys : (\E v \in Values : Put(k, v)) \/ Remove(k) \/ Relocate(k) \/ Clear(k)
  \/ \E loop \in {"serialize", "initialize"} : Begin(loop)
  \/ Finish

SSpec == SInit /\ [][SNext]_svars
==============================================================================
