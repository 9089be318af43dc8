------------------------------ MODULE SdkStorage ------------------------------
(***************************************************************************)
(* The collections of the contract SDK (src/src/sdk.rs, Map and Set).  A   *)
(* Map and a Set hold no data and no name: an entry is stored in the host  *)
(* storage of the contract under the JSON text of its key and nothing      *)
(* else, so that all Maps and Sets of a contract share one table.          *)
(*                                                                         *)
(* A table is a function from keys to entries.  A key is a tuple that      *)
(* starts with the Rust type of the key: keys of different types have      *)
(* different JSON texts.  An entry keeps the Rust type of its value:       *)
(* reading it as another type fails to parse, which counts as no entry.    *)
(***************************************************************************)

EmptyTable == [key \in {} |-> {}]

\* storage_set and storage_remove.
Write(table, key, entry) ==
    [k \in DOMAIN table \cup {key} |-> IF k = key THEN entry ELSE table[k]]

Erase(table, key) == [k \in DOMAIN table \ {key} |-> table[k]]

\* Map::contains_key and Map::get of a Map whose values have the type.
Has(table, type, key) == key \in DOMAIN table /\ table[key].type = type

Get(table, type, key, default) == IF Has(table, type, key) THEN table[key].value ELSE default

\* Map::insert.
Put(table, type, key, value) == Write(table, key, [type |-> type, value |-> value])

\* Set::insert writes the byte 1, which is no JSON text.
Mark(table, key) == Write(table, key, [type |-> "mark", value |-> 1])

\* Set::contains finds whatever is stored under the key.
Marked(table, key) == key \in DOMAIN table
=============================================================================
