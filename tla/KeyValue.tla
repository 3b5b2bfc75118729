------------------------------ MODULE KeyValue ------------------------------
(***************************************************************************)
(* The key-value database under the VM, seen as finite maps.  The Go code  *)
(* keeps all its state in one ordered database.Database and separates the  *)
(* key spaces by a prefix byte (chain/storage.go:25-42); here every key    *)
(* space that carries a value is a function whose domain is the set of     *)
(* stored keys, and a key space without values is a set of keys.           *)
(***************************************************************************)

\* f is a map whose keys are in K and whose values are in V.
IsMap(f, K, V) ==
  /\ DOMAIN f \subseteq K
  /\ \A k \in DOMAIN f : f[k] \in V

\* database.KeyValueWriter.Put: bind k, overwriting what it was bound to.
Put(f, k, v) == [x \in DOMAIN f \cup {k} |-> IF x = k THEN v ELSE f[x]]

\* database.KeyValueDeleter.Delete of every key of K; absent keys are ignored.
Remove(f, K) == [x \in DOMAIN f \ K |-> f[x]]

=============================================================================
