------------------------------ MODULE Magasin ------------------------------
(***************************************************************************)
(* RpsStateStore of apps/matches/services.py: dictionaries in the cache,   *)
(* one entry per key.  A handler that reads an entry gets a copy of it;    *)
(* nothing is locked between the reading and the writing.                  *)
(*                                                                         *)
(* The calls in flight are a set of slots: a slot holds what one call has  *)
(* read and is going to write.  The index of the keys, which only the      *)
(* lists of the queries read, and the expiry of an entry after a day are   *)
(* not modelled.                                                           *)
(***************************************************************************)
EXTENDS Naturals

CONSTANTS Utilisateurs, \* the users
          Appels,       \* the slots of the calls in flight
          Rien          \* an entry or a slot with nothing in it

(* __getitem__ raises KeyError on an entry that is not there *)
Present(e) == e # Rien

(* __setitem__, whether the entry is still there or not; __delitem__ is *)
(* Mettre(store, k, Rien), and raises nothing when there is no entry    *)
Mettre(store, k, v) == [store EXCEPT ![k] = v]

Roles == {"hote", "invite"}
Autre(r) == IF r = "hote" THEN "invite" ELSE "hote"
Zero == [r \in Roles |-> 0]
=============================================================================
