----------------------------- MODULE KeyStore -----------------------------
(***************************************************************************)
(* What the cache of session keys promises its users: a store of at most   *)
(* Size keys, which answers with the key that was put in under an          *)
(* identifier.  A key is put in in steps of their own, between which the   *)
(* store may be asked: it is wanted; if the store is full, one key is      *)
(* given up; then it is put in.  No key is given up otherwise.             *)
(* KeyCacheLru implements it.                                              *)
(*                                                                         *)
(* One identifier, Reserved, is what the implementation marks free slots   *)
(* with.  It makes room like any other but is not stored, and nothing is   *)
(* promised to who asks for it, except that no other key changes.          *)
(***************************************************************************)
EXTENDS Naturals, FiniteSets

CONSTANTS Id,       \* identifiers
          Reserved, \* the one that has no key
          Key,      \* keys
          NoKey,    \* the answer when there is none
          Size

VARIABLES store,    \* the key of each identifier that has one
          wanted,   \* the identifier whose key is to be put in: none or one
          answer    \* the last look-up: for which identifier, and with which key

storeVars == <<store, wanted, answer>>

Full == Cardinality(DOMAIN store) = Size

Without(s, victim) == [i \in DOMAIN s \ {victim} |-> s[i]]

With(s, id, key) ==
    [i \in DOMAIN s \cup {id} |-> IF i = id THEN key ELSE s[i]]

StoreInit == /\ DOMAIN store = {}
             /\ wanted = {}
             /\ answer = [id |-> Reserved, key |-> NoKey]

Get(id) == /\ answer' = [id |-> id,
                          key |-> IF id \in DOMAIN store THEN store[id]
                                                         ELSE NoKey]
           /\ UNCHANGED <<store, wanted>>

GetReserved == /\ answer' \in [id : {Reserved}, key : Key \cup {NoKey}]
               /\ UNCHANGED <<store, wanted>>

Want(id) == /\ wanted = {}
            /\ id \notin DOMAIN store
            /\ wanted' = {id}
            /\ UNCHANGED <<store, answer>>

GiveUp(victim) == /\ wanted # {}
                  /\ Full
                  /\ store' = Without(store, victim)
                  /\ UNCHANGED <<wanted, answer>>

Put(id, key) == /\ wanted = {id}
                /\ ~ Full
                /\ store' = IF id = Reserved THEN store ELSE With(store, id, key)
                /\ wanted' = {}
                /\ UNCHANGED answer

StoreNext == \/ \E id \in Id \ {Reserved} : Get(id)
             \/ GetReserved
             \/ \E id \in Id : Want(id)
             \/ \E victim \in DOMAIN store : GiveUp(victim)
             \/ \E id \in Id, key \in Key : Put(id, key)

StoreSpec == StoreInit /\ [][StoreNext]_storeVars
============================================================================
