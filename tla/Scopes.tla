------------------------------- MODULE Scopes -------------------------------
(***************************************************************************)
(* A compiler pass's view of the names in scope: a stack of frames, each a *)
(* map from names. typeck.rs, ownership.rs, smt.rs, contract_check.rs and  *)
(* codegen.rs have one each, with these operations.                        *)
(***************************************************************************)
EXTENDS Sequences, Naturals, TLC

NewScopes == << <<>> >>
Push(sc)  == Append(sc, <<>>)
Pop(sc)   == SubSeq(sc, 1, Len(sc) - 1)

Define(sc, name, info) ==
  [sc EXCEPT ![Len(sc)] = (name :> info) @@ @]

\* The innermost frame that declares name.
Declares(sc, name) == {i \in DOMAIN sc : name \in DOMAIN sc[i]}
Holder(sc, name)   == CHOOSE i \in Declares(sc, name) :
                        \A j \in Declares(sc, name) : j <= i
Resolves(sc, name) == Declares(sc, name) # {}
Lookup(sc, name)   == sc[Holder(sc, name)][name]
=============================================================================
