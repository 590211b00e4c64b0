------------------------------ MODULE DraftLayer ------------------------------
(***************************************************************************)
(* One configuration layer of clash-verge-draft: committed data and an     *)
(* optional draft, both behind one mutex, so that each method is one step. *)
(* What a layer holds is abstracted to the set of edits made to it; the    *)
(* identity of the committed Arc, which with_data_modify compares, is a    *)
(* number that no two committed values of a layer share.                   *)
(***************************************************************************)
EXTENDS Naturals

CONSTANTS
  Edits,    \* what callers may change in a layer
  NoDraft   \* the layer has no draft

ASSUME NoDraftAssumption == \A v \in SUBSET Edits : v # NoDraft

LayerState ==
  [committed : SUBSET Edits, draft : (SUBSET Edits) \cup {NoDraft}, identity : Nat]

NewLayer == [committed |-> {}, draft |-> NoDraft, identity |-> 0]

Latest(s) == IF s.draft = NoDraft THEN s.committed ELSE s.draft

\* Mutation of EditDraft: the draft starts empty instead of as a copy of the
\* committed data.
EditDraftFromNothing(s, e) ==
  [s EXCEPT !.draft = IF s.draft = NoDraft THEN {e} ELSE s.draft \cup {e}]

\* The first edit copies the committed data: make_mut never edits it in place,
\* because the layer itself keeps a reference to it.
EditDraft(s, e) == [s EXCEPT !.draft = Latest(s) \cup {e}]

\* Nothing to apply without a draft; otherwise the draft becomes the committed
\* data, under an identity of its own.
ApplyDraft(s) ==
  IF s.draft = NoDraft THEN s
  ELSE [committed |-> s.draft, draft |-> NoDraft, identity |-> s.identity + 1]

DiscardDraft(s) == [s EXCEPT !.draft = NoDraft]

\* What with_data_modify stores leaves the draft alone.
ReplaceCommitted(s, v) == [s EXCEPT !.committed = v, !.identity = s.identity + 1]
=============================================================================
