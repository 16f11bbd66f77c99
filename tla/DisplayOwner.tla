---------------------------- MODULE DisplayOwner ----------------------------
(***************************************************************************)
(* What the display code promises its caller, without mailbox, events and  *)
(* cores: calls are made one at a time, the layers change only inside a    *)
(* call and only on the core that owns them when the call begins, and the  *)
(* ownership goes from core 0 to core 1 at most once.                      *)
(***************************************************************************)

VARIABLES
  busy,      \* a call is in progress
  worker,    \* the core that works on it, or "none"
  owner,     \* the core the layers belong to
  layers     \* everything the layers are made of

ownerVars == <<busy, worker, owner, layers>>

OwnerInit == busy = FALSE /\ worker = "none" /\ owner = "core0"

Call ==
  /\ ~busy /\ busy' = TRUE
  /\ worker' \in {"none", owner}
  /\ UNCHANGED <<owner, layers>>

Start ==
  /\ busy /\ worker = "none"
  /\ worker' = owner
  /\ UNCHANGED <<busy, owner, layers>>

Work ==
  /\ busy /\ worker # "none"
  /\ owner' \in {owner, "core1"}
  /\ UNCHANGED <<busy, worker>>

Stop ==
  /\ busy /\ worker # "none"
  /\ worker' = "none"
  /\ busy' \in BOOLEAN
  /\ UNCHANGED <<owner, layers>>

Return ==
  /\ busy /\ worker = "none"
  /\ busy' = FALSE
  /\ UNCHANGED <<worker, owner, layers>>

OwnerNext == Call \/ Start \/ Work \/ Stop \/ Return

OwnerSpec == OwnerInit /\ [][OwnerNext]_ownerVars
=============================================================================
