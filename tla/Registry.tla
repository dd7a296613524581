------------------------------ MODULE Registry ------------------------------
(***************************************************************************)
(* The name registry: POST /api/v1/register and DELETE                     *)
(* /api/v1/register/{name} (handlers/registry.rs). A request starts here   *)
(* once it has passed the per-IP limiter and NIP-98; one refused before    *)
(* that touches nothing of this state.                                     *)
(***************************************************************************)
EXTENDS AuthorityState

RegistryPC ==
  {"reg_lookup", "reg_name_of", "reg_paid", "reg_insert", "reg_consume",
   "unreg_lookup", "unreg_release", "unreg_arm"}

RegistryTask == [pc : RegistryPC, pubkey : Pubkeys, name : Names]

-----------------------------------------------------------------------------
(* SQL statements on the names table. *)

\* MUTANT: an upsert on a table without idx_active_pubkey.
InsertableAnyKey(n, p) == owner[n] = None

\* MUTANT: the upsert without "WHERE names.released_at IS NOT NULL".
InsertableTaken(n, p) == NameOf(p) = {}

\* The upsert: a free or released name is taken, an active one is left alone
\* (0 rows), and idx_active_pubkey refuses a key its second active name.
Insertable(n, p) == owner[n] = None /\ NameOf(p) = {}

InsertName(n, p) ==
  owner' = IF Insertable(n, p) THEN [owner EXCEPT ![n] = p] ELSE owner

\* UPDATE names SET released_at WHERE name = n AND released_at IS NULL: the
\* statement names no owner.
ReleaseName(n) == owner' = [owner EXCEPT ![n] = None]

-----------------------------------------------------------------------------
(* register *)

\* The cooldown is read once, before the database is.
StartRegister(w, p, n) ==
  /\ p \notin cooldown
  /\ Begin(w, [pc |-> "reg_lookup", pubkey |-> p, name |-> n])
  /\ UNCHANGED <<owner, cooldown>>

\* 200 when the caller already owns the name, 409 when another key does.
RegisterLookup(w) ==
  /\ task[w].pc = "reg_lookup"
  /\ Check(w, Lookup(task[w].name) = None, "reg_name_of")
  /\ UNCHANGED <<owner, cooldown>>

\* Where a claim goes once it is found possible.
AfterNameOf == IF PayMode = "name" THEN "reg_paid" ELSE "reg_insert"

RegisterNameOf(w) ==
  /\ task[w].pc = "reg_name_of"
  /\ Check(w, NameOf(task[w].pubkey) = {}, AfterNameOf)
  /\ UNCHANGED <<owner, cooldown>>

RegisterInsert(w) ==
  /\ task[w].pc = "reg_insert"
  /\ InsertName(task[w].name, task[w].pubkey)
  /\ Check(w, Insertable(task[w].name, task[w].pubkey) /\ PayMode = "name",
           "reg_consume")
  /\ UNCHANGED cooldown

-----------------------------------------------------------------------------
(* unregister *)

StartUnregister(w, p, n) ==
  /\ Begin(w, [pc |-> "unreg_lookup", pubkey |-> p, name |-> n])
  /\ UNCHANGED <<owner, cooldown>>

UnregisterLookup(w) ==
  /\ task[w].pc = "unreg_lookup"
  /\ Check(w, Lookup(task[w].name) = task[w].pubkey, "unreg_release")
  /\ UNCHANGED <<owner, cooldown>>

UnregisterRelease(w) ==
  /\ task[w].pc = "unreg_release"
  /\ ReleaseName(task[w].name)
  /\ Goto(w, "unreg_arm")
  /\ UNCHANGED cooldown

UnregisterArm(w) ==
  /\ task[w].pc = "unreg_arm"
  /\ ArmCooldown(task[w].pubkey)
  /\ Return(w)
  /\ UNCHANGED owner

-----------------------------------------------------------------------------
(* Database errors (disk full, lock timeout). *)

\* A write fails: 500, nothing written.
RegistryWriteError(w) ==
  /\ DbFaults
  /\ task[w].pc \in {"reg_insert", "unreg_release"}
  /\ Return(w)
  /\ UNCHANGED <<owner, cooldown>>

\* A query fails: lookup and name_of turn the error into None, "no row".
RegistryReadError(w) ==
  /\ DbFaults
  /\ \/ task[w].pc = "reg_lookup" /\ Goto(w, "reg_name_of")
     \/ task[w].pc = "reg_name_of" /\ Goto(w, AfterNameOf)
     \/ task[w].pc = "unreg_lookup" /\ Return(w)
  /\ UNCHANGED <<owner, cooldown>>

-----------------------------------------------------------------------------
RegistryStep(w) ==
  \/ RegisterLookup(w)
  \/ RegisterNameOf(w)
  \/ RegisterInsert(w)
  \/ UnregisterLookup(w)
  \/ UnregisterRelease(w)
  \/ UnregisterArm(w)

RegistryError(w) == RegistryWriteError(w) \/ RegistryReadError(w)

RegistryStart(w) ==
  \E p \in Pubkeys, n \in Names :
    StartRegister(w, p, n) \/ StartUnregister(w, p, n)

RegistryNext ==
  \E w \in Workers : RegistryStart(w) \/ RegistryStep(w) \/ RegistryError(w)

=============================================================================
