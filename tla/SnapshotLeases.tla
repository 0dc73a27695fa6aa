--------------------------- MODULE SnapshotLeases ---------------------------
(***************************************************************************)
(* SnapshotPool: a fixed set of copy targets, each free, being copied into *)
(* or being converted.  A lease names a slot and its generation.  Clients  *)
(* may keep a lease for as long as they like and present it again: late,   *)
(* twice, or to the wrong operation.                                       *)
(***************************************************************************)
EXTENDS Naturals, FiniteSets

CONSTANTS Slots, Clients, MaxGeneration

VARIABLES slots,      \* per slot: state and generation
          dropCount,
          leases,     \* per client: the leases it was ever given
          presented   \* the operation just made: the client and its lease

leaseVars == <<slots, dropCount, leases, presented>>

NoOne == [client |-> "none", slot |-> 0, generation |-> 0]

Init ==
  /\ slots = [s \in Slots |-> [state |-> "free", generation |-> 0]]
  /\ dropCount = 0
  /\ leases = [c \in Clients |-> {}]
  /\ presented = NoOne

FreeSlots == {s \in Slots : slots[s].state = "free"}

\* The first free slot.
TryAcquire(c) ==
  /\ FreeSlots # {}
  /\ \E s \in FreeSlots :
       /\ \A other \in FreeSlots : s <= other
       /\ slots[s].generation < MaxGeneration
       /\ slots' = [slots EXCEPT ![s] = [state |-> "copying", generation |-> @.generation + 1]]
       /\ leases' = [leases EXCEPT
                       ![c] = @ \cup {[slot |-> s, generation |-> slots[s].generation + 1]}]
  /\ presented' = NoOne
  /\ UNCHANGED dropCount

Dropped ==
  /\ FreeSlots = {} /\ dropCount < MaxGeneration
  /\ dropCount' = dropCount + 1
  /\ presented' = NoOne
  /\ UNCHANGED <<slots, leases>>

\* Mistaken: the generation is not compared.
MatchesState(lease, expected) == slots[lease.slot].state = expected

Matches(lease, expected) ==
  /\ slots[lease.slot].generation = lease.generation
  /\ slots[lease.slot].state = expected

Present(c, lease, expected, next) ==
  /\ Matches(lease, expected)
  /\ slots' = [slots EXCEPT ![lease.slot].state = next]
  /\ presented' = [client |-> c, slot |-> lease.slot, generation |-> lease.generation]
  /\ UNCHANGED <<dropCount, leases>>

HandOffToConverter(c, lease) == Present(c, lease, "copying", "converting")
AbortCopy(c, lease) == Present(c, lease, "copying", "free")
ReleaseAfterConversion(c, lease) == Present(c, lease, "converting", "free")

Next ==
  \/ Dropped
  \/ \E c \in Clients :
       \/ TryAcquire(c)
       \/ \E lease \in leases[c] : \/ HandOffToConverter(c, lease)
                                   \/ AbortCopy(c, lease)
                                   \/ ReleaseAfterConversion(c, lease)

Spec == Init /\ [][Next]_leaseVars

-----------------------------------------------------------------------------
\* Every variable has its type.
LeasesTypeOK ==
  /\ slots \in [Slots -> [state : {"free", "copying", "converting"}, generation : Nat]]
  /\ dropCount \in Nat
  /\ leases \in [Clients -> SUBSET [slot : Slots, generation : Nat]]

\* Whoever moves a busy slot holds the lease of its present use: a late or
\* repeated call with an older lease of a slot that was given away since
\* changes nothing, also when the slot is again in the state the call expects.
OnlyHolderMoves ==
  [][\A s \in Slots : slots[s].state # "free" /\ slots'[s] # slots[s] =>
       [slot |-> s, generation |-> slots[s].generation] \in leases[presented'.client]]_leaseVars
=============================================================================
