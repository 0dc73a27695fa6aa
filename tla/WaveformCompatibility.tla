----------------------- MODULE WaveformCompatibility ------------------------
(***************************************************************************)
(* InstallOceanWaveformScalarStrncpyCompatibility: before the vendor       *)
(* engine of the Ocean panel is initialized, the one strncpy slot of its   *)
(* jump relocations is replaced.  The image is what dlsym and the ELF      *)
(* headers show; addresses are small numbers, a segment is a range of      *)
(* them.  The vendor library is given: every image the checks can tell     *)
(* apart is an input.  The install may be called again on the same image.  *)
(***************************************************************************)
EXTENDS Naturals, Sequences

CONSTANTS
  Libc,        \* libc's strncpy
  Scalar,      \* ScalarStrncpy
  Other,       \* any other function
  MaxInstalls

VARIABLES image,      \* the loaded engine: headers, segments, relocations
          slotValue,  \* what each relocation slot holds
          page,       \* protection of the slots' page
          installs,   \* calls made
          outcome     \* the last result

waveVars == <<image, slotValue, page, installs, outcome>>

Names == {"strncpy", "memcpy"}
SlotAddresses == 1..2
Relocations == [name : Names, type : {"jump", "other"}, slot : SlotAddresses, readable : BOOLEAN]

\* headersOk: the initializer resolves, and the ELF, segment and dynamic table
\* checks pass; relro: the addresses the RELRO segment covers.
Images == [initializer : BOOLEAN, headersOk : BOOLEAN, relro : {{1, 2}, {1}},
           relocations : UNION {[1..n -> Relocations] : n \in 1..2},
           target : {Libc, Other}]

Init ==
  /\ image = [initializer |-> FALSE, headersOk |-> FALSE, relro |-> {}, relocations |-> <<>>,
              target |-> Libc]
  /\ slotValue = [a \in SlotAddresses |-> Libc]
  /\ page = "ro" /\ installs = 0 /\ outcome = "none"

Load ==
  /\ outcome = "none"
  /\ image' \in Images
  /\ slotValue' = [a \in SlotAddresses |-> image'.target]
  /\ outcome' = "loaded"
  /\ UNCHANGED <<page, installs>>

Strncpys == {i \in DOMAIN image.relocations : image.relocations[i].name = "strncpy"}

\* Each symbol and its name lie in the loaded image; a strncpy is a jump slot,
\* and the only one.
ScanOk ==
  /\ \A i \in DOMAIN image.relocations : image.relocations[i].readable
  /\ \A i \in Strncpys : image.relocations[i].type = "jump" /\ Strncpys = {i}

Target == image.relocations[CHOOSE i \in Strncpys : \A j \in Strncpys : j <= i].slot

\* The checks, in their order, up to the first write.
Refusal ==
  CASE ~image.initializer               -> "invalid_engine"
    [] ~image.headersOk                 -> "unexpected_elf"
    [] ~ScanOk                          -> "unexpected_elf"
    [] Strncpys = {}                    -> "relocation_not_found"
    [] Target \notin image.relro        -> "unexpected_elf"
    [] slotValue[Target] # Libc         -> "unexpected_target"
    [] OTHER                            -> "none"

InstallRefused ==
  /\ outcome # "none" /\ installs < MaxInstalls /\ Refusal # "none"
  /\ outcome' = Refusal
  /\ installs' = installs + 1
  /\ UNCHANGED <<image, slotValue, page>>

\* The page cannot be made writable: nothing was written.
UnprotectFails ==
  /\ outcome # "none" /\ installs < MaxInstalls /\ Refusal = "none"
  /\ outcome' = "protection_failed"
  /\ installs' = installs + 1
  /\ UNCHANGED <<image, slotValue, page>>

\* The slot is replaced; making the page read-only again may fail.
Replace(protected) ==
  /\ outcome # "none" /\ installs < MaxInstalls /\ Refusal = "none"
  /\ slotValue' = [slotValue EXCEPT ![Target] = Scalar]
  /\ page' = IF protected THEN "ro" ELSE "rw"
  /\ outcome' = IF protected THEN "applied" ELSE "protection_failed"
  /\ installs' = installs + 1
  /\ UNCHANGED image

Next == Load \/ InstallRefused \/ UnprotectFails \/ \E p \in BOOLEAN : Replace(p)
Spec == Init /\ [][Next]_waveVars

-----------------------------------------------------------------------------
\* Every variable has its type.
WaveTypeOK == slotValue \in [SlotAddresses -> {Libc, Scalar, Other}] /\ page \in {"ro", "rw"}

\* Only the engine's single strncpy slot is ever replaced, never a slot of
\* another function nor one of two candidates; once replaced it stays, and no
\* second call claims to have applied it; a writable page is never reported as
\* applied.
OnlyStrncpyReplaced ==
  /\ \A a \in SlotAddresses : slotValue[a] = Scalar =>
       \E i \in Strncpys : Strncpys = {i} /\ image.relocations[i].slot = a
  /\ outcome = "applied" => page = "ro" /\ slotValue[Target] = Scalar
=============================================================================
