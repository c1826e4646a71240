----------------------------- MODULE FileStorage -----------------------------
(***************************************************************************)
(* internal/audit/file_storage.go: the JSON Lines file, opened for         *)
(* appending.  Write marshals the entry, appends the line and syncs; each  *)
(* of the three steps may return an error of its own:                      *)
(*   "reject"  nothing reaches the file (json.Marshal or file.Write fails) *)
(*   "torn"    file.Write stops after part of the line (disk full)         *)
(*   "nosync"  the line is in the file and file.Sync fails                 *)
(* One goroutine writes, so the mutex of the code never blocks.            *)
(***************************************************************************)
EXTENDS HashChain

CONSTANTS
  Faults,      \* which of the three errors may happen
  MaxFaults    \* bound: how many writes may fail in a behaviour

ASSUME FaultsAssumption == Faults \subseteq {"reject", "torn", "nosync"}
ASSUME MaxFaultsAssumption == MaxFaults \in Nat

VARIABLES
  file,        \* the contents of the audit file, line by line
  faults       \* how many writes failed so far (bounds the model only)

storageVars == << file, faults >>

StorageTypeOK ==
  /\ file \in Seq(Lines \cup {Torn})
  /\ faults \in 0..MaxFaults

\* NewFileStorage on a path where no file exists yet.
StorageInit ==
  /\ file = << >>
  /\ faults = 0

\* Write returns nil.
WriteOK(line) ==
  /\ file' = Append(file, line)
  /\ UNCHANGED faults

\* Write returns an error.
WriteErr(line) ==
  /\ faults < MaxFaults
  /\ faults' = faults + 1
  /\ \/ "reject" \in Faults /\ UNCHANGED file
     \/ "torn" \in Faults /\ file' = Append(file, Torn)
     \/ "nosync" \in Faults /\ file' = Append(file, line)
=============================================================================
