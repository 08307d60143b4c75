------------------------------ MODULE MCCanNode ------------------------------
(***************************************************************************)
(* The parts of a node on the bus that share no state: each behaviour is   *)
(* one of a single part, the others rest in their initial state.           *)
(***************************************************************************)
EXTENDS CanTransfer, CanSlave, FileUpload, ScalarCodec

VARIABLE part
nodeVars == <<part, transferVars, slaveVars, uploadVars, codecVars>>

\* The parts that rest, in a state of theirs that is always the same.
SlaveRests ==
  /\ decl = [class |-> "volatile", readonly |-> TRUE, readable |-> TRUE, type |-> "unsigned"]
  /\ field = 0
UploadRests == readonly = TRUE /\ total = 0
CodecRests == number = [payload |-> 1, offset |-> 0, length |-> 1, signed |-> FALSE]

Init ==
  /\ part \in {"transfer", "slave", "upload", "codec"}
  /\ TransferInit
  /\ (part # "slave" => SlaveRests) /\ SlaveInit
  /\ (part # "upload" => UploadRests) /\ UploadInit
  /\ (part # "codec" => CodecRests) /\ CodecInit

TransferPart == part = "transfer" /\ TransferNext /\ UNCHANGED <<part, slaveVars, uploadVars, codecVars>>
SlavePart  == part = "slave" /\ SlaveNext /\ UNCHANGED <<part, transferVars, uploadVars, codecVars>>
UploadPart == part = "upload" /\ UploadNext /\ UNCHANGED <<part, transferVars, slaveVars, codecVars>>

Next == TransferPart \/ SlavePart \/ UploadPart
Spec == Init /\ [][Next]_nodeVars
=============================================================================
