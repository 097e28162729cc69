------------------------------- MODULE MCIpc -------------------------------
(* Ipc for TLC.  The heap blocks are interchangeable. *)
EXTENDS IpcChannel, TLC

MsgSymmetry == Permutations(MsgIds)
=============================================================================
